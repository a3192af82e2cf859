--------------------------- MODULE NamespaceCache ---------------------------
(***************************************************************************)
(* The cached MAPI namespace of outlook/pst.go and bridge.go against the   *)
(* life of the Outlook process, which the user opens and closes and which  *)
(* ExecuteIndependentDeletion (archiver.go) restarts to remove files.      *)
(* Each start of OUTLOOK.EXE is a new incarnation; a proxy belongs to one. *)
(* Closures execute one at a time, which ComBridge shows.                  *)
(***************************************************************************)
EXTENDS Naturals

CONSTANTS MaxStarts,    \* bound: how often Outlook is started
          Polls         \* how often the deletion looks whether Outlook is gone

ASSUME CacheConstantsOK == /\ MaxStarts \in Nat \ {0, 1}
                           /\ Polls \in Nat \ {0}

VARIABLES proc,    \* the process: down, starting (no COM yet), up, closing
          inc,     \* its incarnation, the latest one if it is down
          cached,  \* the incarnation of cachedApp and cachedNS, 0 if they are nil
          com,     \* where the closure on the COM thread is
          client,  \* whose it is
          held,    \* the incarnation of the proxy it works with, 0 for none
          pass,    \* how the last periodic archive went
          del,     \* where ExecuteIndependentDeletion is
          polls,   \* how often it has found Outlook running
          alive,   \* has main not returned?
          overtaken,  \* incarnations in the cache when the user started another (history)
          cachedLate, \* incarnations cached while the program restarted Outlook (history)
          notStarted  \* did the latest deletion fail to start Outlook? (history)

outlook   == <<proc, inc>>
closure   == <<com, client, held>>
deletion  == <<del, polls>>
history   == <<overtaken, cachedLate, notStarted>>
cacheVars == <<outlook, cached, closure, pass, deletion, alive, history>>

CacheTypeOK ==
    /\ proc \in {"down", "starting", "up", "closing"}
    /\ inc \in 0 .. MaxStarts
    /\ cached \in 0 .. inc
    /\ com \in {"free", "lookup", "cold", "active", "using", "gone"}
    /\ client \in {"none", "pass", "page"}
    /\ held \in 0 .. inc
    /\ pass \in {"none", "submitted", "skipped", "ok", "failed"}
    /\ del \in {"none", "invalidate", "quit", "poll", "remove", "start"}
    /\ polls \in 0 .. Polls
    /\ alive \in BOOLEAN
    /\ overtaken \subseteq 0 .. inc /\ cachedLate \subseteq 0 .. inc
    /\ notStarted \in BOOLEAN

CacheInit ==
    /\ proc = "down" /\ inc = 0
    /\ cached = 0
    /\ com = "free" /\ client = "none" /\ held = 0
    /\ pass = "none"
    /\ del = "none" /\ polls = 0
    /\ alive = TRUE
    /\ overtaken = {} /\ cachedLate = {} /\ notStarted = FALSE

-----------------------------------------------------------------------------
(* The Outlook process.                                                    *)

IsOutlookRunning == proc # "down"
Answers          == proc \in {"up", "closing"}

Launched == /\ inc < MaxStarts
            /\ proc' = "starting"
            /\ inc' = inc + 1

\* The last start is the program's, which is never held up by the bound.
UserStarts == /\ proc = "down"
              /\ inc < MaxStarts - 1
              /\ Launched
              /\ overtaken' = overtaken \cup ({cached} \ {0})
              /\ UNCHANGED <<cached, closure, pass, deletion, alive, cachedLate, notStarted>>

UserCloses == /\ proc = "up"
              /\ proc' = "closing"
              /\ UNCHANGED <<inc, cached, closure, pass, deletion, alive, history>>

ComesUp == /\ proc = "starting"
           /\ proc' = "up"
           /\ UNCHANGED <<inc, cached, closure, pass, deletion, alive, history>>

GoesDown == /\ proc = "closing"
            /\ proc' = "down"
            /\ UNCHANGED <<inc, cached, closure, pass, deletion, alive, history>>

-----------------------------------------------------------------------------
(* Archive looks whether Outlook runs before it submits; requests of the   *)
(* web page for the mounted files do not.                                  *)

PassStarts == /\ alive
              /\ pass # "submitted"
              /\ del = "none"
              /\ pass' = IF IsOutlookRunning THEN "submitted" ELSE "skipped"
              /\ UNCHANGED <<outlook, cached, closure, deletion, alive, history>>

Begin(c) == /\ com = "free"
            /\ com' = "lookup"
            /\ client' = c
            /\ UNCHANGED <<outlook, cached, held, pass, deletion, alive, history>>

PassCall == pass = "submitted" /\ Begin("pass")

PageCall == Begin("page")

Over(ok) == /\ com' = "free"
            /\ client' = "none"
            /\ held' = 0
            /\ pass' = IF client = "pass" THEN IF ok THEN "ok" ELSE "failed" ELSE pass
            /\ UNCHANGED <<outlook, deletion, alive, history>>

-----------------------------------------------------------------------------
(* getNamespace, and the calls its caller makes with what it returned.     *)

Hit == cached # 0 /\ IsOutlookRunning

CacheHit == /\ com = "lookup"
            /\ Hit
            /\ held' = cached
            /\ com' = "using"
            /\ UNCHANGED <<outlook, cached, client, pass, deletion, alive, history>>

CacheMiss == /\ com = "lookup"
             /\ ~Hit
             /\ cached' = 0
             /\ com' = "cold"
             /\ UNCHANGED <<outlook, client, held, pass, deletion, alive, history>>

\* GetActiveOutlook, which takes the instance in the running object table.
GetActive == /\ com = "cold"
             /\ Answers
             /\ held' = inc
             /\ com' = "active"
             /\ UNCHANGED <<outlook, cached, client, pass, deletion, alive, history>>

NotActive == /\ com = "cold"
             /\ proc # "up"
             /\ Over(FALSE)
             /\ UNCHANGED cached

Usable == held = inc /\ Answers

\* The program has asked Outlook to quit and not yet started it again.
Restarting == del \in {"poll", "remove", "start"}

GetNamespace == /\ com = "active"
                /\ Usable
                /\ cached' = held
                /\ com' = "using"
                /\ cachedLate' = IF Restarting THEN cachedLate \cup {held} ELSE cachedLate
                /\ UNCHANGED <<outlook, client, held, pass, deletion, alive,
                               overtaken, notStarted>>

NoNamespace == /\ com = "active"
               /\ ~Usable \/ proc = "closing"
               /\ Over(FALSE)
               /\ UNCHANGED cached

\* The closure ends; its calls fail if the proxy's Outlook is gone.
Use == /\ com = "using"
       /\ \E ok \in BOOLEAN : /\ ok => Usable
                              /\ Usable /\ proc = "up" => ok
                              /\ Over(ok)
       /\ UNCHANGED cached

-----------------------------------------------------------------------------
(* ExecuteIndependentDeletion.  Its restore keeps the scheduler busy, so   *)
(* no archive runs beside it; requests of the page do.                     *)

DeletionBegins == /\ del = "none"
                  /\ pass # "submitted"
                  /\ com # "gone"
                  /\ inc < MaxStarts
                  /\ del' = "invalidate"
                  /\ polls' = 0
                  /\ notStarted' = FALSE
                  /\ UNCHANGED <<outlook, cached, closure, pass, alive, overtaken, cachedLate>>

InvalidateNamespaceCache == /\ del = "invalidate"
                            /\ com = "free"
                            /\ cached' = 0
                            /\ del' = "quit"
                            /\ UNCHANGED <<outlook, closure, pass, polls, alive, history>>

\* Outlook may refuse to quit, or there is none.
QuitCall == /\ proc' \in IF Answers THEN {"closing", proc} ELSE {proc}
            /\ UNCHANGED inc

\* Mutant: QuitOutlook relies on the earlier invalidation.
QuitOnly == /\ del = "quit"
            /\ com = "free"
            /\ QuitCall
            /\ del' = "poll"
            /\ UNCHANGED <<cached, closure, pass, polls, alive, history>>

QuitOutlook == /\ del = "quit"
               /\ com = "free"
               /\ cached' = 0
               /\ QuitCall
               /\ del' = "poll"
               /\ UNCHANGED <<closure, pass, polls, alive, history>>

\* The bridge refuses the two closures once it is shut down; both errors are ignored.
Refused == /\ com = "gone" /\ alive
           /\ \/ del = "invalidate" /\ del' = "quit"
              \/ del = "quit" /\ del' = "poll"
           /\ UNCHANGED <<outlook, cached, closure, pass, polls, alive, history>>

\* Mutant: the loop looks once more than it is meant to.
LooksOnceMore == /\ del = "poll" /\ alive
                 /\ polls <= Polls
                 /\ IsOutlookRunning
                 /\ polls' = polls + 1
                 /\ UNCHANGED <<outlook, cached, closure, pass, del, alive, history>>

SeesRunning == /\ del = "poll" /\ alive
               /\ polls < Polls
               /\ IsOutlookRunning
               /\ polls' = polls + 1
               /\ UNCHANGED <<outlook, cached, closure, pass, del, alive, history>>

SeesGone == /\ del = "poll" /\ alive
            /\ polls < Polls
            /\ ~IsOutlookRunning
            /\ del' = "remove"
            /\ UNCHANGED <<outlook, cached, closure, pass, polls, alive, history>>

\* taskkill may fail, and its error is ignored.
ForceKillOutlook == /\ del = "poll" /\ alive
                    /\ polls = Polls
                    /\ proc' \in {"down", proc}
                    /\ del' = "remove"
                    /\ UNCHANGED <<inc, cached, closure, pass, polls, alive, history>>

\* Mutant: a file that cannot be removed ends the deletion.
RemoveOrReturn == /\ del = "remove" /\ alive
                  /\ del' \in {"start", "none"}
                  /\ UNCHANGED <<outlook, cached, closure, pass, polls, alive, history>>

\* os.Remove for each file; an error is logged (Restore has the files).
RemoveFiles == /\ del = "remove" /\ alive
               /\ del' = "start"
               /\ UNCHANGED <<outlook, cached, closure, pass, polls, alive, history>>

\* "cmd /c start outlook" may fail, and its error is ignored; an Outlook that still runs
\* takes the call.
StartOutlook == /\ del = "start" /\ alive
                /\ IF IsOutlookRunning THEN UNCHANGED <<outlook, notStarted>>
                   ELSE \/ Launched /\ UNCHANGED notStarted
                        \/ UNCHANGED outlook /\ notStarted' = TRUE
                /\ del' = "none"
                /\ UNCHANGED <<cached, closure, pass, polls, alive, overtaken, cachedLate>>

-----------------------------------------------------------------------------
(* The program quits: Run releases the cache, and main returns within 15 s *)
(* whatever the deletion is doing.                                         *)

BridgeExits == /\ com = "free"
               /\ com' = "gone"
               /\ cached' = 0
               /\ UNCHANGED <<outlook, client, held, pass, deletion, alive, history>>

MainReturns == /\ com = "gone" /\ alive
               /\ alive' = FALSE
               /\ UNCHANGED <<outlook, cached, closure, pass, deletion, history>>

-----------------------------------------------------------------------------
Process == ComesUp \/ GoesDown
Closure == \/ CacheHit \/ CacheMiss \/ GetActive \/ NotActive
           \/ GetNamespace \/ NoNamespace \/ Use
Waits   == SeesRunning \/ SeesGone \/ ForceKillOutlook \/ RemoveFiles \/ StartOutlook

CacheNext == \/ UserStarts \/ UserCloses \/ Process
             \/ PassStarts \/ PassCall \/ PageCall \/ Closure
             \/ DeletionBegins \/ InvalidateNamespaceCache \/ QuitOutlook \/ Refused \/ Waits
             \/ BridgeExits \/ MainReturns

\* The bridge's channel is first in, first out: no closure waits for ever while
\* others are executed.  The user, the page and a quit need never come.
Fairness == /\ WF_cacheVars(Process) /\ WF_cacheVars(PassStarts) /\ WF_cacheVars(Closure)
            /\ WF_cacheVars(Waits) /\ WF_cacheVars(MainReturns)
            /\ SF_cacheVars(PassCall)
            /\ SF_cacheVars(InvalidateNamespaceCache) /\ SF_cacheVars(QuitOutlook)

CacheSpec == CacheInit /\ [][CacheNext]_cacheVars
FairSpec  == CacheSpec /\ Fairness

-----------------------------------------------------------------------------
(* Properties.                                                             *)

\* getNamespace, whose only test is that some OUTLOOK.EXE runs, hands out the proxy of an
\* Outlook that is gone in two cases only: the user has restarted Outlook and no call came
\* to the cache while it was down, or a request of the web page has cached the proxy while
\* the program itself was restarting Outlook.  Everything cached before the program's quit
\* is gone with it, whatever requests of the page lie between the steps of a deletion.
HandsOutLive ==
    [][com # "using" /\ com' = "using" =>
          \/ held' = inc /\ IsOutlookRunning
          \/ held' \in overtaken \cup cachedLate]_cacheVars

\* A deletion that has reached its quit ends with Outlook started again or still there,
\* whether it quits, hangs, is killed or survives that, and whether files can be removed,
\* unless the start itself fails, which the code does not notice, or the program is at
\* its end.  (The user may be closing Outlook at that moment.)
OutlookComesBack ==
    del = "quit" ~> \/ del = "none" /\ (IsOutlookRunning \/ notStarted)
                    \/ com = "gone"

\* "Liveness check passed, AddRef and return" (comment of getNamespace): once Outlook
\* stays up, and no deletion goes on for ever, the periodic archive works again.
ArchivingResumes ==
    <>[](proc = "up" /\ com # "gone" /\ del = "none") => []<>(pass = "ok")
=============================================================================
