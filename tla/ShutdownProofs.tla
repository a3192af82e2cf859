--------------------------- MODULE ShutdownProofs ---------------------------
(***************************************************************************)
(* Proofs about Shutdown, for any number of goroutines and folders and any *)
(* capacity of the channel: how much a quit lets tasks begin, and what can *)
(* keep one of them waiting.  The bridge's part is the invariant of        *)
(* ComBridgeProofs, used through its instance.                             *)
(***************************************************************************)
EXTENDS Shutdown, TLAPS

CB == INSTANCE ComBridgeProofs WITH Root <- Call, Nested <- {}, Context <- CallContext
SP == INSTANCE SchedulerProofs WITH Loop <- TimerLoop, Reloaders <- {}, MaxVersion <- 0,
                                    storedBy <- "task", resetBy <- "task"

FolderCall == {c \in Call : c.folder}

TaskType == /\ at \in [Workers -> Steps \cup {NotBegun, Over}]
            /\ stage \in [Workers -> Stages]
            /\ looked \in [Workers -> BOOLEAN]
            /\ late \in [Workers -> {0, 1}]

\* Of the calls a task has come to, only the current one can be under way, and one that
\* needs a look not before it.
Order ==
    \A c \in Call :
        /\ caller[c] \in COM!Returned \cup {"idle"} \/ (at[c.of] \in Steps /\ c = Current(c.of))
        /\ at[c.of] = NotBegun \/ (at[c.of] \in Steps /\ c.step > at[c.of]) => caller[c] = "idle"
        /\ at[c.of] \in Steps /\ c = Current(c.of) /\ stage[c.of] \in Checked /\ ~looked[c.of]
              => caller[c] = "idle"

\* A look lets the closure of one folder begin: at once, or in a restore after the call
\* that makes its target.
Ahead(c) == /\ looked[c.of]
            /\ caller[c] = "idle"
            /\ \/ stage[c.of] \in FolderStages /\ c.step = at[c.of]
               \/ stage[c.of] = "target" /\ c.step = at[c.of] + 1

\* May the closure of this call still be taken up?
MayBegin(c) == closure[c] = "queued" \/ caller[c] = "sending" \/ Ahead(c)

\* That holds for one folder of each task at a time, and for none once one was late.
OneAhead == \A c, d \in FolderCall : c.of = d.of /\ MayBegin(c) /\ MayBegin(d) => c = d

LateOnce == \A c \in FolderCall : late[c.of] = 1 => CtxGone(c.of) /\ ~MayBegin(c)

\* Only a cancelled context makes a call return before its closure is over, the worker
\* leaves only with main's, and main's is cancelled after the tray's.
Cancelled == /\ \A c \in FolderCall : caller[c] = "cancelled" => CtxGone(c.of)
             /\ worker # "serving" => "main" \in done
             /\ "main" \in done => "tray" \in done

IInv == TaskType /\ CB!IInv /\ Order /\ OneAhead /\ LateOnce /\ Cancelled
-----------------------------------------------------------------------------
LEMMA Bridge == CB!ConstantsOK
BY ConstantsOK DEF CB!ConstantsOK, CallContext, CB!Contexts

LEMMA Numbers == /\ Steps \subseteq Nat /\ 1 \in Steps /\ NotBegun \notin Steps /\ Over \notin Steps
                 /\ NotBegun # Over
                 /\ \A s \in Steps : s # MaxCalls => s + 1 \in Steps
                 /\ MaxCalls \in Nat
BY ConstantsOK DEF Steps, NotBegun, Over

LEMMA Fields ==
  /\ \A c \in Call : c.of \in Workers /\ c.step \in Steps /\ c.step \in Nat
  /\ \A c, d \in FolderCall : c.of = d.of /\ c.step = d.step => c = d
  /\ \A p \in Workers : at[p] \in Steps =>
                          /\ Current(p) \in Call
                          /\ Current(p).of = p
                          /\ Current(p).step = at[p]
                          /\ Current(p).folder = (stage[p] \in FolderStages)
<1>1. \A c \in Call : c.of \in Workers /\ c.step \in Steps /\ c.step \in Nat
  BY Numbers DEF Call
<1>2. \A c, d \in FolderCall : c.of = d.of /\ c.step = d.step => c = d
  BY DEF Call, FolderCall
<1>3. \A p \in Workers : at[p] \in Steps =>
                          /\ Current(p) \in Call
                          /\ Current(p).of = p
                          /\ Current(p).step = at[p]
                          /\ Current(p).folder = (stage[p] \in FolderStages)
  <2> SUFFICES ASSUME NEW p \in Workers, at[p] \in Steps
               PROVE  /\ Current(p) \in Call
                      /\ Current(p).of = p
                      /\ Current(p).step = at[p]
                      /\ Current(p).folder = (stage[p] \in FolderStages)
    OBVIOUS
  <2>1. CASE stage[p] \in FolderStages
    BY <2>1 DEF Current, Call
  <2>2. CASE stage[p] \notin FolderStages
    BY <2>2 DEF Current, Call
  <2> QED
    BY <2>1, <2>2
<1>4. QED
  BY <1>1, <1>2, <1>3

LEMMA InitInv == Init => IInv
<1> SUFFICES ASSUME Init PROVE IInv
  OBVIOUS
<1>1. CB!Init
  BY DEF Init, COM!Init, COM!Calls, CB!Init, CB!Calls
<1>2. CB!IInv
  BY <1>1, Bridge, CB!InitInv
<1>3. /\ \A c \in Call : caller[c] = "idle" /\ closure[c] = "unsent"
      /\ \A p \in Workers : at[p] = NotBegun /\ stage[p] = "walk" /\ looked[p] = FALSE /\ late[p] = 0
      /\ worker = "serving" /\ done = {}
  BY DEF Init, COM!Init, COM!Calls
<1>4. TaskType
  BY Numbers DEF Init, TaskType, Stages
<1>5. Order /\ Cancelled
  BY <1>3, Fields, Numbers DEF Order, Cancelled, FolderCall
<1>6. \A c \in FolderCall : ~MayBegin(c)
  BY <1>3, Fields DEF MayBegin, Ahead, FolderCall
<1>7. OneAhead /\ LateOnce
  BY <1>3, <1>6, Fields DEF OneAhead, LateOnce, FolderCall
<1>8. QED
  BY <1>2, <1>4, <1>5, <1>7 DEF IInv

\* The steps of the bridge are the same through both instances.
LEMMA SameCalls ==
  ASSUME NEW c \in Call, COM!SubmitTask(c) \/ COM!SubmitInline(c) \/ COM!Proceed(c)
  PROVE  CB!SubmitTask(c) \/ CB!SubmitInline(c) \/ CB!Proceed(c)
<1> USE DEF COM!Calls, CB!Calls, COM!Waiting, CB!Waiting
<1>1. CASE COM!SubmitTask(c)
  BY <1>1 DEF COM!SubmitTask, CB!SubmitTask, COM!MayCall, CB!MayCall, COM!MayBeOtherThread,
              CB!MayBeOtherThread, COM!Runnable, CB!Runnable
<1>2. CASE COM!SubmitInline(c)
  BY <1>2 DEF COM!SubmitInline, CB!SubmitInline, COM!MayCall, CB!MayCall, COM!MayBeComThread,
              CB!MayBeComThread, COM!Runnable, CB!Runnable
<1>3. CASE COM!Proceed(c)
  BY <1>3 DEF COM!Proceed, CB!Proceed, COM!Enqueue, CB!Enqueue, COM!RoomInQueue, CB!RoomInQueue,
              COM!Receive, CB!Receive, COM!GiveUp, CB!GiveUp, COM!CtxDone, CB!CtxDone,
              COM!StrayReturn, CB!StrayReturn
<1>4. QED
  BY <1>1, <1>2, <1>3

LEMMA SameWorker ==
  /\ COM!Take => CB!Take
  /\ COM!FinishRoot => CB!FinishRoot
  /\ COM!Panic => CB!Panic
  /\ COM!BeginDrain => CB!BeginDrain
  /\ COM!Drain => CB!Drain
  /\ COM!Exit => CB!Exit
  /\ COM!CancelTray => CB!CancelTray
  /\ COM!CancelMain => CB!CancelMain
<1> USE DEF COM!Calls, CB!Calls, COM!Waiting, CB!Waiting, COM!Runnable, CB!Runnable,
        COM!CanAnswer, CB!CanAnswer
<1>1. COM!Panic => CB!Panic
  BY DEF COM!Panic, CB!Panic, COM!Range, CB!Range
<1>2. COM!FinishRoot => CB!FinishRoot
  BY DEF COM!FinishRoot, CB!FinishRoot
<1>3. (COM!Take => CB!Take) /\ (COM!Drain => CB!Drain)
  BY DEF COM!Take, CB!Take, COM!Drain, CB!Drain
<1>4. /\ (COM!BeginDrain => CB!BeginDrain) /\ (COM!Exit => CB!Exit)
      /\ (COM!CancelTray => CB!CancelTray) /\ (COM!CancelMain => CB!CancelMain)
  BY DEF COM!BeginDrain, CB!BeginDrain, COM!Exit, CB!Exit, COM!CancelTray, CB!CancelTray,
         COM!CancelMain, CB!CancelMain
<1>5. QED
  BY <1>1, <1>2, <1>3, <1>4

\* What the worker and the contexts do to the calls of tasks: callers are left alone, and
\* no closure gets into the queue.
LEMMA WorkerFrame ==
  ASSUME CB!IInv, \/ COM!Take \/ COM!FinishRoot \/ COM!Panic \/ COM!BeginDrain
                  \/ COM!Drain \/ COM!Exit \/ COM!CancelTray \/ COM!CancelMain
  PROVE  /\ CB!IInv'
         /\ caller' = caller
         /\ \A c \in Call : closure'[c] = "queued" => closure[c] = "queued"
<1>1. CB!IInv'
  BY SameWorker, Bridge, CB!QueueSteps, CB!StackSteps, CB!PhaseSteps
<1>2. ASSUME stack # <<>> PROVE Len(stack) = 1
  <2>1. stack \in Seq(CB!Calls) /\ \A i \in 2 .. Len(stack) : stack[i] \in {}
    BY DEF CB!IInv, CB!StackShape, CB!TypeOK
  <2>2. 2 \notin 2 .. Len(stack)
    BY <2>1
  <2>3. Len(stack) \in Nat /\ Len(stack) # 0
    BY <1>2, <2>1
  <2>4. QED
    BY <2>2, <2>3
<1>3. /\ caller' = caller
      /\ \A c \in Call : closure'[c] = "queued" => closure[c] = "queued"
  <2>1. CASE COM!Panic
    <3>1. Len(stack) = 1
      BY <1>2, <2>1 DEF COM!Panic, COM!Runnable
    <3>2. DOMAIN Tail(stack) = {}
      <4>1. stack \in Seq(CB!Calls) /\ stack # <<>>
        BY <2>1 DEF COM!Panic, COM!Runnable, CB!IInv, CB!TypeOK
      <4>2. Tail(stack) \in Seq(CB!Calls) /\ Len(Tail(stack)) = 0
        BY <3>1, <4>1
      <4>3. \A s \in Seq(CB!Calls) : Len(s) = 0 => DOMAIN s = {}
        OBVIOUS
      <4>4. QED
        BY <4>2, <4>3
    <3>3. COM!Range(Tail(stack)) = {}
      BY <3>2 DEF COM!Range
    <3>4. QED
      BY <2>1, <3>3 DEF COM!Panic, COM!Calls, CB!IInv, CB!TypeOK, CB!Calls
  <2>2. CASE \/ COM!Take \/ COM!FinishRoot \/ COM!BeginDrain
             \/ COM!Drain \/ COM!Exit \/ COM!CancelTray \/ COM!CancelMain
    BY <2>2 DEF COM!Take, COM!FinishRoot, COM!BeginDrain, COM!Drain, COM!Exit, COM!CancelTray,
                COM!CancelMain, CB!IInv, CB!TypeOK, CB!Calls
  <2>3. QED
    BY <2>1, <2>2
<1>4. QED
  BY <1>1, <1>3
-----------------------------------------------------------------------------
LEMMA StillBridge == ASSUME CB!IInv, UNCHANGED bridge PROVE CB!IInv'
BY Bridge, CB!PhaseSteps DEF bridge, CB!vars

LEMMA ElsewhereSteps ==
  ASSUME IInv, UNCHANGED <<bridge, at, stage, looked, late>>
  PROVE  IInv'
BY StillBridge DEF IInv, TaskType, Order, OneAhead, LateOnce, Cancelled, MayBegin, Ahead, CtxGone,
                   Current, bridge

\* How a task may turn to a call: to its first one; to another one in place of a call it has
\* not made; past a look; from a call that has returned to the next; or to its end.
First(p, n, l)      == at[p] = NotBegun /\ n = 1 /\ ~l
Instead(p, n, s, l) == /\ at[p] \in Steps /\ n = at[p] /\ ~l /\ caller[Current(p)] = "idle"
                       /\ stage[p] \notin FolderStages /\ s \notin FolderStages
Past(p, n, s, l)    == AtCheck(p) /\ ~CtxGone(p) /\ n = at[p] /\ s = stage[p] /\ l
Onward(p, n, s, l)  == /\ at[p] \in Steps /\ n \in Steps /\ n = at[p] + 1
                       /\ caller[Current(p)] \in COM!Returned
                       /\ l => looked[p] /\ stage[p] = "target" /\ s = "pstFolder"
Away(p, n, l)       == /\ at[p] \in Steps /\ n = Over /\ ~l
                       /\ caller[Current(p)] \in COM!Returned \cup {"idle"}

Turn(p, n, s, l) == \/ First(p, n, l) \/ Instead(p, n, s, l) \/ Past(p, n, s, l)
                    \/ Onward(p, n, s, l) \/ Away(p, n, l)

\* Every step of the loops is one of these.
LEMMA Turns ==
  ASSUME IInv, NEW p \in Workers,
         Launch(p) \/ SkipTask(p) \/ Look(p) \/ SeeCancelled(p) \/ Advance(p)
  PROVE  \E n \in Steps \cup {Over}, s \in Stages, l \in BOOLEAN : GoTo(p, n, s, l) /\ Turn(p, n, s, l)
<1> USE Numbers DEF Turn, Stages
<1>1. at[p] \in Steps \cup {NotBegun, Over} /\ stage[p] \in Stages /\ looked[p] \in BOOLEAN
  BY DEF IInv, TaskType
<1>2. CASE Launch(p)
  <2>1. PICK s \in Entry(job'[p]) : GoTo(p, 1, s, FALSE)
    BY <1>2 DEF Launch
  <2>2. s \in Stages
    BY DEF Entry, Plan, ArchivePlan, ReorganizePlan, RestorePlan
  <2>3. First(p, 1, FALSE)
    BY <1>2 DEF Launch, First
  <2> QED BY <2>1, <2>2, <2>3
<1>3. CASE SkipTask(p)
  <2>1. at[p] \in Steps /\ caller[Current(p)] = "idle" /\ stage[p] \notin FolderStages
    BY <1>3 DEF SkipTask, AtFirstCall, InTask, FolderStages
  <2>2. CASE Return(p)
    BY <2>1, <2>2 DEF Return, Away
  <2>3. ASSUME NEW s \in {"list", "mount"}, GoTo(p, at[p], s, FALSE)
        PROVE  GoTo(p, at[p], s, FALSE) /\ Instead(p, at[p], s, FALSE) /\ s \in Stages
    BY <2>1, <2>3 DEF Instead, FolderStages
  <2> QED BY <1>3, <2>1, <2>2, <2>3 DEF SkipTask
<1>4. CASE Look(p)
  <2>1. at[p] \in Steps /\ GoTo(p, at[p], stage[p], TRUE) /\ Past(p, at[p], stage[p], TRUE)
    BY <1>4 DEF Look, Pass, Past, AtCheck, InTask
  <2> QED BY <1>1, <2>1
<1>5. CASE SeeCancelled(p)
  <2>1. at[p] \in Steps /\ caller[Current(p)] = "idle"
    BY <1>5, Fields DEF SeeCancelled, AtCheck, InTask, IInv, Order
  <2>2. CASE stage[p] = "target"
    <3>1. GoTo(p, at[p], "unmount", FALSE) /\ Instead(p, at[p], "unmount", FALSE)
      BY <1>5, <2>1, <2>2 DEF SeeCancelled, Instead, FolderStages
    <3> QED BY <2>1, <3>1
  <2>3. CASE stage[p] # "target"
    BY <1>5, <2>1, <2>3 DEF SeeCancelled, Return, Away
  <2> QED BY <2>2, <2>3
<1>6. CASE Advance(p)
  <2>1. at[p] \in Steps /\ caller[Current(p)] \in COM!Returned
    BY <1>6 DEF Advance, InTask
  <2>2. CASE Return(p)
    BY <2>1, <2>2 DEF Return, Away
  <2>3. CASE ~Return(p)
    <3>1. PICK s \in Stages \cup {"end"} :
             /\ s # "end" /\ at[p] # MaxCalls
             /\ GoTo(p, at[p] + 1, s, looked[p] /\ stage[p] = "target" /\ s = "pstFolder")
      BY <1>6, <2>3 DEF Advance
    <3>2. at[p] + 1 \in Steps /\ s \in Stages
      BY <2>1, <3>1
    <3>3. PICK l \in BOOLEAN : l = (looked[p] /\ stage[p] = "target" /\ s = "pstFolder")
      OBVIOUS
    <3>4. GoTo(p, at[p] + 1, s, l) /\ Onward(p, at[p] + 1, s, l)
      BY <2>1, <3>1, <3>2, <3>3 DEF Onward
    <3> QED BY <3>2, <3>4
  <2> QED BY <2>2, <2>3
<1> QED
  BY <1>2, <1>3, <1>4, <1>5, <1>6

\* The loop of a task moves on; only a look lets one more closure begin, and it takes
\* place while the context is still good, so that all earlier closures are over.
LEMMA LoopSteps ==
  ASSUME IInv, NEW p \in Workers,
         Launch(p) \/ SkipTask(p) \/ Look(p) \/ SeeCancelled(p) \/ Advance(p)
  PROVE  IInv'
<1> USE Numbers DEF IInv
<1>0. PICK n \in Steps \cup {Over}, s \in Stages, l \in BOOLEAN : GoTo(p, n, s, l) /\ Turn(p, n, s, l)
  BY Turns
<1>1. UNCHANGED <<caller, closure, done, worker, late>> /\ CB!IInv' /\ Cancelled'
  <2>1. UNCHANGED bridge /\ UNCHANGED late
    BY <1>0 DEF GoTo
  <2>2. QED
    BY <2>1, StillBridge DEF bridge, Cancelled, CtxGone
<1>2. /\ at'[p] = n /\ stage'[p] = s /\ looked'[p] = l
      /\ \A q \in Workers \ {p} : at'[q] = at[q] /\ stage'[q] = stage[q] /\ looked'[q] = looked[q]
      /\ TaskType'
  BY <1>0, <1>1 DEF GoTo, TaskType
<1>3. \A q \in Workers \ {p} : Current(q)' = Current(q)
  BY <1>2 DEF Current
<1>4. Order'
  <2> SUFFICES ASSUME NEW c \in Call
               PROVE  /\ \/ caller[c] \in COM!Returned \cup {"idle"}
                         \/ at'[c.of] \in Steps /\ c = Current(c.of)'
                      /\ at'[c.of] = NotBegun \/ (at'[c.of] \in Steps /\ c.step > at'[c.of])
                            => caller[c] = "idle"
                      /\ at'[c.of] \in Steps /\ c = Current(c.of)' /\ stage'[c.of] \in Checked
                           /\ ~looked'[c.of] => caller[c] = "idle"
    BY <1>1 DEF Order, COM!Returned, COM!Fates
  <2>1. CASE c.of # p
    BY <1>2, <1>3, <2>1, Fields DEF Order
  <2>2. CASE c.of = p
    <3>0. /\ Current(p)' = [of |-> p, step |-> n, folder |-> s \in FolderStages]
          /\ at'[c.of] = n /\ Current(c.of)' = Current(p)'
      BY <1>2, <2>2 DEF Current
    <3>1. CASE First(p, n, l)
      <4>1. caller[c] = "idle" /\ n \in Steps
        BY <2>2, <3>1 DEF First, Order
      <4> QED BY <4>1
    <3>2. CASE Instead(p, n, s, l)
      <4>1. Current(p)' = Current(p) /\ caller[Current(p)] = "idle" /\ at'[p] = at[p]
        BY <1>2, <3>0, <3>2 DEF Instead, Current
      <4> QED BY <1>2, <2>2, <3>2, <4>1 DEF Order, Instead
    <3>3. CASE Past(p, n, s, l)
      <4>1. Current(p)' = Current(p) /\ at'[p] = at[p] /\ at[p] \in Steps /\ looked'[p]
        BY <1>2, <3>0, <3>3 DEF Past, Current, AtCheck, InTask
      <4> QED BY <2>2, <4>1 DEF Order
    <3>4. CASE Onward(p, n, s, l)
      <4>1. /\ at[p] \in Nat /\ n = at[p] + 1 /\ n \in Steps /\ n \in Nat
            /\ caller[Current(p)] \in COM!Returned /\ at[p] \in Steps
        BY <3>4 DEF Onward
      <4>2. caller[c] \in COM!Returned \cup {"idle"}
        BY <2>2, <4>1 DEF Order
      <4>3. c.step >= n => caller[c] = "idle"
        BY <2>2, <4>1, Fields DEF Order
      <4>4. c = Current(p)' => c.step = n
        BY <3>0
      <4> QED BY <3>0, <4>1, <4>2, <4>3, <4>4, Fields
    <3>5. CASE Away(p, n, l)
      <4>1. caller[c] \in COM!Returned \cup {"idle"}
        BY <2>2, <3>5 DEF Order, Away
      <4> QED BY <3>0, <3>5, <4>1 DEF Away
    <3> QED
      BY <1>0, <3>1, <3>2, <3>3, <3>4, <3>5 DEF Turn
  <2>3. QED
    BY <2>1, <2>2
<1>5. \A c \in FolderCall : c.of # p /\ MayBegin(c)' => MayBegin(c)
  BY <1>1, <1>2, Fields DEF MayBegin, Ahead, FolderCall
<1>6. OneAhead' /\ LateOnce'
  <2>1. CASE Past(p, n, s, l)
    <3>1. ~CtxGone(p) /\ at[p] \in Steps /\ caller[Current(p)] = "idle"
      BY <2>1, Fields DEF Past, AtCheck, InTask, Order
    <3>2. ASSUME NEW c \in FolderCall, c.of = p, MayBegin(c)' PROVE Ahead(c)'
      <4>1. caller[c] = "idle" \/ caller[c] \in CB!Fates
        BY <3>1, <3>2 DEF Order, Cancelled, FolderCall, COM!Returned, COM!Fates, CB!Fates
      <4>2. closure[c] = "unsent" \/ closure[c] \in CB!Fates
        BY <4>1 DEF CB!IInv, CB!CallerShape, FolderCall
      <4> QED
        BY <1>1, <3>2, <4>1, <4>2 DEF MayBegin, CB!Fates
    <3>3. \A c, d \in FolderCall : c.of = p /\ d.of = p /\ MayBegin(c)' /\ MayBegin(d)' => c = d
      <4> SUFFICES ASSUME NEW c \in FolderCall, NEW d \in FolderCall, c.of = p, d.of = p,
                          Ahead(c)', Ahead(d)'
                   PROVE  c = d
        BY <3>2
      <4>1. c.step = d.step
        BY DEF Ahead, FolderStages
      <4> QED BY <4>1, Fields
    <3>4. late[p] = 0
      <4>1. [of |-> p, step |-> 1, folder |-> TRUE] \in FolderCall
        BY DEF FolderCall, Call
      <4> QED BY <3>1, <4>1 DEF LateOnce, TaskType
    <3>5. OneAhead'
      BY <1>5, <3>3 DEF OneAhead
    <3>6. LateOnce'
      BY <1>1, <1>5, <3>4 DEF LateOnce, CtxGone
    <3> QED
      BY <3>5, <3>6
  <2>2. CASE First(p, n, l) \/ Instead(p, n, s, l) \/ Onward(p, n, s, l) \/ Away(p, n, l)
    <3>1. ASSUME NEW c \in FolderCall, c.of = p, Ahead(c)' PROVE Ahead(c)
      <4>1. l
        BY <1>2, <3>1 DEF Ahead
      <4>2. Onward(p, n, s, l) /\ looked[p] /\ stage[p] = "target" /\ s = "pstFolder"
        BY <2>2, <4>1 DEF First, Instead, Onward, Away
      <4> QED
        BY <1>1, <1>2, <3>1, <4>2 DEF Ahead, Onward
    <3>2. \A c \in FolderCall : MayBegin(c)' => MayBegin(c)
      BY <1>1, <1>5, <3>1 DEF MayBegin
    <3> QED
      BY <1>1, <3>2 DEF OneAhead, LateOnce, CtxGone
  <2>3. QED
    BY <1>0, <2>1, <2>2 DEF Turn
<1>7. QED
  BY <1>1, <1>2, <1>4, <1>6

\* A task makes its call: it could before.
LEMMA SubmitSteps ==
  ASSUME IInv, NEW p \in Workers, Submit(p)
  PROVE  IInv'
<1> DEFINE c == Current(p)
<1> USE Numbers DEF IInv
<1>1. /\ c \in Call /\ c.of = p /\ c.step = at[p] /\ at[p] \in Steps
      /\ (c.folder => stage[p] \in FolderStages)
      /\ UNCHANGED <<at, stage, looked, late>> /\ (stage[p] \in Checked => looked[p])
  BY Fields DEF Submit, MaySubmit, InTask
<1>2. /\ caller[c] = "idle" /\ caller' = [caller EXCEPT ![c] = caller'[c]]
      /\ caller'[c] \in {"sending", "inline"}
      /\ closure' = [closure EXCEPT ![c] = closure'[c]]
      /\ closure'[c] \in {closure[c], "running"}
      /\ UNCHANGED <<worker, done>>
  BY <1>1 DEF Submit, COM!SubmitTask, COM!SubmitInline, CB!IInv, CB!TypeOK, CB!Calls
<1>3. CB!IInv'
  BY <1>1, SameCalls, Bridge, CB!CallerSteps DEF Submit, CB!Calls
<1> HIDE DEF c
<1>4. \A d \in Call : d # c => caller'[d] = caller[d] /\ closure'[d] = closure[d]
  BY <1>1, <1>2 DEF CB!IInv, CB!TypeOK, CB!Calls
<1>5. Order'
  <2> SUFFICES ASSUME NEW d \in Call
               PROVE  /\ \/ caller'[d] \in COM!Returned \cup {"idle"}
                         \/ at[d.of] \in Steps /\ d = Current(d.of)
                      /\ at[d.of] = NotBegun \/ (at[d.of] \in Steps /\ d.step > at[d.of])
                            => caller'[d] = "idle"
                      /\ at[d.of] \in Steps /\ d = Current(d.of) /\ stage[d.of] \in Checked
                           /\ ~looked[d.of] => caller'[d] = "idle"
    BY <1>1 DEF Order, Current, COM!Returned, COM!Fates
  <2>1. CASE d = c
    BY <1>1, <2>1, Fields DEF c
  <2>2. CASE d # c
    BY <1>4, <2>2 DEF Order
  <2>3. QED
    BY <2>1, <2>2
<1>6. \A d \in FolderCall : MayBegin(d)' => MayBegin(d)
  <2>1. ASSUME c \in FolderCall PROVE MayBegin(c)
    BY <1>1, <1>2, <2>1 DEF MayBegin, Ahead, FolderCall, Checked
  <2>2. QED
    BY <1>1, <1>4, <2>1 DEF MayBegin, Ahead, FolderCall
<1>7. OneAhead' /\ LateOnce'
  BY <1>1, <1>2, <1>6 DEF OneAhead, LateOnce, CtxGone
<1>8. Cancelled'
  BY <1>2, <1>4 DEF Cancelled, FolderCall, CtxGone
<1>9. QED
  BY <1>1, <1>3, <1>5, <1>7, <1>8 DEF TaskType

\* A call that is under way is the current one of its task.
LEMMA CallSteps ==
  ASSUME IInv, NEW c \in Call, CallStep(c)
  PROVE  IInv'
<1> USE Numbers DEF IInv
<1>1. UNCHANGED <<at, stage, looked, late>>
  BY DEF CallStep
<1>2. /\ caller[c] \in {"sending", "waiting", "inline"}
      /\ caller' = [caller EXCEPT ![c] = caller'[c]]
      /\ caller'[c] \notin {"idle", "sending"}
      /\ closure' = [closure EXCEPT ![c] = closure'[c]]
      /\ closure'[c] = "queued" => closure[c] = "queued" \/ caller[c] = "sending"
      /\ caller'[c] = "cancelled" => COM!CtxDone(c)
      /\ UNCHANGED <<worker, done>>
  BY Bridge DEF CallStep, COM!Proceed, COM!Enqueue, COM!Receive, COM!GiveUp, COM!StrayReturn, COM!Waiting,
         CB!IInv, CB!TypeOK, CB!Calls, CB!Fates
<1>3. CB!IInv'
  BY SameCalls, Bridge, CB!CallerSteps DEF CallStep, CB!Calls
<1>4. \A d \in Call : d # c => caller'[d] = caller[d] /\ closure'[d] = closure[d]
  BY <1>2 DEF CB!IInv, CB!TypeOK, CB!Calls
<1>5. Order'
  <2>1. caller[c] # "idle" /\ caller[c] \notin COM!Returned
    BY <1>2 DEF COM!Returned, COM!Fates
  <2>2. at[c.of] \in Steps /\ c = Current(c.of) /\ ~(stage[c.of] \in Checked /\ ~looked[c.of])
    BY <2>1 DEF Order
  <2>3. ~(at[c.of] = NotBegun \/ (at[c.of] \in Steps /\ c.step > at[c.of]))
    BY <2>1 DEF Order
  <2> QED
    BY <1>1, <1>4, <2>2, <2>3 DEF Order, Current, COM!Returned, COM!Fates
<1>6. \A d \in FolderCall : MayBegin(d)' => MayBegin(d)
  BY <1>1, <1>2, <1>4 DEF MayBegin, Ahead, FolderCall
<1>7. OneAhead' /\ LateOnce'
  BY <1>1, <1>2, <1>6 DEF OneAhead, LateOnce, CtxGone
<1>8. Cancelled'
  <2>1. c \in FolderCall /\ COM!CtxDone(c) => CtxGone(c.of)
    BY DEF FolderCall, COM!CtxDone, CallContext, CtxGone
  <2>2. QED
    BY <1>2, <1>4, <2>1 DEF Cancelled, FolderCall, CtxGone
<1>9. QED
  BY <1>1, <1>3, <1>5, <1>7, <1>8 DEF TaskType

\* The worker takes up, ends, panics in or refuses a closure; what it takes up late was
\* the only one of its task that could still begin.
LEMMA WorkerSteps ==
  ASSUME IInv, WorkerTakes \/ WorkerStep
  PROVE  IInv'
<1> USE Numbers DEF IInv
<1>1. UNCHANGED <<at, stage, looked, done>>
  BY DEF WorkerTakes, WorkerStep, COM!Take, COM!FinishRoot, COM!Panic, COM!BeginDrain, COM!Drain, COM!Exit
<1>2. /\ CB!IInv' /\ caller' = caller
      /\ \A c \in Call : closure'[c] = "queued" => closure[c] = "queued"
  BY WorkerFrame DEF WorkerTakes, WorkerStep
<1>3. Order'
  BY <1>1, <1>2 DEF Order, Current, COM!Returned, COM!Fates
<1>4. \A c \in FolderCall : MayBegin(c)' => MayBegin(c)
  BY <1>1, <1>2 DEF MayBegin, Ahead, FolderCall
<1>5. OneAhead'
  BY <1>4 DEF OneAhead
<1>6. Cancelled'
  BY <1>1, <1>2 DEF Cancelled, CtxGone, WorkerTakes, WorkerStep, COM!Take, COM!FinishRoot, COM!Panic,
                    COM!BeginDrain, COM!Drain, COM!Exit
<1>7. TaskType' /\ LateOnce'
  <2>1. CASE UNCHANGED late
    BY <1>1, <1>4, <2>1 DEF TaskType, LateOnce, CtxGone
  <2>2. CASE late' # late
    <3>1. COM!Take /\ queue # <<>>
      BY <2>2 DEF WorkerTakes, WorkerStep, COM!Take
    <3>2. PICK h \in Call : h = Head(queue) /\ h = queue[1] /\ 1 \in 1 .. Len(queue)
      BY <3>1 DEF CB!IInv, CB!TypeOK, CB!Calls
    <3>3. h.folder /\ CtxGone(h.of) /\ late' = [late EXCEPT ![h.of] = @ + 1]
      BY <2>2, <3>2 DEF WorkerTakes, WorkerStep
    <3>4. closure[h] = "queued" /\ caller[h] \notin {"idle", "sending"}
      BY <3>2 DEF CB!IInv, CB!QueueShape, CB!CallerShape
    <3>5. closure'[h] = "running"
      BY <3>1, <3>2 DEF COM!Take, CB!IInv, CB!TypeOK, CB!Calls
    <3>6. h \in FolderCall /\ MayBegin(h) /\ ~MayBegin(h)' /\ h.of \in Workers
      BY <1>1, <1>2, <3>3, <3>2, <3>4, <3>5, Fields DEF MayBegin, Ahead, FolderCall
    <3>7. late[h.of] = 0
      BY <3>6 DEF LateOnce, TaskType
    <3>8. TaskType'
      BY <1>1, <3>3, <3>6, <3>7 DEF TaskType
    <3>9. \A c \in FolderCall : c.of = h.of => ~MayBegin(c)'
      BY <1>4, <3>6 DEF OneAhead
    <3>10. \A c \in FolderCall : c.of # h.of => late'[c.of] = late[c.of]
      BY <3>3, Fields DEF FolderCall, TaskType
    <3>11. LateOnce'
      BY <1>1, <1>4, <3>3, <3>9, <3>10 DEF LateOnce, CtxGone
    <3>12. QED
      BY <3>8, <3>11
  <2>3. QED
    BY <2>1, <2>2
<1>8. QED
  BY <1>2, <1>3, <1>5, <1>6, <1>7

LEMMA CancelSteps ==
  ASSUME IInv, OnExit \/ CancelAll
  PROVE  IInv'
<1> USE DEF IInv
<1>1. /\ UNCHANGED <<at, stage, looked, late, worker, closure, caller>> /\ done \subseteq done'
      /\ "main" \in done' => "tray" \in done'
  BY DEF OnExit, CancelAll, COM!CancelTray, COM!CancelMain, Cancelled
<1>2. CB!IInv'
  BY WorkerFrame DEF OnExit, CancelAll
<1>3. Order' /\ OneAhead' /\ LateOnce' /\ Cancelled' /\ TaskType'
  BY <1>1 DEF Order, OneAhead, LateOnce, Cancelled, TaskType, MayBegin, Ahead, Current,
              CtxGone, COM!Returned, COM!Fates
<1>4. QED
  BY <1>2, <1>3

\* The inductive invariant of the composition, for any number of tasks and folders.
THEOREM Invariant == Spec => []IInv
<1>1. IInv /\ [Next]_vars => IInv'
  <2> SUFFICES ASSUME IInv, [Next]_vars PROVE IInv'
    OBVIOUS
  <2>1. CASE \E p \in Workers : \/ SkipTask(p) \/ Look(p) \/ SeeCancelled(p) \/ Submit(p) \/ Advance(p)
    BY <2>1, LoopSteps, SubmitSteps
  <2>2. CASE (\E p \in Clients : ClientTask(p)) \/ LoopTask
    BY <2>2, LoopSteps DEF ClientTask, LoopTask, Workers
  <2>3. CASE (\E p \in Workers : EndTask(p)) \/ LoopRefused \/ TimerStep \/ AskToQuit
    BY <2>3, ElsewhereSteps DEF EndTask, LoopRefused, TimerStep, AskToQuit
  <2>4. CASE \E c \in Call : CallStep(c)
    BY <2>4, CallSteps
  <2>5. CASE WorkerTakes \/ WorkerStep
    BY <2>5, WorkerSteps
  <2>6. CASE OnExit \/ CancelAll
    BY <2>6, CancelSteps
  <2>7. CASE StopScheduler \/ SeeIdle \/ TimeOut \/ UNCHANGED vars
    BY <2>7, ElsewhereSteps DEF StopScheduler, SeeIdle, TimeOut, vars
  <2>8. QED
    BY <2>1, <2>2, <2>3, <2>4, <2>5, <2>6, <2>7 DEF Next, MainNext
<1>2. QED
  BY <1>1, InitInv, PTL DEF Spec

\* Quitting cuts every task short, whatever the number of folders and of tasks: after its
\* context is cancelled the worker takes up at most one more folder of it.
THEOREM StopsSoon == Spec => []CancelStopsSoon
<1>1. IInv => CancelStopsSoon
  BY DEF IInv, TaskType, CancelStopsSoon
<1>2. QED
  BY <1>1, Invariant, PTL

-----------------------------------------------------------------------------
(* The composition uses the scheduler by the scheduler's own steps.        *)

LEMMA Scheduling == SP!ConstantsOK
BY ConstantsOK DEF SP!ConstantsOK

LEMMA SameTasks ==
  /\ \A p \in Clients : SCH!TriggerOnce(p) \/ SCH!TriggerReorganize(p) \/ SCH!TriggerRestore(p)
                         => SP!Next
  /\ \A p \in Workers : SCH!EndArchive(p) \/ SCH!EndExclusive(p) => SP!Next
  /\ SCH!LoopTick => SP!Next
<1> USE DEF SCH!Free, SP!Free, SCH!Begin, SP!Begin, SCH!Started, SP!Started, SCH!timer, SP!timer,
        SCH!task, SP!task, SCH!config, SP!config, SCH!control, SP!control, SCH!Release, SP!Release,
        SCH!history, SP!history
<1>1. ASSUME NEW p \in Clients,
             SCH!TriggerOnce(p) \/ SCH!TriggerReorganize(p) \/ SCH!TriggerRestore(p)
      PROVE  SP!Next
  <2>1. SP!TriggerOnce(p) \/ SP!TriggerReorganize(p) \/ SP!TriggerRestore(p)
    BY <1>1 DEF SCH!TriggerOnce, SP!TriggerOnce, SCH!TriggerReorganize, SP!TriggerReorganize,
                SCH!TriggerRestore, SP!TriggerRestore,
                SCH!TriggerExclusive, SP!TriggerExclusive, SCH!PauseTimer, SP!PauseTimer
  <2>2. QED
    BY <2>1 DEF SP!Next
<1>2. ASSUME NEW p \in Workers, SCH!EndArchive(p) \/ SCH!EndExclusive(p) PROVE SP!Next
  <2>1. SP!EndArchive(p) \/ SP!EndExclusive(p)
    BY <1>2 DEF SCH!EndArchive, SP!EndArchive, SCH!EndExclusive, SP!EndExclusive,
                SCH!ResetTimer, SP!ResetTimer, SCH!Exclusive, SP!Exclusive
  <2>2. QED
    BY <2>1 DEF SP!Next, SP!Workers, Workers
<1>3. ASSUME SCH!LoopTick PROVE SP!Next
  <2>1. SP!LoopTick
    BY <1>3 DEF SCH!LoopTick, SP!LoopTick, SCH!InSelect, SP!InSelect
  <2>2. QED
    BY <2>1 DEF SP!Next, SP!LoopStep
<1>4. QED
  BY <1>1, <1>2, <1>3

LEMMA SameTimer ==
  SCH!Start \/ SCH!Fire \/ SCH!LoopCancelled \/ SCH!LoopStopped \/ SCH!Cancel \/ SCH!Stop => SP!Next
<1> USE DEF SCH!Started, SP!Started, SCH!timer, SP!timer, SCH!task, SP!task, SCH!config, SP!config,
        SCH!control, SP!control, SCH!InSelect, SP!InSelect, SCH!StopTimer, SP!StopTimer,
        SCH!history, SP!history
<1>1. SCH!Start \/ SCH!Fire => SP!Start \/ SP!Fire
  BY DEF SCH!Start, SP!Start, SCH!Fire, SP!Fire
<1>2. SCH!LoopCancelled \/ SCH!LoopStopped => SP!LoopCancelled \/ SP!LoopStopped
  BY DEF SCH!LoopCancelled, SP!LoopCancelled, SCH!LoopStopped, SP!LoopStopped
<1>3. SCH!Cancel \/ SCH!Stop => SP!Cancel \/ SP!Stop
  BY DEF SCH!Cancel, SP!Cancel, SCH!Stop, SP!Stop
<1>4. QED
  BY <1>1, <1>2, <1>3 DEF SP!Next, SP!LoopStep

\* Every step of tasks, main and bridge leaves the scheduler alone or is one of its own:
\* the composition implements Scheduler without reloads.
THEOREM ImplementsScheduler == Spec => SP!Spec
<1>1. Init => SP!Init
  BY DEF Init, SCH!Init, SP!Init, SCH!Workers, SP!Workers
<1>2. [Next]_vars => [SP!Next]_(SP!vars)
  <2> SUFFICES ASSUME [Next]_vars PROVE SP!Next \/ UNCHANGED sched
    BY DEF SP!vars, SP!task, SP!timer, SP!config, SP!control, SP!history, sched
  <2>1. CASE (\E p \in Clients : ClientTask(p)) \/ LoopTask \/ LoopRefused
    BY <2>1, SameTasks DEF ClientTask, LoopTask, LoopRefused
  <2>2. CASE \E p \in Workers : EndTask(p)
    BY <2>2, SameTasks DEF EndTask
  <2>3. CASE TimerStep \/ CancelAll \/ StopScheduler
    BY <2>3, SameTimer DEF TimerStep, CancelAll, StopScheduler
  <2>4. CASE \E p \in Workers : \/ SkipTask(p) \/ Look(p) \/ SeeCancelled(p) \/ Submit(p) \/ Advance(p)
    BY <2>4 DEF SkipTask, Look, Pass, SeeCancelled, Submit, Advance
  <2>5. CASE (\E c \in Call : CallStep(c)) \/ WorkerTakes \/ WorkerStep
    BY <2>5 DEF CallStep, WorkerTakes, WorkerStep
  <2>6. CASE AskToQuit \/ OnExit \/ SeeIdle \/ TimeOut \/ UNCHANGED vars
    BY <2>6 DEF AskToQuit, OnExit, SeeIdle, TimeOut, vars
  <2>7. QED
    BY <2>1, <2>2, <2>3, <2>4, <2>5, <2>6 DEF Next, MainNext
<1>3. QED
  BY <1>1, <1>2, PTL DEF Spec, SP!Spec

\* An archive makes no other calls than its walk and its folders.
ArchiveStages ==
    \A p \in Workers : at[p] \in Steps /\ job[p] = "archiving" => stage[p] \in {"walk", "folder"}

LEMMA ArchivePlanned ==
  /\ Entry("archiving") \subseteq {"walk", "folder"}
  /\ \A s, ok, t : <<s, ok, t>> \in Plan("archiving") => t \in {"folder", "end"}
BY DEF Entry, Plan, ArchivePlan

\* Where a task is changes in its own loop, its job only when it begins or ends.
LEMMA ArchiveSteps ==
  ASSUME TaskType, SP!TypeOK, ArchiveStages, [Next]_vars
  PROVE  ArchiveStages'
<1> USE Numbers DEF ArchiveStages
<1>1. at \in [Workers -> Steps \cup {NotBegun, Over}] /\ stage \in [Workers -> Stages]
      /\ DOMAIN job = Workers
  BY DEF TaskType, SP!TypeOK, SP!Workers, Workers
<1>2. ASSUME NEW p \in Workers, NEW k, Launch(p), job' = [job EXCEPT ![p] = k] PROVE ArchiveStages'
  <2>1. PICK s \in Entry(job'[p]) : GoTo(p, 1, s, FALSE)
    BY <1>2 DEF Launch
  <2> QED BY <1>1, <1>2, <2>1, ArchivePlanned DEF GoTo
<1>3. ASSUME NEW p \in Workers, SkipTask(p) \/ Look(p) \/ SeeCancelled(p) \/ Advance(p)
      PROVE  ArchiveStages'
  <2>1. UNCHANGED job
    BY <1>3 DEF SkipTask, Look, Pass, SeeCancelled, Advance, sched
  <2>2. CASE Return(p)
    BY <1>1, <2>1, <2>2 DEF Return, GoTo
  <2>3. CASE job[p] # "archiving"
    <3>1. \A q \in Workers \ {p} : at'[q] = at[q] /\ stage'[q] = stage[q]
      BY <1>1, <1>3 DEF SkipTask, Look, Pass, SeeCancelled, Advance, Return, GoTo
    <3> QED BY <2>1, <2>3, <3>1
  <2>4. CASE job[p] = "archiving" /\ ~Return(p)
    <3>1. ~SkipTask(p)
      BY <2>4 DEF SkipTask
    <3>2. ASSUME Look(p) PROVE ArchiveStages'
      BY <1>1, <2>1, <3>2 DEF Look, Pass, GoTo
    <3>3. ~SeeCancelled(p)
      BY <2>4 DEF SeeCancelled, AtCheck, InTask
    <3>4. ASSUME Advance(p) PROVE ArchiveStages'
      <4>1. PICK s : /\ <<stage[p], caller[Current(p)] = "ok", s>> \in Plan("archiving")
                     /\ s # "end"
                     /\ \E l : GoTo(p, at[p] + 1, s, l)
        BY <2>4, <3>4 DEF Advance
      <4>2. s = "folder"
        BY <4>1, ArchivePlanned
      <4> QED BY <1>1, <2>1, <4>1, <4>2 DEF GoTo
    <3> QED BY <1>3, <3>1, <3>2, <3>3, <3>4
  <2> QED BY <2>2, <2>3, <2>4
<1>4. CASE \E p \in Clients : ClientTask(p)
  <2>1. PICK p \in Clients : ClientTask(p)
    BY <1>4
  <2>2. \E k : job' = [job EXCEPT ![p] = k]
    BY <2>1 DEF ClientTask, SCH!TriggerOnce, SCH!TriggerReorganize, SCH!TriggerRestore,
                SCH!TriggerExclusive, SCH!Begin
  <2> QED BY <1>2, <2>1, <2>2 DEF ClientTask, Workers
<1>5. CASE LoopTask
  <2>1. \E k : job' = [job EXCEPT ![TimerLoop] = k]
    BY <1>5 DEF LoopTask, SCH!LoopTick, SCH!InSelect, SCH!Begin, SCH!task
  <2> QED BY <1>2, <1>5, <2>1 DEF LoopTask, Workers
<1>6. CASE LoopRefused
  <2>1. UNCHANGED <<job, at, stage>>
    BY <1>1, <1>6 DEF LoopRefused, SCH!LoopTick, SCH!InSelect, SCH!Begin, SCH!task, Workers
  <2> QED BY <2>1
<1>7. CASE \E p \in Workers : EndTask(p)
  <2>1. PICK p \in Workers : EndTask(p)
    BY <1>7
  <2>2. job' = [job EXCEPT ![p] = "none"] /\ UNCHANGED <<at, stage>>
    BY <2>1 DEF EndTask, SCH!EndArchive, SCH!EndExclusive, SCH!Release
  <2> QED BY <1>1, <2>2
<1>8. CASE \/ (\E p \in Workers : Submit(p)) \/ (\E c \in Call : CallStep(c))
           \/ WorkerTakes \/ WorkerStep \/ TimerStep \/ AskToQuit \/ MainNext \/ UNCHANGED vars
  <2>1. UNCHANGED <<at, stage, job>>
    BY <1>8 DEF Submit, CallStep, WorkerTakes, WorkerStep, TimerStep, AskToQuit, MainNext, OnExit,
                CancelAll, StopScheduler, SeeIdle, TimeOut, vars, sched, SCH!Start, SCH!Fire,
                SCH!LoopCancelled, SCH!LoopStopped, SCH!Cancel, SCH!Stop, SCH!task
  <2> QED BY <2>1
<1> QED
  BY <1>3, <1>4, <1>5, <1>6, <1>7, <1>8 DEF Next

\* A bridge that has gone can keep a task waiting only in a call it made in the background,
\* an archive only in its walk: main's context was cancelled before the worker left, and the
\* tray's before it, so that the closure of a folder is always given up.
THEOREM BackgroundHangs == Spec => []OnlyBackgroundHangs
<1>1. Init => ArchiveStages
  BY Numbers DEF Init, ArchiveStages
<1>2. IInv => TaskType
  BY DEF IInv
<1>3. Spec => []SP!TypeOK
  BY ImplementsScheduler, Scheduling, SP!TypeCorrect, PTL
<1>4. IInv /\ ArchiveStages => OnlyBackgroundHangs
  <2> SUFFICES ASSUME IInv, ArchiveStages, NEW p \in Workers, Stuck(p)
               PROVE  /\ job[p] = "archiving" => stage[p] = "walk"
                      /\ stage[p] \notin FolderStages
    BY DEF OnlyBackgroundHangs
  <2>1. "main" \in done /\ "tray" \in done
    BY DEF Stuck, IInv, Cancelled
  <2>2. Current(p) \in Call /\ at[p] \in Steps /\ (Current(p).folder = (stage[p] \in FolderStages))
    BY Fields DEF Stuck, InTask
  <2>3. ~Current(p).folder
    BY <2>1, <2>2 DEF Stuck, COM!CtxDone, CallContext
  <2> QED
    BY <2>2, <2>3 DEF ArchiveStages, FolderStages
<1> QED
  BY <1>1, <1>2, <1>3, <1>4, ArchiveSteps, Invariant, PTL DEF Spec

\* Every variable keeps its type, the bridge's by its own invariant and the scheduler's by
\* refinement; the calls of a task never overflow the channel.
THEOREM TypeCorrect == Spec => []TypeOK
<1> DEFINE MainType == main \in MainStates
<1>1. Init => MainType
  BY DEF Init, MainStates
<1>2. MainType /\ [Next]_vars => MainType'
  BY DEF MainStates, Next, ClientTask, Launch, LoopTask, LoopRefused, SkipTask, Look, Pass,
         SeeCancelled, Submit, Advance, Return, GoTo, EndTask, CallStep, WorkerTakes, WorkerStep, TimerStep, AskToQuit,
         MainNext, OnExit, CancelAll, StopScheduler, SeeIdle, TimeOut, MainStep, vars
<1>3. Spec => []SP!TypeOK
  BY ImplementsScheduler, Scheduling, SP!TypeCorrect, PTL
<1>4. IInv /\ SP!TypeOK /\ MainType => TypeOK
  <2> SUFFICES ASSUME IInv, SP!TypeOK, MainType PROVE TypeOK
    OBVIOUS
  <2>1. COM!TypeOK
    BY DEF IInv, CB!IInv, CB!TypeOK, COM!TypeOK, CB!Calls, COM!Calls, CB!Waiting, COM!Waiting,
           CB!Returned, COM!Returned, CB!Fates, COM!Fates
  <2>2. SCH!TypeOK
    BY DEF SP!TypeOK, SCH!TypeOK, SP!Workers, SCH!Workers, SP!Versions, SCH!Versions, SP!Kinds,
           SCH!Kinds, SP!Exclusive, SCH!Exclusive
  <2>3. late \in [Workers -> 0 .. MaxCalls]
    BY ConstantsOK DEF IInv, TaskType
  <2>4. QED
    BY <2>1, <2>2, <2>3 DEF TypeOK, IInv, TaskType
<1> HIDE DEF MainType
<1>5. Spec => []MainType
  BY <1>1, <1>2, PTL DEF Spec
<1>6. QED
  BY <1>3, <1>4, <1>5, Invariant, PTL

\* However the program quits, no two tasks run together: the scheduler's promise, carried
\* over to the composition.
THEOREM OneTask == Spec => []SP!TaskMutex
BY ImplementsScheduler, Scheduling, SP!Mutex, PTL
=============================================================================
