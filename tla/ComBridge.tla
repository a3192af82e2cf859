----------------------------- MODULE ComBridge -----------------------------
(***************************************************************************)
(* internal/outlook/bridge.go: every COM operation is a closure that one   *)
(* OS-locked worker goroutine executes.  Callers put a task into a bounded *)
(* channel and wait on the task's own one-slot result channel; a closure   *)
(* that submits again is recognised by its thread id and runs in place.    *)
(* A call is one execution of SubmitWithContext; each is made once.        *)
(***************************************************************************)
EXTENDS Naturals, Sequences, SequencesExt

CONSTANTS Root,     \* calls made by goroutines other than the worker
          Nested,   \* calls made from inside an executing closure
          Context,  \* [Root -> Contexts]: the context each root call passes
          Cap       \* capacity of taskCh

Contexts == {"background", "tray", "main"}

ASSUME ConstantsOK ==
    /\ Root \cap Nested = {}
    /\ Context \in [Root -> Contexts]
    /\ Cap \in Nat \ {0}

Calls == Root \cup Nested

VARIABLES caller,   \* where each call is in SubmitWithContext, or what it returned
          closure,  \* what became of each call's closure
          errCh,    \* each task's result channel, capacity one
          queue,    \* taskCh
          stack,    \* closures on the worker's goroutine, innermost last
          worker,   \* the life of the worker goroutine
          done      \* the contexts that have been cancelled

vars == <<caller, closure, errCh, queue, stack, worker, done>>

Fates    == {"ok", "panicked", "refused"}
Returned == Fates \cup {"cancelled"}
Waiting  == {"sending", "waiting"}

TypeOK ==
    /\ caller  \in [Calls -> {"idle", "inline"} \cup Waiting \cup Returned]
    /\ closure \in [Calls -> {"unsent", "queued", "running"} \cup Fates]
    /\ errCh   \in [Calls -> {"empty"} \cup Fates]
    /\ queue   \in Seq(Calls) /\ Len(queue) <= Cap
    /\ stack   \in Seq(Calls)
    /\ worker  \in {"serving", "draining", "exited"}
    /\ done    \in SUBSET {"tray", "main"}

Init ==
    /\ caller  = [c \in Calls |-> "idle"]
    /\ closure = [c \in Calls |-> "unsent"]
    /\ errCh   = [c \in Calls |-> "empty"]
    /\ queue   = <<>>
    /\ stack   = <<>>
    /\ worker  = "serving"
    /\ done    = {}

-----------------------------------------------------------------------------
(* The callers: SubmitWithContext.                                         *)

\* A closure goes on as long as no call it made keeps it waiting.
Runnable == stack # <<>> /\ \A d \in Nested : caller[d] \notin Waiting

\* A goroutine may call at any time, a closure while it runs.
MayCall(c) == c \in Root \/ Runnable

\* Does GetCurrentThreadId() give the id Run stored?  For a closure of the worker
\* it does.  Run never clears the id, and once it has unlocked its OS thread the Go
\* scheduler may put any goroutine there.
MayBeComThread(c) == c \in Nested \/ worker = "exited"

\* Mutant: no comparison of thread ids before the task is sent.
NoThreadCheck(c) == TRUE

MayBeOtherThread(c) == c \in Root

\* Mutant: the channel takes one task too many.
RoomForOneMore == Len(queue) <= Cap

RoomInQueue == Len(queue) < Cap

\* Mutant: Submit passes on a context that can be cancelled.
CtxAlwaysCancellable(c) == c \in Root /\ done # {}

CtxDone(c) == c \in Root /\ Context[c] \in done

\* The thread ids agree: fn runs in place.
SubmitInline(c) ==
    /\ caller[c] = "idle"
    /\ MayCall(c)
    /\ MayBeComThread(c)
    /\ caller'  = [caller EXCEPT ![c] = "inline"]
    /\ closure' = [closure EXCEPT ![c] = "running"]
    /\ stack'   = IF c \in Nested THEN Append(stack, c) ELSE stack
    /\ UNCHANGED <<errCh, queue, worker, done>>

\* Any other caller makes the task and goes to the first select.
SubmitTask(c) ==
    /\ caller[c] = "idle"
    /\ MayCall(c)
    /\ MayBeOtherThread(c)
    /\ caller' = [caller EXCEPT ![c] = "sending"]
    /\ UNCHANGED <<closure, errCh, queue, stack, worker, done>>

Enqueue(c) ==
    /\ caller[c] = "sending"
    /\ RoomInQueue
    /\ queue'   = Append(queue, c)
    /\ caller'  = [caller EXCEPT ![c] = "waiting"]
    /\ closure' = [closure EXCEPT ![c] = "queued"]
    /\ UNCHANGED <<errCh, stack, worker, done>>

Receive(c) ==
    /\ caller[c] = "waiting"
    /\ errCh[c] # "empty"
    /\ caller' = [caller EXCEPT ![c] = errCh[c]]
    /\ errCh'  = [errCh EXCEPT ![c] = "empty"]
    /\ UNCHANGED <<closure, queue, stack, worker, done>>

\* Either select may take its ctx.Done() branch; the task stays where it is.
GiveUp(c) ==
    /\ caller[c] \in Waiting
    /\ CtxDone(c)
    /\ caller' = [caller EXCEPT ![c] = "cancelled"]
    /\ UNCHANGED <<closure, errCh, queue, stack, worker, done>>

\* fn ends on a goroutine that only took over the worker's OS thread.
StrayReturn(c) ==
    /\ caller[c] = "inline"
    /\ c \in Root
    /\ caller'  = [caller EXCEPT ![c] = "ok"]
    /\ closure' = [closure EXCEPT ![c] = "ok"]
    /\ UNCHANGED <<errCh, queue, stack, worker, done>>

-----------------------------------------------------------------------------
(* The worker goroutine: Run.                                              *)

\* A send to errCh completes at once iff the slot is free.
\* Mutant: an unbuffered errCh, whose send needs a caller that still waits.
NeedsReceiver(c) == errCh[c] = "empty" /\ caller[c] = "waiting"

CanAnswer(c) == errCh[c] = "empty"

Take ==
    /\ worker = "serving"
    /\ stack = <<>>
    /\ queue # <<>>
    /\ stack'   = <<Head(queue)>>
    /\ queue'   = Tail(queue)
    /\ closure' = [closure EXCEPT ![Head(queue)] = "running"]
    /\ UNCHANGED <<caller, errCh, worker, done>>

\* A nested closure ends: its Submit returns fn's result to the closure below.
ReturnNested ==
    /\ Runnable
    /\ Len(stack) > 1
    /\ LET d == Last(stack) IN
         /\ caller'  = [caller EXCEPT ![d] = "ok"]
         /\ closure' = [closure EXCEPT ![d] = "ok"]
    /\ stack' = Front(stack)
    /\ UNCHANGED <<errCh, queue, worker, done>>

\* The root closure ends: task.errCh <- err.
FinishRoot ==
    /\ Runnable
    /\ Len(stack) = 1
    /\ LET c == Head(stack) IN
         /\ CanAnswer(c)
         /\ errCh'   = [errCh EXCEPT ![c] = "ok"]
         /\ closure' = [closure EXCEPT ![c] = "ok"]
    /\ stack' = <<>>
    /\ UNCHANGED <<caller, queue, worker, done>>

\* A panic unwinds the stack to the worker's recover, which answers the task.
Panic ==
    /\ Runnable
    /\ CanAnswer(Head(stack))
    /\ errCh'   = [errCh EXCEPT ![Head(stack)] = "panicked"]
    /\ closure' = [c \in Calls |-> IF c \in Range(stack) THEN "panicked" ELSE closure[c]]
    /\ caller'  = [c \in Calls |->
                     IF c \in Range(Tail(stack)) THEN "panicked" ELSE caller[c]]
    /\ stack' = <<>>
    /\ UNCHANGED <<queue, worker, done>>

\* The loop's select may take ctx.Done() although tasks are queued.
BeginDrain ==
    /\ worker = "serving"
    /\ stack = <<>>
    /\ "main" \in done
    /\ worker' = "draining"
    /\ UNCHANGED <<caller, closure, errCh, queue, stack, done>>

Drain ==
    /\ worker = "draining"
    /\ queue # <<>>
    /\ LET c == Head(queue) IN
         /\ CanAnswer(c)
         /\ errCh'   = [errCh EXCEPT ![c] = "refused"]
         /\ closure' = [closure EXCEPT ![c] = "refused"]
    /\ queue' = Tail(queue)
    /\ UNCHANGED <<caller, stack, worker, done>>

\* Mutant: Run returns on ctx.Done() without draining the channel.
ExitUndrained ==
    /\ worker = "draining"
    /\ worker' = "exited"
    /\ UNCHANGED <<caller, closure, errCh, queue, stack, done>>

\* The drain's default branch: the deferred function and then Run return.
Exit ==
    /\ worker = "draining"
    /\ queue = <<>>
    /\ worker' = "exited"
    /\ UNCHANGED <<caller, closure, errCh, queue, stack, done>>

-----------------------------------------------------------------------------
(* The contexts: onExit cancels trayCtx, then main cancels its own.        *)

CancelTray == /\ done' = done \cup {"tray"}
              /\ done = {}
              /\ UNCHANGED <<caller, closure, errCh, queue, stack, worker>>

CancelMain == /\ "tray" \in done
              /\ "main" \notin done
              /\ done' = done \cup {"main"}
              /\ UNCHANGED <<caller, closure, errCh, queue, stack, worker>>

Serve == Take \/ ReturnNested \/ FinishRoot \/ BeginDrain \/ Drain \/ Exit

\* What a call that has been made can do next.
Proceed(c) == Enqueue(c) \/ Receive(c) \/ GiveUp(c) \/ StrayReturn(c)

Next == \/ \E c \in Calls : SubmitInline(c) \/ SubmitTask(c) \/ Proceed(c)
        \/ Serve
        \/ Panic
        \/ CancelTray
        \/ CancelMain

\* The Go scheduler lets the worker and every caller take the steps open to them (a
\* select takes one of its ready branches), and closures end: a COM call that never
\* returns is outside the model.  Contexts need not be cancelled, nor closures panic.
Fairness == /\ WF_vars(Serve)
            /\ \A c \in Calls : WF_vars(Proceed(c))

Spec     == Init /\ [][Next]_vars
FairSpec == Spec /\ Fairness

-----------------------------------------------------------------------------
(* Properties.                                                             *)

\* The archiver passes closures that write locals of the calling function and use
\* COM objects the caller releases afterwards: when a call with a background
\* context has returned, its closure is over, or was refused and never ran.
ReturnedMeansQuiet ==
    \A c \in Root : Context[c] = "background" /\ caller[c] \in Returned
                       => closure[c] = caller[c]

\* A task that got into the channel before the worker was gone is answered or
\* abandoned: neither a panic, nor a caller that left, nor the drain loses one.
TakenInIsAnswered ==
    \A c \in Root : (closure[c] = "queued" /\ worker # "exited") ~> (caller[c] \in Returned)

\* A closure that submits again is served in place, whatever is in the channel:
\* the worker never waits for itself.
NestedCallReturns ==
    \A d \in Nested : (caller[d] # "idle") ~> (caller[d] \in Returned)

\* After its context is cancelled the worker does exit, however full the channel
\* is and whoever gave up waiting.
WorkerExits == "main" \in done ~> worker = "exited"

\* What the bridge promises: TaskService, with the queue, the threads and the
\* channels hidden.
phaseOf == [c \in Calls |-> IF caller[c] = "idle" THEN "idle"
                            ELSE CASE closure[c] \in {"unsent", "queued"} -> "pending"
                                   [] closure[c] = "running" -> "executing"
                                   [] OTHER -> closure[c]]
replyOf == [c \in Calls |-> IF /\ caller[c] \in Returned
                               /\ c \in Root \/ caller[c] = "ok"
                            THEN caller[c] ELSE "none"]

Service == INSTANCE TaskService WITH
             Cancellable <- {c \in Root : Context[c] # "background"},
             phase <- phaseOf, reply <- replyOf, open <- worker # "exited"

\* Every behaviour of the bridge is one of TaskService (refinement).
ImplementsTaskService == Service!Spec
=============================================================================
