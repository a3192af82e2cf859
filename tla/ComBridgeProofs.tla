-------------------------- MODULE ComBridgeProofs --------------------------
(***************************************************************************)
(* Proofs about ComBridge, for any set of calls, any contexts and any      *)
(* capacity of the channel.                                                *)
(***************************************************************************)
EXTENDS ComBridge, TLAPS

\* The stack holds the root closure and, above it, the nested ones it made.
StackShape ==
    /\ stack # <<>> => /\ stack[1] \in Root
                       /\ caller[stack[1]] \in {"waiting", "cancelled"}
    /\ \A i \in 2 .. Len(stack) : stack[i] \in Nested /\ caller[stack[i]] = "inline"
    /\ \A i \in 1 .. Len(stack) : closure[stack[i]] = "running"
    /\ \A i, j \in 1 .. Len(stack) : stack[i] = stack[j] => i = j

\* Each task in the channel is there once, and its closure has not started.
QueueShape ==
    /\ \A i \in 1 .. Len(queue) : queue[i] \in Root /\ closure[queue[i]] = "queued"
    /\ \A i, j \in 1 .. Len(queue) : queue[i] = queue[j] => i = j

\* What a caller and its result channel know agrees with the closure's fate.
CallerShape ==
    \A c \in Root :
      /\ caller[c] \in {"idle", "sending"} => closure[c] = "unsent"
      /\ caller[c] = "inline" => closure[c] = "running"
      /\ errCh[c] # "empty" => closure[c] = errCh[c]
      /\ caller[c] \in Fates => closure[c] = caller[c]
      /\ caller[c] = "cancelled" => Context[c] # "background"

\* A nested call never waits outside the worker.
NestedShape == \A d \in Nested : caller[d] \notin Waiting \cup {"cancelled"}

IInv == TypeOK /\ StackShape /\ QueueShape /\ CallerShape /\ NestedShape
-----------------------------------------------------------------------------
LEMMA InitInv == Init => IInv
BY ConstantsOK DEF Init, IInv, TypeOK, StackShape, QueueShape, CallerShape, NestedShape,
                   Calls, Waiting, Returned, Fates

\* The shapes constrain a call only through its own fields, so a step of the caller
\* of c is checked at c; that c is neither queued nor running before it submits
\* comes from CallerShape.
LEMMA CallerSteps ==
  ASSUME IInv, NEW c \in Calls,
         SubmitInline(c) \/ SubmitTask(c) \/ Proceed(c)
  PROVE  IInv'
<1> USE ConstantsOK DEF IInv, TypeOK, Calls, Waiting, Returned, Fates
<1>1. CASE SubmitInline(c)
  <2> USE <1>1 DEF SubmitInline, MayCall, MayBeComThread, Runnable
  <2>1. TypeOK'
    OBVIOUS
  <2>2. StackShape'
    <3>1. CASE c \in Root
      BY <3>1 DEF StackShape, CallerShape
    <3>2. CASE c \in Nested
      <4>1. stack # <<>> /\ stack' = Append(stack, c) /\ Len(stack') = Len(stack) + 1
        BY <3>2
      <4>2. \A i \in 1 .. Len(stack) : stack[i] # c
        BY <3>2 DEF StackShape
      <4>3. QED
        BY <3>2, <4>1, <4>2 DEF StackShape
    <3>3. QED
      BY <3>1, <3>2
  <2>3. QueueShape'
    BY DEF QueueShape, CallerShape
  <2>4. CallerShape' /\ NestedShape'
    BY DEF CallerShape, NestedShape
  <2>5. QED
    BY <2>1, <2>2, <2>3, <2>4
<1>2. CASE SubmitTask(c)
  BY <1>2 DEF SubmitTask, MayBeOtherThread, StackShape, QueueShape, CallerShape, NestedShape
<1>3. CASE Enqueue(c)
  <2> USE <1>3 DEF Enqueue, RoomInQueue
  <2>1. c \in Root /\ closure[c] = "unsent"
    BY DEF NestedShape, CallerShape
  <2>2. queue' \in Seq(Calls) /\ Len(queue') = Len(queue) + 1
    OBVIOUS
  <2>3. TypeOK'
    BY <2>2
  <2>4. QueueShape'
    BY <2>1, <2>2 DEF QueueShape
  <2>5. StackShape'
    <3>1. \A i \in 1 .. Len(stack) : stack[i] # c
      BY <2>1 DEF StackShape
    <3>2. QED
      BY <3>1 DEF StackShape
  <2>6. CallerShape' /\ NestedShape'
    BY <2>1 DEF CallerShape, NestedShape
  <2>7. QED
    BY <2>3, <2>4, <2>5, <2>6
<1>4. CASE Receive(c)
  <2> USE <1>4 DEF Receive
  <2>1. c \in Root /\ closure[c] = errCh[c] /\ errCh[c] \in Fates
    BY DEF NestedShape, CallerShape
  <2>2. QED
    BY <2>1 DEF StackShape, QueueShape, CallerShape, NestedShape
<1>5. CASE GiveUp(c)
  <2> USE <1>5 DEF GiveUp, CtxDone
  <2>1. c \in Root /\ Context[c] # "background"
    OBVIOUS
  <2>2. QED
    BY <2>1 DEF StackShape, QueueShape, CallerShape, NestedShape
<1>6. CASE StrayReturn(c)
  <2> USE <1>6 DEF StrayReturn
  <2>1. closure[c] = "running" /\ \A i \in 1 .. Len(stack) : stack[i] # c
    BY DEF CallerShape, StackShape
  <2>2. QED
    BY <2>1 DEF StackShape, QueueShape, CallerShape, NestedShape
<1>7. QED
  BY <1>1, <1>2, <1>3, <1>4, <1>5, <1>6 DEF Proceed

\* Taking a task out of the channel, by the loop or by the drain.
LEMMA QueueSteps ==
  ASSUME IInv, Take \/ Drain PROVE IInv'
<1> USE ConstantsOK DEF IInv, TypeOK, Calls, Waiting, Returned, Fates
<1> DEFINE h == Head(queue)
<1>1. queue # <<>> /\ queue' = Tail(queue)
  BY DEF Take, Drain
<1>2. /\ h = queue[1]
      /\ h \in Root
      /\ closure[h] = "queued"
      /\ Len(queue') = Len(queue) - 1
      /\ queue' \in Seq(Calls)
      /\ \A i \in 1 .. Len(queue') : queue'[i] = queue[i + 1] /\ queue'[i] # h
  BY <1>1 DEF QueueShape
<1>3. caller[h] \in {"waiting", "cancelled"} /\ errCh[h] = "empty"
  BY <1>2 DEF CallerShape
<1>4. CASE Take
  <2> USE <1>4 DEF Take
  <2>1. TypeOK'
    BY <1>2
  <2>2. StackShape'
    BY <1>2, <1>3 DEF StackShape
  <2>3. QueueShape'
    BY <1>2 DEF QueueShape
  <2>4. CallerShape' /\ NestedShape'
    BY <1>2, <1>3 DEF CallerShape, NestedShape
  <2>5. QED
    BY <2>1, <2>2, <2>3, <2>4
<1>5. CASE Drain
  <2> USE <1>5 DEF Drain
  <2>1. TypeOK'
    BY <1>2
  <2>2. StackShape'
    BY <1>2 DEF StackShape
  <2>3. QueueShape'
    BY <1>2 DEF QueueShape
  <2>4. CallerShape' /\ NestedShape'
    BY <1>2, <1>3 DEF CallerShape, NestedShape
  <2>5. QED
    BY <2>1, <2>2, <2>3, <2>4
<1>6. QED
  BY <1>4, <1>5

\* The end of a closure: a nested one, the root one, or all of them at a panic.
LEMMA StackSteps ==
  ASSUME IInv, ReturnNested \/ FinishRoot \/ Panic PROVE IInv'
<1> USE ConstantsOK DEF IInv, TypeOK, Calls, Waiting, Returned, Fates
<1>1. CASE ReturnNested
  <2> USE <1>1 DEF ReturnNested
  <2> DEFINE d == stack[Len(stack)]
  <2>1. /\ Last(stack) = d
        /\ d \in Nested
        /\ caller[d] = "inline"
    BY DEF Last, StackShape
  <2>2. /\ Front(stack) \in Seq(Calls)
        /\ Len(Front(stack)) = Len(stack) - 1
        /\ \A i \in 1 .. Len(stack) - 1 : Front(stack)[i] = stack[i] /\ stack[i] # d
    BY DEF Front, StackShape
  <2>3. TypeOK'
    BY <2>1, <2>2
  <2>4. StackShape'
    <3>1. /\ Len(stack') = Len(stack) - 1
          /\ 1 \in 1 .. Len(stack) - 1
          /\ stack'[1] = stack[1]
          /\ stack[1] # d
      BY <2>2
    <3>2. \A i \in 1 .. Len(stack') : /\ stack'[i] = stack[i]
                                     /\ stack[i] # d
                                     /\ i \in 1 .. Len(stack)
      BY <2>2
    <3>3. \A c \in Calls : c # d => caller'[c] = caller[c] /\ closure'[c] = closure[c]
      BY <2>1
    <3>4. \A i \in 1 .. Len(stack') : stack[i] \in Calls
      BY <3>2
    <3>5. /\ stack'[1] \in Root
          /\ caller'[stack'[1]] \in {"waiting", "cancelled"}
      BY <3>1, <3>3 DEF StackShape
    <3>6. \A i \in 2 .. Len(stack') : stack'[i] \in Nested /\ caller'[stack'[i]] = "inline"
      BY <3>1, <3>2, <3>3, <3>4 DEF StackShape
    <3>7. \A i \in 1 .. Len(stack') : closure'[stack'[i]] = "running"
      BY <3>1, <3>2, <3>3, <3>4 DEF StackShape
    <3>8. \A i, j \in 1 .. Len(stack') : stack'[i] = stack'[j] => i = j
      BY <3>2 DEF StackShape
    <3>9. QED
      BY <3>5, <3>6, <3>7, <3>8 DEF StackShape
  <2>5. QueueShape' /\ CallerShape' /\ NestedShape'
    BY <2>1 DEF QueueShape, CallerShape, NestedShape
  <2>6. QED
    BY <2>3, <2>4, <2>5
<1>2. CASE FinishRoot
  <2> USE <1>2 DEF FinishRoot
  <2>1. /\ Head(stack) = stack[1]
        /\ Head(stack) \in Root
        /\ caller[Head(stack)] \in {"waiting", "cancelled"}
        /\ closure[Head(stack)] = "running"
    BY DEF StackShape
  <2>2. TypeOK' /\ StackShape'
    BY <2>1 DEF StackShape
  <2>3. QueueShape' /\ CallerShape' /\ NestedShape'
    BY <2>1 DEF QueueShape, CallerShape, NestedShape
  <2>4. QED
    BY <2>2, <2>3
<1>3. CASE Panic
  <2> USE <1>3 DEF Panic, Runnable
  <2>1. /\ Head(stack) = stack[1]
        /\ Head(stack) \in Root
        /\ Head(stack) \in Range(stack)
        /\ caller[Head(stack)] \in {"waiting", "cancelled"}
    BY DEF StackShape, Range
  <2>2. \A c \in Range(stack) : closure[c] = "running"
    BY DEF StackShape, Range
  <2>3. Range(Tail(stack)) \subseteq Nested
    BY DEF StackShape, Range
  <2>4. TypeOK' /\ StackShape'
    BY <2>1 DEF StackShape
  <2>5. QueueShape' /\ NestedShape'
    BY <2>2 DEF QueueShape, NestedShape
  <2>6. CallerShape'
    <3>1. ASSUME NEW c \in Root PROVE caller'[c] = caller[c]
      BY <2>3
    <3>2. ASSUME NEW c \in Root, c \in Range(stack)
          PROVE  c = Head(stack)
      BY <3>2, <2>1 DEF StackShape, Range
    <3>3. QED
      BY <2>1, <2>2, <3>1, <3>2 DEF CallerShape
  <2>7. QED
    BY <2>4, <2>5, <2>6
<1>4. QED
  BY <1>1, <1>2, <1>3

\* The worker's start of draining, its end, and the cancellations leave the shapes.
LEMMA PhaseSteps ==
  ASSUME IInv, BeginDrain \/ Exit \/ CancelTray \/ CancelMain \/ UNCHANGED vars
  PROVE  IInv'
<1> USE DEF BeginDrain, Exit, CancelTray, CancelMain, vars
<1>1. UNCHANGED <<caller, closure, errCh, queue, stack>>
  OBVIOUS
<1>2. worker' \in {"serving", "draining", "exited"} /\ done' \in SUBSET {"tray", "main"}
  BY DEF IInv, TypeOK
<1>3. TypeOK'
  BY <1>1, <1>2 DEF IInv, TypeOK
<1>4. StackShape' /\ QueueShape'
  BY <1>1 DEF IInv, StackShape, QueueShape
<1>5. CallerShape' /\ NestedShape'
  BY <1>1 DEF IInv, CallerShape, NestedShape
<1>6. QED
  BY <1>3, <1>4, <1>5 DEF IInv

\* The invariant the other results rest on: who is in the channel, who is on the
\* stack, and what each caller and result channel may know at that point.
THEOREM Invariant == Spec => []IInv
<1>1. IInv /\ [Next]_vars => IInv'
  BY CallerSteps, QueueSteps, StackSteps, PhaseSteps DEF Next, Serve
<1>2. QED
  BY <1>1, InitInv, PTL DEF Spec

\* Every variable keeps its type; the channel never holds more than Cap tasks.
THEOREM TypeCorrect == Spec => []TypeOK
BY Invariant, PTL DEF IInv

\* A Submit with a background context returns only when its closure is over or was
\* refused: the caller may release what the closure used.
THEOREM BackgroundIsQuiet == Spec => []ReturnedMeansQuiet
<1>1. IInv => ReturnedMeansQuiet
  BY DEF IInv, CallerShape, ReturnedMeansQuiet, Returned, Fates
<1>2. QED
  BY <1>1, Invariant, PTL
-----------------------------------------------------------------------------
(* The bridge implements TaskService.                                      *)

\* While the worker is there, what executes is what its stack holds; afterwards its stack
\* is empty, and only goroutines on its former thread execute closures.
Executed == /\ worker # "exited" => \A c \in Calls : closure[c] = "running" =>
                                       \E i \in 1 .. Len(stack) : stack[i] = c
            /\ worker # "serving" => stack = <<>>
            /\ \A c \in Root : caller[c] = "inline" => worker = "exited"

\* A nested call and its closure go together.
Together == \A d \in Nested : /\ caller[d] = "idle" => closure[d] = "unsent"
                              /\ caller[d] = "inline" => closure[d] = "running"
                              /\ caller[d] \in Returned => closure[d] = caller[d]

RInv == IInv /\ Executed /\ Together

LEMMA RestSteps ==
  ASSUME RInv, [Next]_vars PROVE Executed' /\ Together'
<1> USE ConstantsOK DEF RInv, IInv, TypeOK, Calls, Waiting, Returned, Fates
<1>1. ASSUME NEW c \in Calls, SubmitInline(c) PROVE Executed' /\ Together'
  <2>1. CASE c \in Root
    BY <1>1, <2>1 DEF SubmitInline, MayBeComThread, Executed, Together
  <2>2. CASE c \in Nested
    <3>1. /\ stack # <<>> /\ stack' = Append(stack, c) /\ Len(stack') = Len(stack) + 1
          /\ \A i \in 1 .. Len(stack) : stack'[i] = stack[i]
          /\ stack'[Len(stack) + 1] = c
      BY <1>1, <2>2 DEF SubmitInline, MayCall, Runnable
    <3>2. QED
      BY <1>1, <2>2, <3>1 DEF SubmitInline, Executed, Together
  <2>3. QED
    BY <2>1, <2>2
<1>2. ASSUME NEW c \in Calls, SubmitTask(c) \/ Proceed(c) PROVE Executed' /\ Together'
  <2>1. c \in Root
    BY <1>2 DEF SubmitTask, MayBeOtherThread, Proceed, Enqueue, Receive, GiveUp, CtxDone, StrayReturn,
                NestedShape
  <2>2. Together'
    BY <1>2, <2>1 DEF Together, SubmitTask, Proceed, Enqueue, Receive, GiveUp, StrayReturn
  <2>3. Executed'
    BY <1>2, <2>1 DEF Executed, SubmitTask, Proceed, Enqueue, Receive, GiveUp, StrayReturn, CallerShape
  <2>4. QED
    BY <2>2, <2>3
<1>3. CASE Take
  <2>1. Head(queue) = queue[1] /\ queue[1] \in Root /\ stack' = <<Head(queue)>>
    BY <1>3 DEF Take, QueueShape
  <2>2. QED
    BY <1>3, <2>1 DEF Take, Executed, Together
<1>4. CASE ReturnNested
  <2> DEFINE d == stack[Len(stack)]
  <2>1. /\ Last(stack) = d /\ d \in Nested /\ stack # <<>>
        /\ caller' = [caller EXCEPT ![d] = "ok"] /\ closure' = [closure EXCEPT ![d] = "ok"]
        /\ UNCHANGED worker
    BY <1>4 DEF ReturnNested, Last, StackShape
  <2>2. /\ Len(stack') = Len(stack) - 1 /\ Len(stack) \in Nat
        /\ \A i \in 1 .. Len(stack) - 1 : stack'[i] = stack[i]
    BY <1>4 DEF ReturnNested, Front
  <2>3. Together'
    BY <2>1 DEF Together
  <2>4. ASSUME NEW c \in Calls, closure'[c] = "running" PROVE \E i \in 1 .. Len(stack') : stack'[i] = c
    <3>1. closure[c] = "running" /\ c # d
      BY <2>1, <2>4
    <3>2. PICK i \in 1 .. Len(stack) : stack[i] = c
      BY <2>1, <3>1 DEF Executed
    <3>3. i \in 1 .. Len(stack) - 1
      BY <2>2, <3>1, <3>2
    <3>4. QED
      BY <2>2, <3>2, <3>3
  <2>5. Executed'
    BY <2>1, <2>4 DEF Executed
  <2>6. QED
    BY <2>3, <2>5
<1>5. CASE FinishRoot
  <2>1. Head(stack) = stack[1] /\ Head(stack) \in Root
    BY <1>5 DEF FinishRoot, Runnable, StackShape
  <2>2. QED
    BY <1>5, <2>1 DEF FinishRoot, Runnable, Executed, Together
<1>6. CASE Panic
  <2>1. /\ stack # <<>> /\ worker = "serving" /\ UNCHANGED worker /\ stack' = <<>>
        /\ closure' = [c \in Calls |-> IF c \in Range(stack) THEN "panicked" ELSE closure[c]]
        /\ caller' = [c \in Calls |-> IF c \in Range(Tail(stack)) THEN "panicked" ELSE caller[c]]
    BY <1>6 DEF Panic, Runnable, Executed
  <2>2. \A d \in Nested : d \in Range(Tail(stack)) <=> d \in Range(stack)
    <3>1. /\ Len(Tail(stack)) = Len(stack) - 1 /\ Len(stack) \in Nat /\ Tail(stack) \in Seq(Calls)
          /\ \A i \in 1 .. Len(stack) - 1 : Tail(stack)[i] = stack[i + 1]
      BY <2>1
    <3>2. ASSUME NEW d \in Nested, d \in Range(stack) PROVE d \in Range(Tail(stack))
      <4>1. PICK i \in 1 .. Len(stack) : stack[i] = d
        BY <3>2 DEF Range
      <4>2. i # 1
        BY <2>1, <4>1 DEF StackShape
      <4>3. i - 1 \in 1 .. Len(Tail(stack)) /\ Tail(stack)[i - 1] = d
        BY <3>1, <4>1, <4>2
      <4>4. \A s \in Seq(Calls) : \A k \in 1 .. Len(s) : s[k] \in Range(s)
        BY DEF Range
      <4>5. QED
        BY <3>1, <4>3, <4>4
    <3>3. ASSUME NEW d \in Nested, d \in Range(Tail(stack)) PROVE d \in Range(stack)
      BY <3>1, <3>3 DEF Range
    <3>4. QED
      BY <3>2, <3>3
  <2>3. \A c \in Calls : closure[c] = "running" => c \in Range(stack)
    BY <2>1 DEF Executed, Range
  <2>4. Range(Tail(stack)) \subseteq Nested
    BY <2>1 DEF Range, StackShape
  <2>5. Together'
    BY <2>1, <2>2 DEF Together
  <2>6. Executed'
    BY <2>1, <2>3, <2>4 DEF Executed
  <2>7. QED
    BY <2>5, <2>6
<1>7. CASE Drain
  BY <1>7 DEF Drain, Executed, Together, QueueShape
<1>8. CASE BeginDrain \/ Exit \/ CancelTray \/ CancelMain \/ UNCHANGED vars
  BY <1>8 DEF BeginDrain, Exit, CancelTray, CancelMain, vars, Executed, Together
<1>9. QED
  BY <1>1, <1>2, <1>3, <1>4, <1>5, <1>6, <1>7, <1>8 DEF Next, Serve

LEMMA NextRefinement == RInv /\ [Next]_vars => RInv'
BY RestSteps, CallerSteps, QueueSteps, StackSteps, PhaseSteps DEF RInv, Next, Serve

\* A step that concerns one call changes phase and reply of that call only.
LEMMA OneCall ==
  ASSUME NEW c \in Calls, \A d \in Calls \ {c} : caller'[d] = caller[d] /\ closure'[d] = closure[d]
  PROVE  /\ phaseOf' = [phaseOf EXCEPT ![c] = phaseOf'[c]]
         /\ replyOf' = [replyOf EXCEPT ![c] = replyOf'[c]]
BY DEF phaseOf, replyOf

\* What executes for TaskService.
LEMMA OnStack ==
  ASSUME RInv, worker # "exited"
  PROVE  Service!Executing = {stack[i] : i \in 1 .. Len(stack)}
<1> USE DEF RInv, IInv, TypeOK
<1>1. ASSUME NEW c \in Calls PROVE phaseOf[c] = "executing" <=> caller[c] # "idle" /\ closure[c] = "running"
  BY DEF phaseOf, Fates
<1>2. ASSUME NEW i \in 1 .. Len(stack) PROVE stack[i] \in Calls /\ closure[stack[i]] = "running"
                                              /\ caller[stack[i]] # "idle"
  BY DEF StackShape, Calls
<1>3. QED
  BY <1>1, <1>2 DEF Service!Executing, Service!Calls, Executed, CallerShape, Together, Calls

\* Each step of the bridge is a step of TaskService or none.
LEMMA CallRefines ==
  ASSUME RInv, NEW c \in Calls, SubmitInline(c) \/ SubmitTask(c) \/ Proceed(c)
  PROVE  Service!Next \/ UNCHANGED Service!vars
<1> USE ConstantsOK DEF RInv, IInv, TypeOK, Waiting, Returned, Fates
<1>1. \A d \in Calls \ {c} : caller'[d] = caller[d] /\ closure'[d] = closure[d]
  BY DEF SubmitInline, SubmitTask, Proceed, Enqueue, Receive, GiveUp, StrayReturn
<1>2. /\ phaseOf' = [phaseOf EXCEPT ![c] = phaseOf'[c]]
      /\ replyOf' = [replyOf EXCEPT ![c] = replyOf'[c]]
  BY <1>1, OneCall
<1>3. worker' = worker
  BY DEF SubmitInline, SubmitTask, Proceed, Enqueue, Receive, GiveUp, StrayReturn
<1>4. phaseOf = [d \in Calls |-> phaseOf[d]] /\ replyOf = [d \in Calls |-> replyOf[d]]
  BY DEF phaseOf, replyOf
<1>5. CASE SubmitInline(c)
  <2>1. phaseOf[c] = "idle" /\ phaseOf'[c] = "executing" /\ replyOf'[c] = replyOf[c]
    BY <1>5 DEF SubmitInline, phaseOf, replyOf
  <2>2. CASE c \in Root
    <3>1. worker = "exited"
      BY <1>5, <2>2 DEF SubmitInline, MayBeComThread
    <3>2. Service!RunAlone(c)
      BY <1>2, <1>3, <1>4, <2>1, <2>2, <3>1 DEF Service!RunAlone
    <3>3. QED
      BY <2>2, <3>2 DEF Service!Next
  <2>3. CASE c \in Nested
    <3>1. stack # <<>> /\ worker = "serving" /\ 1 \in 1 .. Len(stack)
      BY <1>5, <2>3 DEF SubmitInline, MayCall, Runnable, Executed
    <3>2. Service!Executing # {}
      <4>1. Service!Executing = {stack[i] : i \in 1 .. Len(stack)}
        BY <3>1, OnStack DEF RInv, IInv
      <4>2. stack[1] \in Service!Executing
        BY <3>1, <4>1
      <4>3. QED
        BY <4>2
    <3>3. Service!Enter(c)
      BY <1>2, <1>3, <1>4, <2>1, <2>3, <3>1, <3>2 DEF Service!Enter
    <3>4. QED
      BY <2>3, <3>3 DEF Service!Next
  <2>4. QED
    BY <2>2, <2>3 DEF Calls
<1>6. CASE SubmitTask(c)
  <2>1. c \in Root /\ phaseOf[c] = "idle" /\ phaseOf'[c] = "pending" /\ replyOf'[c] = replyOf[c]
    BY <1>6 DEF SubmitTask, MayBeOtherThread, CallerShape, phaseOf, replyOf
  <2>2. Service!Request(c)
    BY <1>2, <1>3, <1>4, <2>1 DEF Service!Request
  <2>3. QED
    BY <2>1, <2>2 DEF Service!Next
<1>7. CASE Enqueue(c)
  <2>1. phaseOf'[c] = phaseOf[c] /\ replyOf'[c] = replyOf[c]
    BY <1>7 DEF Enqueue, NestedShape, CallerShape, phaseOf, replyOf, Calls
  <2>2. QED
    BY <1>2, <1>3, <1>4, <2>1 DEF Service!vars
<1>8. CASE Receive(c)
  <2>1. /\ c \in Root /\ phaseOf'[c] = phaseOf[c] /\ phaseOf[c] = errCh[c] /\ errCh[c] \in Fates
        /\ replyOf[c] = "none" /\ replyOf'[c] = errCh[c]
    BY <1>8 DEF Receive, NestedShape, CallerShape, phaseOf, replyOf, Calls
  <2>2. Service!Deliver(c)
    BY <1>2, <1>3, <1>4, <2>1 DEF Service!Deliver, Service!Fates
  <2>3. QED
    BY <2>1, <2>2 DEF Service!Next
<1>9. CASE GiveUp(c)
  <2>1. /\ c \in Root /\ Context[c] # "background" /\ phaseOf'[c] = phaseOf[c] /\ phaseOf[c] # "idle"
        /\ replyOf[c] = "none" /\ replyOf'[c] = "cancelled"
    BY <1>9 DEF GiveUp, CtxDone, phaseOf, replyOf
  <2>2. Service!Abandon(c)
    BY <1>2, <1>3, <1>4, <2>1 DEF Service!Abandon
  <2>3. QED
    BY <2>1, <2>2 DEF Service!Next
<1>10. CASE StrayReturn(c)
  <2>1. /\ c \in Root /\ worker = "exited" /\ phaseOf[c] = "executing" /\ phaseOf'[c] = "ok"
        /\ replyOf'[c] = "ok"
    BY <1>10 DEF StrayReturn, Executed, CallerShape, phaseOf, replyOf
  <2>2. Service!EndAlone(c)
    BY <1>2, <1>3, <1>4, <2>1 DEF Service!EndAlone
  <2>3. QED
    BY <2>1, <2>2 DEF Service!Next
<1>11. QED
  BY <1>5, <1>6, <1>7, <1>8, <1>9, <1>10 DEF Proceed

LEMMA WorkerRefines ==
  ASSUME RInv, Serve \/ Panic \/ CancelTray \/ CancelMain
  PROVE  Service!Next \/ UNCHANGED Service!vars
<1> USE ConstantsOK DEF RInv, IInv, TypeOK, Waiting, Returned, Fates
<1>1. phaseOf = [d \in Calls |-> phaseOf[d]] /\ replyOf = [d \in Calls |-> replyOf[d]]
  BY DEF phaseOf, replyOf
<1>2. CASE Take
  <2>1. PICK c \in Root : c = queue[1] /\ c = Head(queue) /\ closure[c] = "queued"
    BY <1>2 DEF Take, QueueShape
  <2>2. /\ phaseOf' = [phaseOf EXCEPT ![c] = phaseOf'[c]]
        /\ replyOf' = [replyOf EXCEPT ![c] = replyOf'[c]]
    BY <1>2, <2>1, OneCall DEF Take, Calls
  <2>3. phaseOf[c] = "pending" /\ phaseOf'[c] = "executing" /\ replyOf'[c] = replyOf[c]
    BY <1>2, <2>1 DEF Take, CallerShape, phaseOf, replyOf, Calls
  <2>4. Service!Executing = {}
    <3>1. Service!Executing = {stack[i] : i \in 1 .. Len(stack)} /\ stack = <<>>
      BY <1>2, OnStack DEF Take
    <3>2. QED
      BY <3>1
  <2>5. Service!Start(c)
    <3>1. replyOf' = replyOf
      BY <1>1, <2>2, <2>3
    <3>2. worker' = worker
      BY <1>2 DEF Take
    <3>3. QED
      BY <1>2, <2>1, <2>2, <2>3, <2>4, <3>1, <3>2 DEF Service!Start, Take
  <2>6. QED
    BY <2>1, <2>5 DEF Service!Next
<1>3. CASE ReturnNested
  <2>1. PICK d \in Nested : d = stack[Len(stack)] /\ d = Last(stack) /\ caller[d] = "inline"
                            /\ closure[d] = "running"
    BY <1>3 DEF ReturnNested, Last, StackShape
  <2>2. /\ phaseOf' = [phaseOf EXCEPT ![d] = phaseOf'[d]]
        /\ replyOf' = [replyOf EXCEPT ![d] = replyOf'[d]]
    BY <1>3, <2>1, OneCall DEF ReturnNested, Calls
  <2>3. phaseOf[d] = "executing" /\ phaseOf'[d] = "ok" /\ replyOf'[d] = "ok"
    BY <1>3, <2>1 DEF ReturnNested, phaseOf, replyOf, Calls
  <2>4. Service!Leave(d)
    BY <1>1, <1>3, <2>1, <2>2, <2>3 DEF Service!Leave, ReturnNested
  <2>5. QED
    BY <2>1, <2>4 DEF Service!Next
<1>4. CASE FinishRoot
  <2>1. PICK c \in Root : c = stack[1] /\ c = Head(stack) /\ caller[c] \in {"waiting", "cancelled"}
    BY <1>4 DEF FinishRoot, Runnable, StackShape
  <2>2. /\ phaseOf' = [phaseOf EXCEPT ![c] = phaseOf'[c]]
        /\ replyOf' = [replyOf EXCEPT ![c] = replyOf'[c]]
    BY <1>4, <2>1, OneCall DEF FinishRoot, Calls
  <2>3. phaseOf'[c] = "ok" /\ replyOf'[c] = replyOf[c]
    BY <1>4, <2>1 DEF FinishRoot, phaseOf, replyOf, Calls
  <2>4. worker = "serving" /\ Len(stack) = 1
    BY <1>4 DEF FinishRoot, Runnable, Executed
  <2>5. Service!Executing = {c}
    <3>1. Service!Executing = {stack[i] : i \in 1 .. Len(stack)}
      BY <2>4, OnStack
    <3>2. QED
      BY <2>1, <2>4, <3>1
  <2>6. Service!Finish(c)
    <3>1. replyOf' = replyOf
      BY <1>1, <2>2, <2>3
    <3>2. worker' = worker
      BY <1>4 DEF FinishRoot
    <3>3. QED
      BY <1>4, <2>1, <2>2, <2>3, <2>4, <2>5, <3>1, <3>2 DEF Service!Finish, FinishRoot
  <2>7. QED
    BY <2>1, <2>6 DEF Service!Next
<1>5. CASE Panic
  <2>1. /\ stack # <<>> /\ worker = "serving" /\ UNCHANGED worker
        /\ closure' = [c \in Calls |-> IF c \in Range(stack) THEN "panicked" ELSE closure[c]]
        /\ caller' = [c \in Calls |-> IF c \in Range(Tail(stack)) THEN "panicked" ELSE caller[c]]
    BY <1>5 DEF Panic, Runnable, Executed
  <2>2. Service!Executing = Range(stack)
    <3>1. Service!Executing = {stack[i] : i \in 1 .. Len(stack)}
      BY <2>1, OnStack
    <3>2. QED
      BY <3>1 DEF Range
  <2>3. /\ Range(Tail(stack)) \subseteq Nested
        /\ \A c \in Range(stack) : caller[c] # "idle"
    <3>1. Range(Tail(stack)) \subseteq Nested
      BY <2>1 DEF Range, StackShape
    <3>2. ASSUME NEW i \in 1 .. Len(stack) PROVE caller[stack[i]] # "idle"
      <4>1. CASE i = 1
        BY <2>1, <4>1 DEF StackShape
      <4>2. CASE i # 1
        <5>1. i \in 2 .. Len(stack)
          BY <4>2
        <5>2. QED
          BY <5>1 DEF StackShape
      <4>3. QED
        BY <4>1, <4>2
    <3>3. QED
      BY <3>1, <3>2 DEF Range
  <2>4. \A c \in Calls : /\ phaseOf'[c] = IF c \in Range(stack) THEN "panicked" ELSE phaseOf[c]
                         /\ replyOf'[c] = replyOf[c]
    <3> SUFFICES ASSUME NEW c \in Calls
                 PROVE  /\ phaseOf'[c] = IF c \in Range(stack) THEN "panicked" ELSE phaseOf[c]
                        /\ replyOf'[c] = replyOf[c]
      OBVIOUS
    <3>1. CASE c \in Root
      <4>1. caller'[c] = caller[c]
        BY <2>1, <2>3, <3>1
      <4>2. QED
        BY <2>1, <2>3, <3>1, <4>1 DEF phaseOf, replyOf
    <3>2. CASE c \in Nested
      <4>1. c \in Range(stack) => caller[c] = "inline"
        BY <2>1, <3>2 DEF Range, StackShape
      <4>2. c \in Range(Tail(stack)) => c \in Range(stack)
        BY <2>1 DEF Range
      <4>3. QED
        BY <2>1, <3>2, <4>1, <4>2 DEF phaseOf, replyOf
    <3>3. QED
      BY <3>1, <3>2 DEF Calls
  <2>5. Service!Executing # {}
    BY <2>1, <2>2 DEF Range
  <2>6. Service!Panic
    <3>1. replyOf' = replyOf
      BY <1>1, <2>4 DEF replyOf
    <3>2. phaseOf' = [c \in Calls |-> IF c \in Range(stack) THEN "panicked" ELSE phaseOf[c]]
      <4>1. phaseOf' = [c \in Calls |-> phaseOf'[c]]
        BY DEF phaseOf
      <4>2. QED
        BY <2>4, <4>1
    <3>3. QED
      BY <2>1, <2>2, <2>5, <3>1, <3>2 DEF Service!Panic, Service!Calls, Calls
  <2>7. QED
    BY <2>6 DEF Service!Next
<1>6. CASE BeginDrain
  BY <1>6 DEF BeginDrain, Service!vars, phaseOf, replyOf
<1>7. CASE Drain
  <2>1. PICK c \in Root : c = queue[1] /\ c = Head(queue) /\ closure[c] = "queued"
    BY <1>7 DEF Drain, QueueShape
  <2>2. /\ phaseOf' = [phaseOf EXCEPT ![c] = phaseOf'[c]]
        /\ replyOf' = [replyOf EXCEPT ![c] = replyOf'[c]]
    BY <1>7, <2>1, OneCall DEF Drain, Calls
  <2>3. phaseOf[c] = "pending" /\ phaseOf'[c] = "refused" /\ replyOf'[c] = replyOf[c]
    BY <1>7, <2>1 DEF Drain, CallerShape, phaseOf, replyOf, Calls
  <2>4. Service!Refuse(c)
    <3>1. replyOf' = replyOf
      BY <1>1, <2>2, <2>3
    <3>2. worker' = worker
      BY <1>7 DEF Drain
    <3>3. QED
      BY <1>7, <2>1, <2>2, <2>3, <3>1, <3>2 DEF Service!Refuse, Drain
  <2>5. QED
    BY <2>1, <2>4 DEF Service!Next
<1>8. CASE Exit
  <2>1. Service!Executing = {}
    <3>1. Service!Executing = {stack[i] : i \in 1 .. Len(stack)} /\ stack = <<>>
      BY <1>8, OnStack DEF Exit, Executed
    <3>2. QED
      BY <3>1
  <2>2. Service!Close
    BY <1>8, <2>1 DEF Exit, Service!Close, phaseOf, replyOf
  <2>3. QED
    BY <2>2 DEF Service!Next
<1>9. CASE CancelTray \/ CancelMain
  BY <1>9 DEF CancelTray, CancelMain, Service!vars, phaseOf, replyOf
<1>10. QED
  BY <1>2, <1>3, <1>4, <1>5, <1>6, <1>7, <1>8, <1>9 DEF Serve

\* The bridge keeps what TaskService promises, for any calls, contexts and capacity: the
\* initial state maps to the initial state, and each step to a step or none.
THEOREM Refinement == Spec => ImplementsTaskService
<1>1. Init => Service!Init
  BY DEF Init, Service!Init, Service!Calls, Calls, phaseOf, replyOf, Returned, Fates
<1>2. Init => RInv
  BY InitInv DEF RInv, Init, Executed, Together, Calls, Returned, Fates
<1>3. RInv /\ [Next]_vars => RInv'
  BY NextRefinement
<1>4. RInv /\ [Next]_vars => [Service!Next]_(Service!vars)
  <2>1. UNCHANGED vars => UNCHANGED Service!vars
    BY DEF vars, Service!vars, phaseOf, replyOf
  <2>2. QED
    BY <2>1, CallRefines, WorkerRefines DEF Next
<1>5. QED
  BY <1>1, <1>2, <1>3, <1>4, PTL DEF Spec, ImplementsTaskService, Service!Spec
=============================================================================
