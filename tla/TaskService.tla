---------------------------- MODULE TaskService ----------------------------
(***************************************************************************)
(* What the COM bridge promises its callers, without a queue, a worker     *)
(* thread or channels.  A call hands over a closure; closures run one at a *)
(* time (COM apartment rule), each at most once, a closure may call other  *)
(* closures and then waits for them; a caller is told the fate of its own  *)
(* closure, or, when its context allows it, walks away without an answer.  *)
(* The promise that closures run one at a time ends when the service       *)
(* closes.  ComBridge is shown to implement this module.                   *)
(***************************************************************************)

CONSTANTS Root,        \* calls made by ordinary goroutines
          Nested,      \* calls made by a closure that is being executed
          Cancellable  \* the root calls whose context can be cancelled

Calls == Root \cup Nested

VARIABLES phase,  \* the fate of each call's closure
          reply,  \* what each call has returned to its caller
          open    \* is the service still running?

vars == <<phase, reply, open>>

Fates == {"ok", "panicked", "refused"}

Executing == {c \in Calls : phase[c] = "executing"}

Init == /\ phase = [c \in Calls |-> "idle"]
        /\ reply = [c \in Calls |-> "none"]
        /\ open = TRUE

Request(c) == /\ c \in Root
              /\ phase[c] = "idle"
              /\ phase' = [phase EXCEPT ![c] = "pending"]
              /\ UNCHANGED <<reply, open>>

\* A root closure starts only when nothing at all is executing.
Start(c) == /\ c \in Root
            /\ phase[c] = "pending"
            /\ open
            /\ Executing = {}
            /\ phase' = [phase EXCEPT ![c] = "executing"]
            /\ UNCHANGED <<reply, open>>

\* A nested call starts at once, inside the closure that makes it.
Enter(d) == /\ d \in Nested
            /\ phase[d] = "idle"
            /\ open
            /\ Executing # {}
            /\ phase' = [phase EXCEPT ![d] = "executing"]
            /\ UNCHANGED <<reply, open>>

Leave(d) == /\ d \in Nested
            /\ phase[d] = "executing"
            /\ phase' = [phase EXCEPT ![d] = "ok"]
            /\ reply' = [reply EXCEPT ![d] = "ok"]
            /\ UNCHANGED open

Finish(c) == /\ c \in Root
             /\ open
             /\ Executing = {c}
             /\ phase' = [phase EXCEPT ![c] = "ok"]
             /\ UNCHANGED <<reply, open>>

\* A panic takes the whole nest of closures down; nested calls never return.
Panic == /\ open
         /\ Executing # {}
         /\ phase' = [c \in Calls |-> IF c \in Executing THEN "panicked" ELSE phase[c]]
         /\ UNCHANGED <<reply, open>>

\* A closure is refused only if it has not started, and then never starts.
Refuse(c) == /\ c \in Root
             /\ phase[c] = "pending"
             /\ phase' = [phase EXCEPT ![c] = "refused"]
             /\ UNCHANGED <<reply, open>>

Deliver(c) == /\ c \in Root
              /\ phase[c] \in Fates
              /\ reply[c] = "none"
              /\ reply' = [reply EXCEPT ![c] = phase[c]]
              /\ UNCHANGED <<phase, open>>

Abandon(c) == /\ c \in Cancellable
              /\ phase[c] # "idle"
              /\ reply[c] = "none"
              /\ reply' = [reply EXCEPT ![c] = "cancelled"]
              /\ UNCHANGED <<phase, open>>

Close == /\ open
         /\ Executing = {}
         /\ open' = FALSE
         /\ UNCHANGED <<phase, reply>>

\* A call to a closed service may be carried out by its own caller.
RunAlone(c) == /\ c \in Root
               /\ ~open
               /\ phase[c] = "idle"
               /\ phase' = [phase EXCEPT ![c] = "executing"]
               /\ UNCHANGED <<reply, open>>

EndAlone(c) == /\ c \in Root
               /\ ~open
               /\ phase[c] = "executing"
               /\ phase' = [phase EXCEPT ![c] = "ok"]
               /\ reply' = [reply EXCEPT ![c] = "ok"]
               /\ UNCHANGED open

Next == \/ \E c \in Root : \/ Request(c) \/ Start(c) \/ Finish(c)
                           \/ Refuse(c) \/ Deliver(c) \/ Abandon(c)
                           \/ RunAlone(c) \/ EndAlone(c)
        \/ \E d \in Nested : Enter(d) \/ Leave(d)
        \/ Panic
        \/ Close

Spec == Init /\ [][Next]_vars
=============================================================================
