--------------------------- MODULE ServiceBridge ---------------------------
(* background/bridge.py: a background thread submits calls to the API loop,  *)
(* and at the end of an attempt waits until drain() has seen every call's    *)
(* task settle, cleanup included.  What the code relies on, and the model    *)
(* keeps, is asyncio's order: the loop runs its ready handles first in,      *)
(* first out, a task's done callbacks in the order they were added, and      *)
(* cancel() reaches a task at its next step.                                 *)
EXTENDS Naturals, Sequences, FiniteSets, SequencesExt

CONSTANTS Call,         \* the calls that may be submitted
          NoCall,       \* the call field of drain()'s own handles
          MaxAttempts   \* bound: attempts of the worker, auto_restart

ASSUME BridgeAssumption == NoCall \notin Call /\ MaxAttempts \in Nat \ {0}

VARIABLES ready,      \* the loop's ready handles <<what, call>>, oldest first
          task,       \* where each call's task is
          cancels,    \* task.cancelling(): how often it was cancelled
          thrown,     \* the next step of the task raises CancelledError
          cleaning,   \* the operation runs its except/finally chain
          future,     \* the concurrent Future the submitter holds
          tasks,      \* ServiceBridge.tasks
          gathering,  \* tasks the drain's gather() still waits for
          spinning,   \* drain() loops without ever yielding to the loop
          worker,     \* the background thread
          attempt
callVars == <<task, cancels, thrown, cleaning, future>>
drainVars == <<tasks, gathering, spinning>>
vars == <<ready, callVars, drainVars, worker, attempt>>

Handle == ({"create", "step", "cancel", "settle", "completed", "gathered"} \X Call)
            \cup ({"create drain", "drain", "drained"} \X {NoCall})

TypeOK == /\ ready \in Seq(Handle)
          /\ task \in [Call -> {"new", "submitted", "ready", "waiting", "done"}]
          /\ cancels \in [Call -> Nat]
          /\ thrown \in [Call -> BOOLEAN]
          /\ cleaning \in [Call -> BOOLEAN]
          /\ future \in [Call -> {"none", "pending", "cancelled", "done"}]
          /\ tasks \subseteq Call
          /\ gathering \subseteq Call
          /\ spinning \in BOOLEAN
          /\ worker \in {"running", "closing", "closed"}
          /\ attempt \in 1..MaxAttempts

Init == /\ ready = <<>>
        /\ task = [c \in Call |-> "new"]
        /\ cancels = [c \in Call |-> 0]
        /\ thrown = [c \in Call |-> FALSE]
        /\ cleaning = [c \in Call |-> FALSE]
        /\ future = [c \in Call |-> "none"]
        /\ tasks = {} /\ gathering = {} /\ spinning = FALSE
        /\ worker = "running" /\ attempt = 1

Pending(c) == task[c] \notin {"new", "done"}
-----------------------------------------------------------------------------
(* The background thread. *)

\* submit(): run_coroutine_threadsafe
Submit(c) == /\ worker = "running"
             /\ task[c] = "new"
             /\ task' = [task EXCEPT ![c] = "submitted"]
             /\ future' = [future EXCEPT ![c] = "pending"]
             /\ ready' = Append(ready, <<"create", c>>)
             /\ UNCHANGED <<cancels, thrown, cleaning, drainVars, worker, attempt>>

\* the submitter cancels its Future; once chained, that cancels the task later
CancelFuture(c) == /\ worker = "running"
                   /\ future[c] = "pending"
                   /\ future' = [future EXCEPT ![c] = "cancelled"]
                   /\ ready' = IF task[c] = "submitted" THEN ready
                                                        ELSE Append(ready, <<"cancel", c>>)
                   /\ UNCHANGED <<task, cancels, thrown, cleaning, drainVars, worker, attempt>>

\* close_attempt(): hand drain() to the loop and block on its Future
CloseAttempt == /\ worker = "running"
                /\ worker' = "closing"
                /\ ready' = Append(ready, <<"create drain", NoCall>>)
                /\ UNCHANGED <<callVars, drainVars, attempt>>

Restart == /\ worker = "closed"
           /\ attempt < MaxAttempts
           /\ attempt' = attempt + 1
           /\ worker' = "running"
           /\ UNCHANGED <<ready, callVars, drainVars>>
-----------------------------------------------------------------------------
(* The API loop runs the oldest ready handle. *)

Runs(what, c) == /\ ~spinning
                 /\ ready # <<>>
                 /\ Head(ready) = <<what, c>>

\* task.cancel() on each of the tasks in C; the waiting ones become ready in
\* the order the set is walked
Waiting(C) == {c \in C : task[c] = "waiting"}
CancelTasks(C) == LET hit == {c \in C : Pending(c)} IN
    /\ cancels' = [c \in Call |-> IF c \in hit THEN cancels[c] + 1 ELSE cancels[c]]
    /\ thrown' = [c \in Call |-> thrown[c] \/ c \in hit]
    /\ task' = [c \in Call |-> IF c \in Waiting(C) THEN "ready" ELSE task[c]]
Steps(order) == [i \in DOMAIN order |-> <<"step", order[i]>>]

Create(c) == /\ Runs("create", c)
             /\ task' = [task EXCEPT ![c] = "ready"]
             /\ ready' = Tail(ready) \o <<<<"step", c>>>>
                           \o IF future[c] = "cancelled" THEN <<<<"cancel", c>>>> ELSE <<>>
             /\ UNCHANGED <<cancels, thrown, cleaning, future, drainVars, worker, attempt>>

Cancel(c) == /\ Runs("cancel", c)
             /\ CancelTasks({c})
             /\ ready' = Tail(ready) \o Steps(SetToSeq(Waiting({c})))
             /\ UNCHANGED <<cleaning, future, drainVars, worker, attempt>>

\* the done callbacks of c: the Future's, completed() and the gather's
Callbacks(c) == LET added(handle, cond) == IF cond THEN <<<<handle, c>>>> ELSE <<>> IN
    <<<<"settle", c>>>> \o added("completed", c \in tasks') \o added("gathered", c \in gathering)

\* one step of the task: the first registers it in tasks.  The operation then
\* awaits something or ends; before that it may itself submit another call, as
\* long as the worker has not begun to close: "the caller has stopped issuing
\* submissions".  A raised CancelledError sends it into its cleanup, which may
\* await once.
Started(c) == c \in tasks \/ ~thrown[c]
MaySubmit(c) == Started(c) /\ worker = "running"
Step(c) ==
    /\ Runs("step", c)
    /\ thrown' = [thrown EXCEPT ![c] = FALSE]
    /\ cleaning' = [cleaning EXCEPT ![c] = @ \/ thrown[c]]
    /\ tasks' = IF Started(c) THEN tasks \cup {c} ELSE tasks
    /\ \E subs \in {<<>>} \cup {<<d>> : d \in {e \in Call : MaySubmit(c) /\ task[e] = "new"}},
          ends \in IF Started(c) /\ ~cleaning[c] THEN BOOLEAN ELSE {TRUE} :
          /\ task' = [d \in Call |-> CASE d = c -> IF ends THEN "done" ELSE "waiting"
                                       [] d \in ToSet(subs) -> "submitted"
                                       [] OTHER -> task[d]]
          /\ future' = [d \in Call |-> IF d \in ToSet(subs) THEN "pending" ELSE future[d]]
          /\ ready' = Tail(ready) \o [i \in DOMAIN subs |-> <<"create", subs[i]>>]
                         \o IF ends THEN Callbacks(c) ELSE <<>>
    /\ UNCHANGED <<cancels, gathering, spinning, worker, attempt>>

\* what the operation awaits is there
Wake(c) == /\ task[c] = "waiting"
           /\ task' = [task EXCEPT ![c] = "ready"]
           /\ ready' = Append(ready, <<"step", c>>)
           /\ UNCHANGED <<cancels, thrown, cleaning, future, drainVars, worker, attempt>>

Settle(c) == /\ Runs("settle", c)
             /\ future' = [future EXCEPT ![c] = IF @ = "pending" THEN "done" ELSE @]
             /\ ready' = Tail(ready)
             /\ UNCHANGED <<task, cancels, thrown, cleaning, drainVars, worker, attempt>>

Completed(c) == /\ Runs("completed", c)
                /\ tasks' = tasks \ {c}
                /\ ready' = Tail(ready)
                /\ UNCHANGED <<callVars, gathering, spinning, worker, attempt>>

Gathered(c) == /\ Runs("gathered", c)
               /\ gathering' = gathering \ {c}
               /\ ready' = Tail(ready) \o IF gathering = {c} THEN <<<<"drain", NoCall>>>> ELSE <<>>
               /\ UNCHANGED <<callVars, tasks, spinning, worker, attempt>>

CreateDrain == /\ Runs("create drain", NoCall)
               /\ ready' = Append(Tail(ready), <<"drain", NoCall>>)
               /\ UNCHANGED <<callVars, drainVars, worker, attempt>>

\* one turn of drain()'s "while self.tasks".  gather() of tasks that are all
\* done already returns a finished future, and awaiting that does not yield:
\* drain() tests self.tasks again before completed() could ever run.
AllTasks == tasks   \* mutant: drain() cancels also what is being cancelled
NoTasks == {}       \* mutant: drain() cancels nothing
Uncancelled == {c \in tasks : cancels[c] = 0}
\* mutant: drain() cancels the tasks and returns without waiting for them
DrainWithoutGather ==
    /\ Runs("drain", NoCall)
    /\ CancelTasks(Uncancelled)
    /\ \E order \in SetToSeqs(Waiting(Uncancelled)) :
          ready' = Tail(ready) \o Steps(order) \o <<<<"drained", NoCall>>>>
    /\ UNCHANGED <<cleaning, future, tasks, gathering, spinning, worker, attempt>>

Drain == /\ Runs("drain", NoCall)
         /\ \/ /\ tasks = {}
               /\ ready' = Append(Tail(ready), <<"drained", NoCall>>)
               /\ UNCHANGED <<task, cancels, thrown, gathering, spinning>>
            \/ /\ tasks # {}
               /\ CancelTasks(Uncancelled)
               /\ gathering' = {c \in tasks : Pending(c)}
               /\ spinning' = (gathering' = {})
               /\ \E order \in SetToSeqs(Waiting(Uncancelled)) :
                     ready' = (IF spinning' THEN ready ELSE Tail(ready)) \o Steps(order)
         /\ UNCHANGED <<cleaning, future, tasks, worker, attempt>>

\* the drain's Future resolves and close_attempt() returns
Drained == /\ Runs("drained", NoCall)
           /\ ready' = Tail(ready)
           /\ worker' = "closed"
           /\ UNCHANGED <<callVars, drainVars, attempt>>
-----------------------------------------------------------------------------
LoopStep == \/ CreateDrain \/ Drain \/ Drained
            \/ \E c \in Call : \/ Create(c) \/ Cancel(c) \/ Step(c) \/ Settle(c)
                               \/ Completed(c) \/ Gathered(c)

Next == \/ LoopStep \/ CloseAttempt \/ Restart
        \/ \E c \in Call : Submit(c) \/ CancelFuture(c) \/ Wake(c)

Spec == Init /\ [][Next]_vars

\* The loop runs what is ready, and what a cleanup awaits comes.  Nothing is
\* assumed of what an operation awaits otherwise, nor of the worker.
FairSpec == Spec /\ WF_vars(LoopStep) /\ \A c \in Call : WF_vars(cleaning[c] /\ Wake(c))
-----------------------------------------------------------------------------
Barrier == INSTANCE AttemptBarrier WITH open <- worker # "closed",
                                        active <- {c \in Call : Pending(c)}

\* No call outlives its attempt, in whatever order submissions, cancellations,
\* callbacks and drain meet in the loop, also calls submitted by calls
\* (bridge.py 26-79, docs/background-workers.md 66-68).
ImplementsBarrier == Barrier!BarrierSpec

\* A call is cancelled at most once, so that its cleanup is never interrupted, and
\* only after it has registered, so that drain() knows it (bridge.py 40-43 and
\* 61-72: "preserving their finally blocks").
CancelledOnce == \A c \in Call : /\ cancels[c] <= 1
                                 /\ cancels[c] > 0 => c \in tasks \/ task[c] = "done"

\* close_attempt() returns, unless drain() spins.
DrainEnds == worker = "closing" ~> worker # "closing" \/ spinning

\* The API loop remains available while a worker retires
\* (docs/background-workers.md 140-141).
LoopStaysAvailable == ~spinning
=============================================================================
