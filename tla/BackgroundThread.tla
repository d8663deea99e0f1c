-------------------------- MODULE BackgroundThread --------------------------
(* background/thread.py: one background worker's thread and the API loop     *)
(* that stops it.  stop() and the thread meet at stop_event, at the lock     *)
(* around loop and task, and at the cancel handles of the thread's own loop. *)
(* Of ServiceBridge it keeps what AttemptBarrier promises: close_attempt()   *)
(* returns when no submitted call is active.                                 *)
EXTENDS Naturals, FiniteSets

CONSTANTS Call,         \* calls the entry may submit to the API loop
          MaxAttempts,  \* bound: attempts before the restart delay must see a stop
          MaxStops      \* bound: stop() is called by publish() and by retire()

ASSUME ThreadAssumption == MaxAttempts \in Nat \ {0} /\ MaxStops \in Nat \ {0}

VARIABLES pc,           \* where run() is
          raised,       \* an exception is on its way out of run()
          attempt,
          status,       \* record["status"]
          readyFuture,  \* ready: what manager.start() waits for
          done,         \* done: what manager.retire() waits for
          event,        \* stop_event
          loopRef,      \* self.loop is not None
          taskRef,      \* self.task is not None
          handles,      \* task.cancel handles queued on the thread's loop
          unwinding,    \* the entry has been given CancelledError
          stopper,      \* stop(): "idle", or between stop_event.set() and the lock
          stops,        \* how often stop() has been called
          active,       \* calls of this attempt the API loop has not settled
          autoRestart   \* policy.auto_restart, fixed at launch
stopVars == <<stopper, stops>>
entryVars == <<taskRef, handles, unwinding>>
resultVars == <<attempt, status, readyFuture, done>>
apiVars == <<event, stopVars, active, autoRestart>>
vars == <<pc, raised, resultVars, loopRef, entryVars, apiVars>>

Entry == {"sync", "await", "awaiting"}

TypeOK == /\ pc \in {"new", "init", "loop", "ready", "top", "begin", "enter", "call", "drain",
                     "exit", "delay", "restart", "close", "report", "end"} \cup Entry
          /\ raised \in BOOLEAN /\ done \in BOOLEAN /\ event \in BOOLEAN
          /\ loopRef \in BOOLEAN /\ taskRef \in BOOLEAN /\ unwinding \in BOOLEAN
          /\ attempt \in 0..MaxAttempts
          /\ status \in {"starting", "running", "completed", "stopped", "failed", "restarting"}
          /\ readyFuture \in {"pending", "ok", "error"}
          /\ handles \in 0..(MaxStops + 1)
          /\ stopper \in {"idle", "cancel"}
          /\ stops \in 0..MaxStops
          /\ active \subseteq Call
          /\ autoRestart \in BOOLEAN

Init == /\ pc = "new" /\ raised = FALSE /\ attempt = 0
        /\ status = "starting" /\ readyFuture = "pending" /\ done = FALSE
        /\ event = FALSE /\ loopRef = FALSE /\ taskRef = FALSE
        /\ handles = 0 /\ unwinding = FALSE
        /\ stopper = "idle" /\ stops = 0 /\ active = {}
        /\ autoRestart \in BOOLEAN

Goto(from, to) == pc = from /\ pc' = to

\* thread.start() by BackgroundManager.start()
Launch == /\ Goto("new", "init")
          /\ UNCHANGED <<raised, resultVars, apiVars, loopRef, entryVars>>
-----------------------------------------------------------------------------
(* run(), on the background thread.  A step that may raise has a second      *)
(* disjunct that leaves by the enclosing finally blocks.                     *)

Raise(to) == pc' = to /\ raised' = TRUE

Initialize == /\ pc = "init"
              /\ \/ pc' = "loop" /\ UNCHANGED raised
                 \/ Raise("close")
              /\ UNCHANGED <<resultVars, apiVars, loopRef, entryVars>>

SetLoop == /\ Goto("loop", "ready")
           /\ loopRef' = TRUE
           /\ UNCHANGED <<raised, resultVars, apiVars, entryVars>>

SetReady == /\ Goto("ready", "top")
            /\ readyFuture' = "ok"
            /\ UNCHANGED <<raised, attempt, status, done, apiVars, loopRef, entryVars>>

TestStop == /\ Goto("top", IF event THEN "close" ELSE "begin")
            /\ UNCHANGED <<raised, resultVars, apiVars, loopRef, entryVars>>

Begin == /\ Goto("begin", "enter")
         /\ attempt' = attempt + 1
         /\ status' = "running"
         /\ UNCHANGED <<raised, readyFuture, done, apiVars, loopRef, entryVars>>

EnterScope == /\ pc = "enter"
              /\ \/ pc' = "call" /\ UNCHANGED raised
                 \/ Raise("close")
              /\ UNCHANGED <<resultVars, apiVars, loopRef, entryVars>>

\* the registered callable is a plain function or returns an awaitable
CallEntry == /\ \/ Goto("call", "sync")
                \/ Goto("call", "await")
             /\ UNCHANGED <<raised, resultVars, apiVars, loopRef, entryVars>>

\* mutant: await_entry() does not look at stop_event
AwaitUnchecked == /\ Goto("await", "awaiting")
                  /\ taskRef' = TRUE
                  /\ handles' = 0
                  /\ UNCHANGED <<raised, resultVars, apiVars, loopRef, unwinding>>

\* await_entry(), its first section under the lock
AwaitEntry == /\ Goto("await", "awaiting")
              /\ taskRef' = TRUE
              /\ handles' = IF event THEN 1 ELSE 0
              /\ UNCHANGED <<raised, resultVars, apiVars, loopRef, unwinding>>

\* the thread's loop runs a task.cancel handle
DeliverCancel == /\ pc = "awaiting"
                 /\ handles > 0
                 /\ handles' = handles - 1
                 /\ unwinding' = TRUE
                 /\ UNCHANGED <<pc, raised, resultVars, apiVars, loopRef, taskRef>>

\* The entry returns, raises an Exception or CancelledError, or a BaseException
\* that ends the thread.  The finally of await_entry forgets the task; handles
\* still queued then reach a finished task.
EndEntry == /\ pc \in {"sync", "awaiting"}
            /\ pc' = "drain"
            /\ \/ status' \in {"completed", "stopped", "failed"} /\ UNCHANGED raised
               \/ raised' = TRUE /\ UNCHANGED status
            /\ taskRef' = FALSE
            /\ handles' = 0
            /\ unwinding' = FALSE
            /\ UNCHANGED <<attempt, readyFuture, done, apiVars, loopRef>>

\* bridge.close_attempt() has returned
CloseAttempt == /\ Goto("drain", "exit")
                /\ active = {}
                /\ UNCHANGED <<raised, resultVars, apiVars, loopRef, entryVars>>

ExitScope == /\ pc = "exit"
             /\ \/ pc' = (IF raised THEN "close" ELSE "delay") /\ UNCHANGED raised
                \/ Raise("close")
             /\ UNCHANGED <<resultVars, apiVars, loopRef, entryVars>>

\* stop_event.wait(RESTART_DELAY): told to stop, or the delay is over
Delay == /\ \/ ~autoRestart /\ Goto("delay", "close")
            \/ autoRestart /\ event /\ Goto("delay", "close")
            \/ autoRestart /\ ~event /\ attempt < MaxAttempts /\ Goto("delay", "restart")
         /\ UNCHANGED <<raised, resultVars, apiVars, loopRef, entryVars>>

Restart == /\ Goto("restart", "top")
           /\ status' = "restarting"
           /\ UNCHANGED <<raised, attempt, readyFuture, done, apiVars, loopRef, entryVars>>

\* stack.aclose(), then self.loop = None unless it raised; the Runner closes
Close == /\ \/ Goto("close", "report") /\ loopRef' = FALSE /\ UNCHANGED raised
            \/ pc = "close" /\ Raise("report") /\ UNCHANGED loopRef
         /\ UNCHANGED <<resultVars, apiVars, entryVars>>

\* mutant: a failure after start() was answered leaves the status alone
ReportStartOnly == /\ Goto("report", "end")
                   /\ readyFuture' = IF raised /\ readyFuture = "pending" THEN "error" ELSE readyFuture
                   /\ done' = TRUE
                   /\ UNCHANGED <<raised, attempt, status, loopRef, entryVars, apiVars>>

Report == /\ Goto("report", "end")
          /\ readyFuture' = IF raised /\ readyFuture = "pending" THEN "error" ELSE readyFuture
          /\ status' = IF raised /\ readyFuture # "pending" THEN "failed" ELSE status
          /\ done' = TRUE
          /\ UNCHANGED <<raised, attempt, apiVars, loopRef, entryVars>>
-----------------------------------------------------------------------------
(* The API loop. *)

SetEvent == /\ stopper = "idle"
            /\ stops < MaxStops
            /\ stops' = stops + 1
            /\ stopper' = "cancel"
            /\ event' = TRUE
            /\ UNCHANGED <<pc, raised, resultVars, loopRef, entryVars, active, autoRestart>>

\* mutant: stop() relies on stop_event alone
CancelNothing == /\ stopper = "cancel"
                 /\ stopper' = "idle"
                 /\ UNCHANGED <<pc, raised, resultVars, event, loopRef, entryVars, stops, active,
                                autoRestart>>

\* the rest of stop(), under the lock
CancelEntry == /\ stopper = "cancel"
               /\ stopper' = "idle"
               /\ handles' = IF loopRef /\ taskRef THEN handles + 1 ELSE handles
               /\ UNCHANGED <<pc, raised, resultVars, event, loopRef, taskRef, unwinding, stops, active, autoRestart>>

SubmitCall(c) == /\ pc \in {"sync", "awaiting"}
                 /\ c \notin active
                 /\ active' = active \cup {c}
                 /\ UNCHANGED <<pc, raised, resultVars, event, loopRef, entryVars, stopVars, autoRestart>>

SettleCall(c) == /\ c \in active
                 /\ active' = active \ {c}
                 /\ UNCHANGED <<pc, raised, resultVars, event, loopRef, entryVars, stopVars, autoRestart>>
-----------------------------------------------------------------------------
ThreadStep == \/ Initialize \/ SetLoop \/ SetReady \/ TestStop \/ Begin \/ EnterScope
              \/ CallEntry \/ AwaitEntry \/ DeliverCancel \/ CloseAttempt \/ ExitScope
              \/ Delay \/ Restart \/ Close \/ Report

Next == \/ Launch \/ ThreadStep \/ EndEntry \/ SetEvent \/ CancelEntry
        \/ \E c \in Call : SubmitCall(c) \/ SettleCall(c)

Spec == Init /\ [][Next]_vars

\* What docs/background-workers.md asks of entries: a synchronous one ends once
\* stop_event is set, an asynchronous one once it has been cancelled.
MustEnd == (pc = "sync" /\ event) \/ (pc = "awaiting" /\ unwinding)

FairSpec == /\ Spec
            /\ WF_vars(ThreadStep)
            /\ WF_vars(CancelEntry)
            /\ WF_vars(MustEnd /\ EndEntry)
            /\ \A c \in Call : WF_vars(pc = "drain" /\ SettleCall(c))
-----------------------------------------------------------------------------
\* Once stop() has returned, an asynchronous entry that still runs has been
\* cancelled or will be, however stop() met await_entry() (thread.py 102-124).
StopReachesEntry == stops > 0 /\ stopper = "idle" /\ pc = "awaiting" => unwinding \/ handles > 0

\* An attempt begins only when every call of the earlier ones has settled
\* (thread.py 202-208, docs/background-workers.md 66-68).
SettledBeforeAttempt == [][attempt' # attempt => active = {}]_vars

\* A finished thread tells the truth: no call is left, its start was answered,
\* and it is not reported running (thread.py 202-221).
HonestEnd == done => active = {} /\ readyFuture # "pending" /\ status # "running"

\* manager.retire() does not wait for ever: a launched thread that is stopped
\* ends, at whatever point stop() finds it (docs/background-workers.md 138-142).
StopEnds == event /\ pc # "new" ~> done
=============================================================================
