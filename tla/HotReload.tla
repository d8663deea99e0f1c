----------------------------- MODULE HotReload -----------------------------
(* runtime/reload.py in the loop of the native manager: one start of the     *)
(* service with hot reload, which has one API worker at a time.  The master  *)
(* replaces a worker that has ended, kills one whose retirement clock is     *)
(* over, and in each turn of its loop takes the steps of ReloadWatcher.tick. *)
(* Any process may end at any step; a PID may go to a worker or to a process *)
(* that is none of the service's.                                            *)
EXTENDS Processes, FiniteSets

CONSTANTS MaxEdits,     \* bound: how often the source is edited
          MaxProcesses  \* bound: workers and foreign processes, in turn or together

ASSUME ReloadAssumption == MaxEdits \in Nat /\ MaxProcesses \in Nat

VARIABLES platform,   \* "linux" (Gunicorn) or "windows" (Uvicorn)
          source,     \* the version of the Python files
          origin,     \* history: the version when the watch began
          batch,      \* the watch iterator has a change that was not taken
          pc,         \* where each process is
          version,    \* the version a worker has imported
          workers,    \* workers/<pid>.json
          reload,     \* reload.json: the worker to retire
          shutdown,   \* shutdown.json is there
          told,       \* SIGTERM is queued, or should_exit is set
          master,     \* where the master is
          seen,       \* the worker that tick() retires
          pending, retiring,   \* ReloadWatcher
          clock,      \* ControllerLog.retirements
          accepted    \* history: workers that accepted a shutdown
locals == <<pc, version>>
marks == <<reload, shutdown, told>>
watcher == <<seen, pending, retiring>>
vars == <<status, born, platform, source, origin, batch, locals, workers, marks, master, watcher,
          clock, accepted>>

\* before the watch begins, its origin is beyond every version;
\* a worker until it has published its observation, while it serves, and on
\* its way out; a killed or finished one is "gone"
NotYet == MaxEdits + 1
Starting == {"boot", "imported"}
WorkerPc == Starting \cup {"work", "leave", "left"}
Tick == {"tick", "poll", "observe", "clock", "deliver", "signal", "retired"}

TypeOK == /\ ProcTypeOK
          /\ platform \in {"linux", "windows"}
          /\ source \in 0..MaxEdits
          /\ origin \in 0..NotYet
          /\ batch \in BOOLEAN
          /\ pc \in [Pid -> {"gone", "foreign"} \cup WorkerPc]
          /\ version \in [Pid -> 0..MaxEdits]
          /\ workers \in [Pid -> Identity \cup {NoRecord}]
          /\ reload \in Identity \cup {NoRecord}
          /\ shutdown \in BOOLEAN
          /\ told \in BOOLEAN
          /\ master \in {"wait", "overdue", "stop", "terminate", "join", "out"} \cup Tick
          /\ seen \in Identity \cup {NoRecord}
          /\ pending \in BOOLEAN
          /\ retiring \in Identity \cup {NoRecord}
          /\ clock \in [Identity -> {"none", "armed", "over"}]
          /\ accepted \subseteq Identity

Init == /\ ProcInit
        /\ platform \in {"linux", "windows"}
        /\ source = 0 /\ origin = NotYet /\ batch = FALSE
        /\ pc = [p \in Pid |-> "gone"]
        /\ version = [p \in Pid |-> 0]
        /\ workers = [p \in Pid |-> NoRecord]
        /\ reload = NoRecord /\ shutdown = FALSE /\ told = FALSE
        /\ master = "wait"
        /\ seen = NoRecord /\ pending = FALSE /\ retiring = NoRecord
        /\ clock = [i \in Identity |-> "none"]
        /\ accepted = {}

Own(p) == SelfIdentity(p)
Goto(p, from, to) == pc[p] = from /\ pc' = [pc EXCEPT ![p] = to]
Loop(from, to) == master = from /\ master' = to
-----------------------------------------------------------------------------
(* Processes.  The master has the workers as its children, and waits for     *)
(* them between two ticks only.                                              *)

kernelRest == <<platform, source, origin, batch, workers, marks, master, watcher, clock, accepted>>

Children == {p \in Pid : pc[p] \in WorkerPc}

HasRoom == Cardinality({i \in Identity : i.created <= born[i.pid]}) < MaxProcesses

\* the native manager keeps one worker
Spawn(p) == /\ master = "wait"
            /\ Children = {}
            /\ HasRoom
            /\ Birth(p)
            /\ Goto(p, "gone", "boot")
            /\ UNCHANGED <<version, kernelRest>>

MayReap == master \in {"wait", "join"}
Wait(p) == /\ pc[p] # "foreign" => MayReap
           /\ Reap(p)
           /\ pc' = [pc EXCEPT ![p] = "gone"]
           /\ version' = [version EXCEPT ![p] = 0]
           /\ UNCHANGED kernelRest

Foreign(p) == HasRoom /\ Birth(p) /\ Goto(p, "gone", "foreign") /\ UNCHANGED <<version, kernelRest>>

Die(p) == Death(p) /\ UNCHANGED <<locals, kernelRest>>
-----------------------------------------------------------------------------
(* The worker.                                                               *)

workerRest == <<status, born, platform, source, origin, batch, master, watcher, clock>>

\* load_application() imports what the files are now ...
Import(p) == /\ Running(p)
             /\ Goto(p, "boot", "imported")
             /\ version' = [version EXCEPT ![p] = source]
             /\ UNCHANGED <<workerRest, workers, marks, accepted>>

\* ... and an error of the import or the lifespan stops the service
BootFails(p) == /\ pc[p] \in Starting
                /\ Death(p)
                /\ told' = TRUE
                /\ UNCHANGED <<platform, source, origin, batch, locals, workers, reload, shutdown,
                               master, watcher, clock, accepted>>

\* worker_runtime(): publish(), and on Windows start the watcher thread
Publish(p) == /\ Running(p)
              /\ Goto(p, "imported", "work")
              /\ workers' = [workers EXCEPT ![p] = Own(p)]
              /\ UNCHANGED <<workerRest, version, marks, accepted>>

\* request_shutdown() publishes the marker ...
Accept(p) == /\ Running(p)
             /\ pc[p] \in {"work", "leave"}
             /\ shutdown' = TRUE
             /\ accepted' = accepted \cup {Own(p)}
             /\ UNCHANGED <<workerRest, locals, workers, reload, told>>

\* ... and on Linux, unless it dies before, signals the master, whose thread
\* watch_shutdown() polls for the marker on Windows
Tell == /\ shutdown
        /\ platform = "linux" => \E i \in accepted : IsLive(i)
        /\ told' = TRUE
        /\ UNCHANGED <<workerRest, locals, workers, reload, shutdown, accepted>>

\* the operator stops the master
Interrupt == /\ master # "out"
             /\ told' = TRUE
             /\ UNCHANGED <<workerRest, locals, workers, reload, shutdown, accepted>>

\* mutant: the marker retires whoever has the PID
SamePid(p) == reload # NoRecord /\ reload.pid = p
\* watch_worker_shutdown() compares the marker with the exact process
MeantFor(p) == reload = Own(p)
Obey(p) == /\ platform = "windows"
           /\ Running(p)
           /\ MeantFor(p) \/ shutdown
           /\ Goto(p, "work", "leave")
           /\ UNCHANGED <<workerRest, version, workers, marks, accepted>>

\* the lifespan ends: worker_runtime() removes the observation
Unpublish(p) == /\ Running(p)
                /\ Goto(p, "leave", "left")
                /\ workers' = [workers EXCEPT ![p] = NoRecord]
                /\ UNCHANGED <<workerRest, version, marks, accepted>>

Worker(p) == Import(p) \/ BootFails(p) \/ Publish(p) \/ Accept(p) \/ Obey(p) \/ Unpublish(p)
-----------------------------------------------------------------------------
(* The source, and time.                                                     *)

\* accept_change() passes Python files of the selected roots; the others
\* change nothing here.  Before the watch begins, nobody notices a change.
Watching == origin # NotYet
Edit == /\ source < MaxEdits
        /\ source' = source + 1
        /\ batch' = (batch \/ Watching)
        /\ UNCHANGED <<status, born, platform, origin, locals, workers, marks, master, watcher,
                       clock, accepted>>

ClockPasses(i) == /\ clock[i] = "armed"
                  /\ IsLive(i)
                  /\ clock' = [clock EXCEPT ![i] = "over"]
                  /\ UNCHANGED <<status, born, platform, source, origin, batch, locals, workers,
                                 marks, master, watcher, accepted>>
-----------------------------------------------------------------------------
(* The master's loop.  Uvicorn looks at should_exit before each turn and     *)
(* before tick(); Gunicorn skips tick() in a turn that has a signal.         *)

masterRest == <<platform, source, origin, version, workers, accepted>>

Turn == /\ Loop("wait", IF told THEN "stop" ELSE "overdue")
        /\ UNCHANGED <<status, born, masterRest, pc, batch, marks, watcher, clock>>

\* background_tick(): kill the live workers whose clock is over, and forget
\* them and the dead
Expired == {i \in Identity : clock[i] = "over" /\ IsLive(i)}
KillExpired == /\ status' = [p \in Pid |-> IF Own(p) \in Expired THEN "zombie" ELSE status[p]]
               /\ clock' = [i \in Identity |-> IF IsLive(i) /\ i \notin Expired THEN clock[i] ELSE "none"]
               /\ UNCHANGED <<born, masterRest, pc, batch, marks, watcher>>
Overdue == Loop("overdue", "tick") /\ KillExpired

\* mutant: a shutdown is noticed by its signal alone
BySignal == told
ShutdownRequested == shutdown
Begin == /\ Loop("tick", IF ShutdownRequested \/ (platform = "windows" /\ told)
                         THEN "wait" ELSE "poll")
         /\ UNCHANGED <<status, born, masterRest, pc, batch, marks, watcher, clock>>

\* watch() is a generator: its body, and with it the watch of the files, begins
\* in the first next()
WatchStarts == /\ master = "poll" /\ ~Watching
               /\ origin' = source
               /\ UNCHANGED <<status, born, platform, source, batch, locals, workers, marks, master,
                              watcher, clock, accepted>>

\* mutant: a turn without a change forgets an earlier one
LatestOnly == batch
Accumulated == pending \/ batch
Poll == /\ Watching
        /\ Loop("poll", IF IsLive(retiring) THEN "wait" ELSE "observe")
        /\ pending' = Accumulated
        /\ batch' = FALSE
        /\ UNCHANGED <<status, born, masterRest, pc, marks, seen, retiring, clock>>

LiveWorkers == {workers[p] : p \in {q \in Pid : IsLive(workers[q])}}
Record(i) == i
Observe == /\ master = "observe"
           /\ retiring' = IF LiveWorkers = {} THEN retiring ELSE NoRecord
           /\ IF LiveWorkers # {} /\ pending /\ ~ShutdownRequested
              THEN /\ master' = "clock"
                   /\ seen' \in {Record(i) : i \in LiveWorkers}
              ELSE /\ master' = "wait"
                   /\ UNCHANGED seen
           /\ UNCHANGED <<status, born, masterRest, pc, batch, marks, pending, clock>>

\* mutant: no clock for a reload
ArmedToStop(W) == [i \in Identity |-> IF i \in W /\ clock[i] = "none" /\ master = "stop"
                                       THEN "armed" ELSE clock[i]]
\* controller_retiring(): setdefault
Armed(W) == [i \in Identity |-> IF i \in W /\ clock[i] = "none" THEN "armed" ELSE clock[i]]
ArmClock == /\ Loop("clock", "deliver")
            /\ clock' = Armed({seen})
            /\ UNCHANGED <<status, born, masterRest, pc, batch, marks, watcher>>

\* Windows: the marker.  Linux: is it still that process? ...
Verified == status[seen.pid] # "free" /\ Own(seen.pid) = seen
Deliver == /\ master = "deliver"
           /\ IF platform = "windows"
              THEN reload' = seen /\ master' = "retired"
              ELSE UNCHANGED reload /\ master' = IF Verified THEN "signal" ELSE "wait"
           /\ UNCHANGED <<status, born, masterRest, pc, batch, shutdown, told, watcher, clock>>

\* ... and SIGTERM for who has the PID by then; a zombie ignores it
Hit(P) == /\ pc' = [p \in Pid |-> IF p \in P /\ Running(p) /\ pc[p] \in WorkerPc \ {"left"}
                                  THEN "leave" ELSE pc[p]]
          /\ status' = [p \in Pid |-> IF p \in P /\ Running(p) /\ pc[p] = "foreign"
                                      THEN "zombie" ELSE status[p]]
Signal == /\ master = "signal"
          /\ master' = IF status[seen.pid] = "free" THEN "wait" ELSE "retired"
          /\ Hit({seen.pid})
          /\ UNCHANGED <<born, masterRest, batch, marks, watcher, clock>>

Retired == /\ Loop("retired", "wait")
           /\ retiring' = seen
           /\ seen' = NoRecord
           /\ pending' = FALSE
           /\ UNCHANGED <<status, born, masterRest, pc, batch, marks, clock>>

\* an error of the watch, of a file, of a signal or of the log stops the service
TickFails == /\ master \in Tick
             /\ master' = "stop"
             /\ told' = TRUE
             /\ UNCHANGED <<status, born, masterRest, pc, batch, reload, shutdown, watcher, clock>>
-----------------------------------------------------------------------------
(* The service stops.                                                        *)

\* controller_retiring() arms a clock for every worker it can observe ...
RetireAll == /\ Loop("stop", "terminate")
             /\ clock' = Armed(LiveWorkers)
             /\ UNCHANGED <<status, born, masterRest, pc, batch, marks, watcher>>

\* ... and Gunicorn signals its workers, while Windows workers get the marker
Terminate == /\ Loop("terminate", "join")
             /\ IF platform = "windows"
                THEN shutdown' = TRUE /\ UNCHANGED <<pc, status>>
                ELSE UNCHANGED shutdown /\ Hit(Children)
             /\ UNCHANGED <<born, masterRest, batch, reload, told, watcher, clock>>

Join == Loop("join", "join") /\ Expired # {} /\ KillExpired

\* Gunicorn's last resort, when its own graceful timeout is over
Sweep == /\ Loop("join", "join")
         /\ platform = "linux"
         /\ \E p \in Children : Running(p)
         /\ status' = [p \in Pid |-> IF p \in Children /\ Running(p) THEN "zombie" ELSE status[p]]
         /\ UNCHANGED <<born, masterRest, pc, batch, marks, watcher, clock>>

Out == /\ Loop("join", "out")
       /\ Children = {}
       /\ UNCHANGED <<status, born, masterRest, pc, batch, marks, watcher, clock>>
-----------------------------------------------------------------------------
Master == \/ Turn \/ Overdue \/ Begin \/ WatchStarts \/ Poll \/ Observe \/ ArmClock
          \/ Deliver \/ Signal \/ Retired \/ RetireAll \/ Terminate \/ Join \/ Sweep \/ Out

Next == \/ Master \/ TickFails \/ Tell \/ Interrupt \/ Edit
        \/ \E p \in Pid : Spawn(p) \/ Wait(p) \/ Foreign(p) \/ Die(p) \/ Worker(p)
        \/ \E i \in Identity : ClockPasses(i)

Spec == Init /\ [][Next]_vars

\* The master's loop turns and waits for ended workers, time passes, and a
\* worker gets through its startup or fails.  Nothing is assumed of one that
\* was told to leave: it may hang in its teardown for ever.
Started(p) == Import(p) \/ Publish(p)
FairSpec == /\ Spec
            /\ WF_vars(Master) /\ WF_vars(Tell)
            /\ \A p \in Pid : /\ WF_vars(pc[p] \in WorkerPc /\ Wait(p))
                              /\ WF_vars(Started(p))
                              /\ WF_vars(Obey(p))
            /\ \A i \in Identity : WF_vars(ClockPasses(i))
-----------------------------------------------------------------------------
Stopping == told \/ shutdown \/ master \in {"stop", "terminate", "join", "out"}

\* the worker is on its way out, and killed if it does not go
BeingRetired(p) == /\ Own(p) = retiring
                   /\ clock[Own(p)] # "none"
                   /\ platform = "windows" => reload = Own(p)

\* the source was edited after the watch began (docs/runtime.md 50-52: edits
\* before it are not noticed)
Reported == source > origin

\* No change is lost that was made after the watch began: a worker that serves
\* older code is being retired, or a change that asks for it is pending or about
\* to be read, whenever the change came, also between two steps of a tick, during
\* a retirement, a crash or a restart (reload.py 84-115).
NoChangeLost == \A p \in Pid :
    Running(p) /\ pc[p] = "work" /\ version[p] < source /\ Reported /\ ~Stopping =>
        batch \/ pending \/ BeingRetired(p)

\* What holds of the watcher, the workers and the master at all times.
ReloadInv == TypeOK /\ NoChangeLost

\* tick() and its marker send away only the process that was observed as the
\* worker, never one that has its PID, or a later worker (reload.py 101-110,
\* worker.py 127-135).
SentAway(p) == \/ Signal /\ (pc'[p] # pc[p] \/ status'[p] # status[p])
               \/ Obey(p) /\ ~shutdown
RetiresObserved == [][\A p \in Pid : SentAway(p) => Own(p) \in {seen, retiring}]_vars

\* A shutdown takes priority: once a worker has accepted one, no pending reload
\* retires another worker (docs/runtime.md 60-62, reload.py 82 and 100).
ShutdownWins == [][(master \in {"deliver", "signal"} /\ master' = "retired") /\ shutdown
                      => seen \in accepted]_vars

\* When edits have ended, whoever has started serves the current code for good, if
\* there was an edit after the watch began, and else its code: a retired worker
\* that hangs is killed (reload.py 72-115, controller.py 82-98).
ChangeTakesEffect == <>[](\A p \in Children : Running(p) /\ pc[p] \notin Starting /\ ~Stopping =>
                            pc[p] = "work" /\ (Reported => version[p] = source))

\* A service that is told to stop ends: every worker has a retirement deadline,
\* whatever the journal does (docs/background-workers.md 147-150, docs/runtime.md 146).
StopEnds == told ~> master = "out"
=============================================================================
