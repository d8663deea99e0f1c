-------------------------- MODULE ServiceOwnership --------------------------
(* runtime/service.py with file_lock, worker_runtime and request_shutdown:   *)
(* the masters that are started on one state directory, one after another or *)
(* at the same time, and their API workers.  A start is known by the process *)
(* that serves it (service_id).  On Linux a worker is forked inside the      *)
(* master's scopes and shares its lock; on Windows it is spawned without     *)
(* them.  Any process may die at any step; PIDs are reused.                  *)
EXTENDS Processes, Sequences, FiniteSets

VARIABLES platform,   \* "linux" or "windows"
          sharing,    \* the processes that have the locked service.lock open
          files,      \* which start wrote each file of the state directory
          pc,         \* where each process is
          step,       \* and in which step of the scope's entry or exit
          scope,      \* the start whose service_runtime scope it is inside of
          parent,     \* a worker's master
          service,    \* WorkerRuntime.service
          asked,      \* history: running starts for which a worker has
                      \* published a marker
          told,       \* history: running owners stopped by marker or signal
          left,       \* history: starts that completed their cleanup
          disturbed   \* history: starts left with workers, or begun beside any
locals == <<step, scope, parent, service>>
history == <<asked, told, left, disturbed>>
vars == <<status, born, platform, sharing, files, pc, locals, history>>

\* service_runtime: what it unlinks, then writes, on entry; what it unlinks on
\* exit.  The files that name a worker or an observing process (reload.json
\* among them) are left out; making the token private is part of writing it.
\* A worker writes the marker and, when it changes the verbosity target, control.
Markers == {"shutdown"}
Opening == <<"shutdown", "token", "runtime", "control", "pid">>
\* mutant: the verbosity target stays
ClosingShort == <<"runtime", "shutdown", "pid", "token">>
Closing == <<"runtime", "shutdown", "control", "pid", "token">>
Name == {"shutdown", "token", "runtime", "control", "pid"}

MasterPc == {"lock", "open", "serve", "stop"}
WorkerPc == {"boot", "work", "update", "checked", "marked"}
ExitPc == {"finally", "close", "unlock"}

TypeOK == /\ ProcTypeOK
          /\ platform \in {"linux", "windows"}
          /\ sharing \subseteq Identity
          /\ files \in [Name -> Identity \cup {NoRecord}]
          /\ pc \in [Pid -> {"gone"} \cup MasterPc \cup WorkerPc \cup ExitPc]
          /\ step \in [Pid -> 1..Len(Opening)]
          /\ scope \in [Pid -> Identity \cup {NoRecord}]
          /\ parent \in [Pid -> Identity \cup {NoRecord}]
          /\ service \in [Pid -> Identity \cup {NoRecord}]
          /\ asked \subseteq Identity
          /\ told \subseteq Identity
          /\ left \subseteq Identity
          /\ disturbed \subseteq Identity

Init == /\ ProcInit
        /\ platform \in {"linux", "windows"}
        /\ sharing = {}
        /\ files = [n \in Name |-> NoRecord]
        /\ pc = [p \in Pid |-> "gone"]
        /\ step = [p \in Pid |-> 1]
        /\ scope = [p \in Pid |-> NoRecord]
        /\ parent = [p \in Pid |-> NoRecord]
        /\ service = [p \in Pid |-> NoRecord]
        /\ asked = {} /\ told = {} /\ left = {} /\ disturbed = {}

Goto(p, from, to) == pc[p] = from /\ pc' = [pc EXCEPT ![p] = to]
Own(p) == SelfIdentity(p)
-----------------------------------------------------------------------------
(* The kernel.                                                               *)

\* flock belongs to the open file, which a fork shares
Locked == \E i \in sharing : IsLive(i)

Forget(p) == /\ pc' = [pc EXCEPT ![p] = "gone"]
             /\ step' = [step EXCEPT ![p] = 1]
             /\ scope' = [scope EXCEPT ![p] = NoRecord]
             /\ parent' = [parent EXCEPT ![p] = NoRecord]
             /\ service' = [service EXCEPT ![p] = NoRecord]
             /\ asked' = asked \ {Own(p)} /\ told' = told \ {Own(p)}
\* a process ends: its parent's wait() is part of it, for a zombie is not live
End(p) == /\ Running(p)
          /\ status' = [status EXCEPT ![p] = "free"]
          /\ UNCHANGED born
Die(p) == /\ End(p)
          /\ Forget(p)
          /\ UNCHANGED <<platform, sharing, files, left, disturbed>>
-----------------------------------------------------------------------------
(* A master: serve().                                                        *)

Serve(p) == /\ Birth(p)
            /\ Goto(p, "gone", "lock")
            /\ UNCHANGED <<platform, sharing, files, locals, history>>

\* the workers at work, of whatever start
Working == {w \in Pid : pc[w] \in WorkerPc}

\* file_lock(blocking=False): otherwise it raises, and the process ends
Lock(p) == /\ ~Locked
           /\ Goto(p, "lock", "open")
           /\ sharing' = {Own(p)}
           /\ scope' = [scope EXCEPT ![p] = Own(p)]
           /\ disturbed' = IF Working = {} THEN disturbed ELSE disturbed \cup {Own(p)}
           /\ UNCHANGED <<status, born, platform, files, step, parent, service, asked, told, left>>

Opened(n, i) == IF n \in Markers THEN NoRecord ELSE i
Open(p) == LET n == Opening[step[p]] IN
    /\ pc[p] = "open"
    /\ files' = [files EXCEPT ![n] = Opened(n, Own(p))]
    /\ IF step[p] = Len(Opening)
       THEN /\ pc' = [pc EXCEPT ![p] = "serve"]
            /\ step' = [step EXCEPT ![p] = 1]
       ELSE /\ step' = [step EXCEPT ![p] = @ + 1]
            /\ UNCHANGED pc
    /\ UNCHANGED <<status, born, platform, sharing, scope, parent, service, history>>
OpenFails(p) == /\ Goto(p, "open", "finally")
                /\ step' = [step EXCEPT ![p] = 1]
                /\ UNCHANGED <<status, born, platform, sharing, files, scope, parent, service,
                               history>>

\* the operator interrupts the master
Interrupt(p) == /\ Goto(p, "serve", "stop")
                /\ UNCHANGED <<status, born, platform, sharing, files, locals, history>>

\* mutant: any marker is a request
AnyMarker(p) == files["shutdown"] # NoRecord
\* shutdown_requested(), polled by the master on Windows
ShutdownRequested(p) == files["shutdown"] = Own(p)
Watch(p) == /\ platform = "windows"
            /\ ShutdownRequested(p)
            /\ Goto(p, "serve", "stop")
            /\ told' = told \cup {Own(p)}
            /\ UNCHANGED <<status, born, platform, sharing, files, locals, asked, left, disturbed>>

\* terminate_all(): on Windows the manager asks its own workers by the marker
Terminate(p) == /\ platform = "windows"
                /\ pc[p] = "stop"
                /\ files' = [files EXCEPT !["shutdown"] = Own(p)]
                /\ UNCHANGED <<status, born, platform, sharing, pc, locals, history>>
\* The native manager returns.  It waits for its workers, but a controller call
\* of its stop may raise before it has signalled or joined them (OSError,
\* AccessDenied), and Gunicorn does not wait for its last SIGKILL sweep.
Stopped(p) == /\ Goto(p, "stop", "finally")
              /\ disturbed' = IF \E w \in Working : parent[w] = Own(p)
                              THEN disturbed \cup {Own(p)} ELSE disturbed
              /\ UNCHANGED <<status, born, platform, sharing, files, locals, asked, told, left>>
-----------------------------------------------------------------------------
(* Leaving the scope: a master, or a forked worker that unwinds.             *)

\* mutant: no test of creator_pid
Anyone(p) == TRUE
\* os.getpid() == creator_pid, in service_runtime and in file_lock
IsCreator(p) == scope[p] = Own(p)
MayUnlock(p) == scope[p] = Own(p)

\* the record in runtime.json is of this start
IsOurs(p) == files["runtime"] = scope[p]
Finally(p) == /\ pc[p] = "finally"
              /\ pc' = [pc EXCEPT ![p] = IF IsCreator(p) THEN "close" ELSE "unlock"]
              /\ step' = [step EXCEPT ![p] = IF IsCreator(p) /\ ~IsOurs(p) THEN Len(Closing) ELSE 1]
              /\ UNCHANGED <<status, born, platform, sharing, files, scope, parent, service,
                             history>>

Close(p) == /\ pc[p] = "close"
            /\ files' = [files EXCEPT ![Closing[step[p]]] = NoRecord]
            /\ IF step[p] = Len(Closing)
               THEN /\ pc' = [pc EXCEPT ![p] = "unlock"]
                    /\ left' = left \cup {scope[p]}
                    /\ UNCHANGED step
               ELSE /\ step' = [step EXCEPT ![p] = @ + 1]
                    /\ UNCHANGED <<pc, left>>
            /\ UNCHANGED <<status, born, platform, sharing, scope, parent, service, asked, told,
                           disturbed>>

\* an OSError skips the rest of the cleanup
CloseFails(p) == /\ Goto(p, "close", "unlock")
                 /\ UNCHANGED <<status, born, platform, sharing, files, locals, history>>

\* LOCK_UN, for all that share the lock; then the process ends
Unlock(p) == /\ pc[p] = "unlock"
             /\ sharing' = IF MayUnlock(p) THEN {} ELSE sharing
             /\ End(p)
             /\ Forget(p)
             /\ UNCHANGED <<platform, files, left, disturbed>>
-----------------------------------------------------------------------------
(* An API worker.                                                            *)

Fork(m, p) == /\ pc[m] = "serve"
              /\ Birth(p)
              /\ Goto(p, "gone", "boot")
              /\ parent' = [parent EXCEPT ![p] = Own(m)]
              /\ IF platform = "linux"
                 THEN /\ scope' = [scope EXCEPT ![p] = scope[m]]
                      /\ sharing' = sharing \cup {[pid |-> p, created |-> born'[p]]}
                 ELSE UNCHANGED <<scope, sharing>>
              /\ UNCHANGED <<platform, files, step, service, history>>

\* worker_runtime() takes the record of a live start.  The control token it
\* reads next is compared with a client's, of which nothing is assumed.
Boot(p) == /\ IsLive(files["runtime"])
           /\ Goto(p, "boot", "work")
           /\ service' = [service EXCEPT ![p] = files["runtime"]]
           /\ UNCHANGED <<status, born, platform, sharing, files, step, scope, parent, history>>

TargetOf(p) == files["control"] = service[p]
SameService(p) == files["runtime"] = service[p] /\ IsLive(files["runtime"])
\* an accepted request: request_shutdown() verifies the service or raises, ...
Verify(p) == /\ SameService(p)
             /\ Goto(p, "work", "checked")
             /\ UNCHANGED <<status, born, platform, sharing, files, locals, history>>
\* ... publish the marker, be the start still there or not ...
Mark(p) == /\ Goto(p, "checked", IF platform = "linux" THEN "marked" ELSE "work")
           /\ files' = [files EXCEPT !["shutdown"] = service[p]]
           /\ asked' = asked \cup {i \in {service[p]} : IsLive(i)}
           /\ UNCHANGED <<status, born, platform, sharing, locals, told, left, disturbed>>
\* ... and on Linux signal the recorded PID, whoever has it now
Signal(p) == LET m == service[p].pid IN
    /\ pc[p] = "marked"
    /\ IF pc[m] = "serve"
       THEN /\ pc' = [pc EXCEPT ![p] = "work", ![m] = "stop"]
            /\ told' = told \cup {Own(m)}
       ELSE /\ pc' = [pc EXCEPT ![p] = "work"]
            /\ UNCHANGED told
    /\ UNCHANGED <<status, born, platform, sharing, files, locals, asked, left, disturbed>>

\* FileVerboseControl.update(): read_target() verifies the service or raises, ...
ReadTarget(p) == /\ TargetOf(p)
                 /\ Goto(p, "work", "update")
                 /\ UNCHANGED <<status, born, platform, sharing, files, locals, history>>
\* ... write_target() replaces the file; logging-control.lock is between workers
WriteTarget(p) == /\ Goto(p, "update", "work")
                  /\ files' = [files EXCEPT !["control"] = service[p]]
                  /\ UNCHANGED <<status, born, platform, sharing, locals, history>>

\* a forked worker ends by leaving the scopes it inherited; a spawned one dies
Unwind(p) == /\ pc[p] \in WorkerPc
             /\ platform = "linux"
             /\ pc' = [pc EXCEPT ![p] = "finally"]
             /\ UNCHANGED <<status, born, platform, sharing, files, locals, history>>
-----------------------------------------------------------------------------
Master(p) == \/ Serve(p) \/ Lock(p) \/ Open(p) \/ OpenFails(p) \/ Interrupt(p)
             \/ Watch(p) \/ Terminate(p) \/ Stopped(p)
Exit(p) == Finally(p) \/ Close(p) \/ CloseFails(p) \/ Unlock(p)
Worker(p) == \/ Boot(p) \/ Verify(p) \/ Mark(p) \/ Signal(p) \/ ReadTarget(p)
             \/ WriteTarget(p) \/ Unwind(p) \/ \E m \in Pid : Fork(m, p)

Next == \E p \in Pid : Die(p) \/ Master(p) \/ Exit(p) \/ Worker(p)

Spec == Init /\ [][Next]_vars
-----------------------------------------------------------------------------
Owner(p) == scope[p] = Own(p) /\ Running(p)

\* One start owns the directory at a time, although forked workers share its
\* lock, leave its scopes, and outlive it (state.py 110-127, service.py 29).
OneOwner == \A p, q \in Pid : Owner(p) /\ Owner(q) => p = q

\* The files of start i that are written for it alone: its workers write the
\* verbosity target too, but not after its end.  The target is excepted if the
\* start was disturbed: workers of an earlier one that run beside it (a failed
\* manager has left them, or they were spawned by a master that died) may then
\* replace or recreate it at any time, and so may its own after such an exit.
Lasting(i) == Name \ (Markers \cup IF i \in disturbed THEN {"control"} ELSE {})

\* While a start serves, the files of the directory are its own: no other start,
\* no late request or update, and no worker on its way out, has removed or
\* replaced them (service.py 49-76).
OwnState == \A p \in Pid : pc[p] \in {"serve", "stop"} =>
    \A n \in Lasting(Own(p)) : files[n] = Own(p)

\* A start is stopped only by a request that one of its workers accepted for it,
\* never by a late marker or signal meant for an earlier start, also when its
\* master has the PID of that one (service.py 92-100, worker.py 89-100).  The
\* signal of a worker that an earlier start has left running is the exception.
StoppedByOwnRequest ==
    \A i \in told \ asked : platform = "linux" /\ i \in disturbed

\* A start that has completed its cleanup leaves none of its files: its record,
\* token, PID file and, unless it was disturbed, its verbosity target (service.py
\* 64-76).
NothingLeft == \A i \in left : \A n \in Lasting(i) : files[n] # i
=============================================================================
