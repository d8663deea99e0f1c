---------------------------- MODULE FileVerbose ----------------------------
(* verbose/control.py, storage.py and submission.py: the file verbosity of   *)
(* one complete start.  The target is one file that every process of the     *)
(* service, controller or API worker, reads again and again into a cache,    *)
(* reporting what it has seen in a file of its own.  Any thread of a process *)
(* may set the target under logging-control.lock, on behalf of a caller who  *)
(* may be cancelled.  Reads and writes may fail, and a process may die at    *)
(* any step.                                                                 *)
EXTENDS Processes

CONSTANT MaxUpdates    \* bound: calls of set_file_verbose(), numbered as they come

ASSUME UpdateAssumption == MaxUpdates \in Nat

Update == 1..MaxUpdates
NoUpdate == 0          \* nobody holds the lock

VARIABLES target,      \* logging-control.json
          seen,        \* logging-observations/<pid>.json
          lock,        \* who has flock(logging-control.lock)
          pc,          \* the process's observer: FileVerboseControl() and refresh()
          ready,       \* use_file_control(): the process has its control object
          cache,       \* control.state
          read,        \* the observer's local state
          at,          \* where the thread is that runs update()
          by,          \* the process it belongs to
          want,        \* its argument
          got,         \* its local state
          asked        \* the caller in finish_file_update()
files == <<target, seen>>
observer == <<pc, ready, read>>
updates == <<at, by, want, got, asked>>
vars == <<status, born, files, lock, observer, cache, updates>>

State == [enabled : BOOLEAN, revision : Nat]
Observation == [id : Identity, state : State]
ASSUME ReportAssumption == NoRecord \notin Observation
Unset == [enabled |-> FALSE, revision |-> 0]
Locked == {"read", "check", "write", "store"}

TypeOK == /\ ProcTypeOK
          /\ target \in State
          /\ seen \in [Pid -> Observation \cup {NoRecord}]
          /\ lock \in Update \cup {NoUpdate}
          /\ \A u \in Update : lock = u <=> at[u] \in Locked
          /\ pc \in [Pid -> {"gone", "load", "idle", "adopt", "report"}]
          /\ ready \in [Pid -> BOOLEAN]
          /\ cache \in [Pid -> State]
          /\ read \in [Pid -> State]
          /\ at \in [Update -> {"new", "lock", "over"} \cup Locked]
          /\ by \in [Update -> Pid \cup {NoRecord}]
          /\ want \in [Update -> BOOLEAN]
          /\ got \in [Update -> State]
          /\ asked \in [Update -> {"new", "waiting", "ended"}]

\* the master has written its launch value into the target
Init == /\ ProcInit
        /\ target = Unset
        /\ seen = [p \in Pid |-> NoRecord]
        /\ lock = NoUpdate
        /\ pc = [p \in Pid |-> "gone"]
        /\ ready = [p \in Pid |-> FALSE]
        /\ cache = [p \in Pid |-> Unset]
        /\ read = [p \in Pid |-> Unset]
        /\ at = [u \in Update |-> "new"]
        /\ by = [u \in Update |-> NoRecord]
        /\ want = [u \in Update |-> FALSE]
        /\ got = [u \in Update |-> Unset]
        /\ asked = [u \in Update |-> "new"]
-----------------------------------------------------------------------------
(* Processes.                                                                *)

Start(p) == /\ Birth(p)
            /\ pc' = [pc EXCEPT ![p] = "load"]
            /\ UNCHANGED <<files, lock, ready, read, cache, updates>>

\* its memory and threads are gone, and the kernel releases its flock
Die(p) == LET Own == {u \in Update : by[u] = p}
              Ended(f, end) == [u \in Update |-> IF u \in Own THEN end ELSE f[u]]
          IN  /\ Death(p)
              /\ pc' = [pc EXCEPT ![p] = "gone"]
              /\ ready' = [ready EXCEPT ![p] = FALSE]
              /\ cache' = [cache EXCEPT ![p] = Unset]
              /\ read' = [read EXCEPT ![p] = Unset]
              /\ lock' = IF lock \in Own THEN NoUpdate ELSE lock
              /\ at' = Ended(at, "over")
              /\ by' = Ended(by, NoRecord)
              /\ want' = Ended(want, FALSE)
              /\ got' = Ended(got, Unset)
              /\ asked' = Ended(asked, "ended")
              /\ UNCHANGED files

Wait(p) == Reap(p) /\ UNCHANGED <<files, lock, observer, cache, updates>>
-----------------------------------------------------------------------------
(* The observer: the sampler's publication in an API worker, the tick of the *)
(* controller.  There is one in each process.                                *)

\* FileVerboseControl(): the first read sets the cache, then it refreshes
Load(p) == /\ pc[p] = "load"
           /\ cache' = [cache EXCEPT ![p] = target]
           /\ pc' = [pc EXCEPT ![p] = "idle"]
           /\ UNCHANGED <<procVars, files, lock, ready, read, updates>>

\* refresh(): read_target(), observe() with the cache, then with the file
Refresh(p) == /\ pc[p] = "idle"
              /\ read' = [read EXCEPT ![p] = target]
              /\ pc' = [pc EXCEPT ![p] = "adopt"]
              /\ UNCHANGED <<procVars, files, lock, ready, cache, updates>>

AdoptAny(p) == /\ cache' = [cache EXCEPT ![p] = read[p]]   \* mutant: also an older state
               /\ UNCHANGED read
AdoptNewer(p) == IF read[p].revision >= cache[p].revision
                 THEN cache' = [cache EXCEPT ![p] = read[p]] /\ UNCHANGED read
                 ELSE read' = [read EXCEPT ![p] = cache[p]] /\ UNCHANGED cache
Adopt(p) == /\ pc[p] = "adopt"
            /\ AdoptNewer(p)
            /\ pc' = [pc EXCEPT ![p] = "report"]
            /\ UNCHANGED <<procVars, files, lock, ready, updates>>

ReportNews(p) ==   \* mutant: only what refresh() itself has found
    seen' = IF read[p].revision > cache[p].revision
            THEN [seen EXCEPT ![p] = [id |-> SelfIdentity(p), state |-> read[p]]] ELSE seen
ReportRead(p) == seen' = [seen EXCEPT ![p] = [id |-> SelfIdentity(p), state |-> read[p]]]
Report(p) == /\ pc[p] = "report"
             /\ ReportRead(p)
             /\ pc' = [pc EXCEPT ![p] = "idle"]
             /\ ready' = [ready EXCEPT ![p] = TRUE]
             /\ read' = [read EXCEPT ![p] = Unset]
             /\ UNCHANGED <<procVars, target, lock, cache, updates>>

\* refresh_warning(): an OSError of the write; one of the read changes nothing
ReportFails(p) == /\ pc[p] = "report" /\ ready[p]
                  /\ pc' = [pc EXCEPT ![p] = "idle"]
                  /\ read' = [read EXCEPT ![p] = Unset]
                  /\ UNCHANGED <<procVars, files, lock, ready, cache, updates>>
-----------------------------------------------------------------------------
(* update(enabled) on a thread, for a caller on the API loop.                *)

\* finish_file_update(): the thread starts, the caller awaits it
Ask(u, p, enabled) == /\ at[u] = "new" /\ ready[p]
                      /\ \A v \in 1..(u - 1) : at[v] # "new"
                      /\ at' = [at EXCEPT ![u] = "lock"]
                      /\ by' = [by EXCEPT ![u] = p]
                      /\ want' = [want EXCEPT ![u] = enabled]
                      /\ asked' = [asked EXCEPT ![u] = "waiting"]
                      /\ UNCHANGED <<procVars, files, lock, observer, cache, got>>

Goto(u, from, to) == at[u] = from /\ at' = [at EXCEPT ![u] = to]

Enter(u) == /\ Goto(u, "lock", "read")
            /\ lock = NoUpdate
            /\ lock' = u
            /\ UNCHANGED <<procVars, files, observer, cache, by, want, got, asked>>

ReadTarget(u) == /\ Goto(u, "read", "check")
                 /\ got' = [got EXCEPT ![u] = target]
                 /\ UNCHANGED <<procVars, files, lock, observer, cache, by, want, asked>>

\* "revision moved backwards"
Backwards(u) == got[u].revision < cache[by[u]].revision

\* what is wanted is already the target, or a new revision has to be written
Check(u) == /\ at[u] = "check" /\ ~Backwards(u)
            /\ IF want[u] = got[u].enabled
               THEN /\ at' = [at EXCEPT ![u] = "store"]
                    /\ UNCHANGED got
               ELSE /\ at' = [at EXCEPT ![u] = "write"]
                    /\ got' = [got EXCEPT ![u] = [enabled |-> want[u], revision |-> @.revision + 1]]
            /\ UNCHANGED <<procVars, files, lock, observer, cache, by, want, asked>>

WriteTarget(u) == /\ Goto(u, "write", "store")
                  /\ target' = got[u]
                  /\ UNCHANGED <<procVars, seen, lock, observer, cache, by, want, got, asked>>

\* the process adopts its own update, then the lock is released
Store(u) == /\ Goto(u, "store", "over")
            /\ cache' = [cache EXCEPT ![by[u]] = got[u]]
            /\ lock' = NoUpdate
            /\ got' = [got EXCEPT ![u] = Unset]
            /\ UNCHANGED <<procVars, files, observer, by, want, asked>>

\* OSError: the lock (Windows gives up after ten tries), the read, or the write
StoreOnFailure(u) == cache' = [cache EXCEPT ![by[u]] = got[u]]   \* mutant: stored before the write
KeepOnFailure(u) == UNCHANGED cache
LeaveOnFailure(u) == lock' = IF lock = u THEN NoUpdate ELSE lock
Fails(u) == /\ \/ at[u] \in {"lock", "read", "write"}
               \/ at[u] = "check" /\ Backwards(u)
            /\ at' = [at EXCEPT ![u] = "over"]
            /\ KeepOnFailure(u)
            /\ LeaveOnFailure(u)
            /\ got' = [got EXCEPT ![u] = Unset]
            /\ UNCHANGED <<procVars, files, observer, by, want, asked>>

\* finish_file_update() returns or raises: whether and how often its caller is cancelled
\* meanwhile, it waits for the thread, so that a cancellation leaves no trace until then
Through(u) == at[u] = "over"
Return(u) == /\ asked[u] = "waiting"
             /\ Through(u)
             /\ asked' = [asked EXCEPT ![u] = "ended"]
             /\ by' = [by EXCEPT ![u] = NoRecord]
             /\ want' = [want EXCEPT ![u] = FALSE]
             /\ UNCHANGED <<procVars, files, lock, observer, cache, at, got>>
-----------------------------------------------------------------------------
Kernel(p) == Start(p) \/ Die(p) \/ Wait(p)
Observe(p) == Load(p) \/ Refresh(p) \/ Adopt(p) \/ Report(p) \/ ReportFails(p)
Run(u) == Enter(u) \/ ReadTarget(u) \/ Check(u) \/ WriteTarget(u) \/ Store(u) \/ Fails(u)
Caller(u) == Return(u) \/ \E p \in Pid, enabled \in BOOLEAN : Ask(u, p, enabled)
Next == (\E p \in Pid : Kernel(p) \/ Observe(p)) \/ (\E u \in Update : Run(u) \/ Caller(u))
Spec == Init /\ [][Next]_vars

(* The threads that update() runs on proceed, and the observer's interval     *)
(* passes.  A report may fail, but not for ever.                              *)
FairSpec == /\ Spec
            /\ \A p \in Pid : /\ WF_vars(Load(p) \/ Refresh(p) \/ Adopt(p))
                              /\ SF_vars(Report(p))
            /\ WF_vars(\E u \in Update : Run(u))
-----------------------------------------------------------------------------
\* what status() reports: observations of processes that are there
Reported(p) == seen[p] # NoRecord /\ IsLive(seen[p].id)

(* No process caches or reports a state that is not yet, or will never be,   *)
(* the target; so update() never finds that the revision moved backwards,    *)
(* whatever failed before (control.py 94-104).                               *)
NothingAhead == /\ \A p \in Pid : /\ cache[p].revision <= target.revision
                                  /\ Reported(p) => seen[p].state.revision <= cache[p].revision
                /\ \A u \in Update : at[u] = "check" => ~Backwards(u)

(* The target, a process's cache and its report never go back to an earlier  *)
(* revision, so no accepted update is lost, however updates of several       *)
(* processes and threads, refreshes, failures and deaths meet (control.py:   *)
(* "without allowing a concurrent older refresh to roll back state").        *)
NeverBack == [][/\ target'.revision >= target.revision
                /\ \A p \in Pid : (ready[p] /\ ready'[p]) =>
                      /\ cache'[p].revision >= cache[p].revision
                      /\ seen'[p].state.revision >= seen[p].state.revision]_vars

\* What holds of the target, the caches and the updates at all times.
VerbosityInv == TypeOK /\ NothingAhead

(* When updates stop, every process of the service adopts the target and     *)
(* reports it, also one that has made the last update itself or was started  *)
(* meanwhile.                                                                *)
Converges == <>[](\A p \in Pid : ready[p] => /\ cache[p] = target
                                             /\ Reported(p) /\ seen[p].state = target)
=============================================================================
