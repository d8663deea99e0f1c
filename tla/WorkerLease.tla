---------------------------- MODULE WorkerLease ----------------------------
(* runtime/lease.py with file_lock and cleanup_stale: the processes of one   *)
(* service share the directory leases/ and the lock leases.lock.  A worker   *)
(* acquires the first number without a live owner, uses it and releases it;  *)
(* an exiting master removes what dead workers left behind.  A process may   *)
(* die between any two steps, its PID may be reused, and the lock and the    *)
(* files may raise OSError.                                                  *)
EXTENDS Processes

CONSTANTS IdLimit,    \* first number beyond the Snowflake range (code: 1024)
          NoPid       \* nobody holds the lock

ASSUME LeaseAssumption == IdLimit \in Nat /\ NoPid \notin Pid

WorkerId == 0..(IdLimit - 1)

VARIABLES lock,       \* who has flock(leases.lock)
          leases,     \* leases/<number>.json
          pc,         \* where each process is
          at,         \* the number a process looks at; then its lease.worker_id
          end,        \* worker_id_base + worker_id_count of its scan
          todo        \* files a cleanup has still to inspect
vars == <<status, born, lock, leases, pc, at, end, todo>>
local == <<at, end, todo>>

\* inside "with file_lock(leases.lock)"
Acquiring == {"scan", "write", "wrote", "full", "broken"}
Releasing == {"compare", "unlink", "removed", "kept"}
Cleaning == {"clean", "cleaned"}
Critical == Acquiring \cup Releasing \cup Cleaning

AfterLock == [wantAcquire |-> "scan", wantRelease |-> "compare", wantClean |-> "clean"]
AfterUnlock == [wrote |-> "held", full |-> "failed", broken |-> "failed",
                removed |-> "released", kept |-> "unreleased", cleaned |-> "idle"]

\* where an OSError takes a process: out of the call, or first out of the lock
AfterError == [wantAcquire |-> "failed", scan |-> "broken", write |-> "broken",
               wrote |-> "kept", wantRelease |-> "unreleased", compare |-> "kept",
               unlink |-> "kept", wantClean |-> "idle", clean |-> "cleaned"]

TypeOK == /\ ProcTypeOK
          /\ lock \in Pid \cup {NoPid}
          /\ leases \in [WorkerId -> Identity \cup {NoRecord}]
          /\ pc \in [Pid -> {"gone", "idle", "held", "failed", "released", "unreleased"}
                              \cup DOMAIN AfterLock \cup Critical]
          /\ at \in [Pid -> 0..IdLimit]
          /\ end \in [Pid -> 0..IdLimit]
          /\ todo \in [Pid -> SUBSET WorkerId]

Init == /\ ProcInit
        /\ lock = NoPid
        /\ leases = [i \in WorkerId |-> NoRecord]
        /\ pc = [p \in Pid |-> "gone"]
        /\ at = [p \in Pid |-> 0]
        /\ end = [p \in Pid |-> 0]
        /\ todo = [p \in Pid |-> {}]

Goto(p, from, to) == /\ pc[p] = from
                     /\ pc' = [pc EXCEPT ![p] = to]

Start(p) == Birth(p) /\ Goto(p, "gone", "idle") /\ UNCHANGED <<lock, leases, local>>

\* mutant: a lock file that outlives its holder, instead of a kernel lock
DieHoldingLock(p) == /\ Death(p)
                     /\ pc' = [pc EXCEPT ![p] = "gone"]
                     /\ at' = [at EXCEPT ![p] = 0]
                     /\ end' = [end EXCEPT ![p] = 0]
                     /\ todo' = [todo EXCEPT ![p] = {}]
                     /\ UNCHANGED <<leases, lock>>

\* a process may die anywhere; its memory is gone and the kernel releases its flock
Die(p) == /\ Death(p)
          /\ pc' = [pc EXCEPT ![p] = "gone"]
          /\ lock' = IF lock = p THEN NoPid ELSE lock
          /\ at' = [at EXCEPT ![p] = 0]
          /\ end' = [end EXCEPT ![p] = 0]
          /\ todo' = [todo EXCEPT ![p] = {}]
          /\ UNCHANGED leases

Wait(p) == Reap(p) /\ UNCHANGED <<lock, leases, pc, local>>
-----------------------------------------------------------------------------
Lock(p) == /\ pc[p] \in DOMAIN AfterLock
           /\ lock = NoPid
           /\ lock' = p
           /\ pc' = [pc EXCEPT ![p] = AfterLock[pc[p]]]
           /\ todo' = IF pc[p] = "wantClean"
                        THEN [todo EXCEPT ![p] = {i \in WorkerId : leases[i] # NoRecord}]
                        ELSE todo
           /\ UNCHANGED <<procVars, leases, at, end>>

Unlock(p) == /\ pc[p] \in DOMAIN AfterUnlock
             /\ lock' = NoPid
             /\ pc' = [pc EXCEPT ![p] = AfterUnlock[pc[p]]]
             /\ UNCHANGED <<procVars, leases, local>>

\* Opening or taking the lock, reading a record, replacing or removing a file, or
\* unlocking may raise OSError; leaving "with file_lock" closes the stream, which
\* frees the lock.  What the call has not done yet stays undone: after a failed
\* release, or a failed unlock behind the write, a live process has a file it does
\* not use, and no caller tries again (worker.py 178-184).
Fails(p) == /\ pc[p] \in DOMAIN AfterError
            /\ pc' = [pc EXCEPT ![p] = AfterError[pc[p]]]
            /\ todo' = [todo EXCEPT ![p] = {}]
            /\ UNCHANGED <<procVars, lock, leases, at, end>>

\* acquire(): the range is validated before anything is touched
ValidRange(base, count) == count >= 1 /\ base + count <= IdLimit

Acquire(p, base, count) ==
    /\ pc[p] \in {"idle", "released"}
    /\ IF ValidRange(base, count)
         THEN /\ pc' = [pc EXCEPT ![p] = "wantAcquire"]
              /\ at' = [at EXCEPT ![p] = base]
              /\ end' = [end EXCEPT ![p] = base + count]
         ELSE /\ pc' = [pc EXCEPT ![p] = "failed"]
              /\ UNCHANGED <<at, end>>
    /\ UNCHANGED <<procVars, lock, leases, todo>>

Pass(p) == /\ pc[p] = "scan"
           /\ at[p] < end[p]
           /\ IsLive(leases[at[p]])
           /\ at' = [at EXCEPT ![p] = @ + 1]
           /\ UNCHANGED <<procVars, lock, leases, pc, end, todo>>

Choose(p) == /\ at[p] < end[p]
             /\ ~IsLive(leases[at[p]])
             /\ Goto(p, "scan", "write")
             /\ UNCHANGED <<procVars, lock, leases, local>>

Exhaust(p) == /\ at[p] = end[p]
              /\ Goto(p, "scan", "full")
              /\ UNCHANGED <<procVars, lock, leases, local>>

\* atomic_write: os.replace publishes the whole record
Write(p) == /\ Goto(p, "write", "wrote")
            /\ leases' = [leases EXCEPT ![at[p]] = SelfIdentity(p)]
            /\ UNCHANGED <<procVars, lock, local>>
-----------------------------------------------------------------------------
\* release() is idempotent: it may be called again once it has returned
Release(p) == /\ pc[p] \in {"held", "released"}
              /\ pc' = [pc EXCEPT ![p] = "wantRelease"]
              /\ UNCHANGED <<procVars, lock, leases, local>>

\* mutant: release() removes the file whoever owns it
RemoveBlindly(p) == Goto(p, "compare", "unlink") /\ UNCHANGED <<procVars, lock, leases, local>>

Compare(p) == /\ Goto(p, "compare", IF leases[at[p]] = SelfIdentity(p)
                                      THEN "unlink" ELSE "removed")
              /\ UNCHANGED <<procVars, lock, leases, local>>

Unlink(p) == /\ Goto(p, "unlink", "removed")
             /\ leases' = [leases EXCEPT ![at[p]] = NoRecord]
             /\ UNCHANGED <<procVars, lock, local>>
-----------------------------------------------------------------------------
\* cleanup_stale, run by a master that leaves service_runtime
Clean(p) == Goto(p, "idle", "wantClean") /\ UNCHANGED <<procVars, lock, leases, local>>

\* mutant: cleanup removes every lease
InspectNothing(p) == /\ pc[p] = "clean"
                     /\ \E i \in todo[p] :
                           /\ leases' = [leases EXCEPT ![i] = NoRecord]
                           /\ todo' = [todo EXCEPT ![p] = @ \ {i}]
                     /\ UNCHANGED <<procVars, lock, pc, at, end>>

Inspect(p) == /\ pc[p] = "clean"
              /\ \E i \in todo[p] :
                    /\ leases' = [leases EXCEPT ![i] = IF IsLive(@) THEN @ ELSE NoRecord]
                    /\ todo' = [todo EXCEPT ![p] = @ \ {i}]
              /\ UNCHANGED <<procVars, lock, pc, at, end>>

Cleaned(p) == /\ todo[p] = {}
              /\ Goto(p, "clean", "cleaned")
              /\ UNCHANGED <<procVars, lock, leases, local>>
-----------------------------------------------------------------------------
Work(p) == \/ Unlock(p) \/ Pass(p) \/ Choose(p) \/ Exhaust(p) \/ Write(p)
           \/ Compare(p) \/ Unlink(p) \/ Inspect(p) \/ Cleaned(p)

Call(p) == \/ Release(p) \/ Clean(p)
           \/ \E base \in 0..IdLimit, count \in 0..IdLimit : Acquire(p, base, count)

Next == \E p \in Pid : \/ Start(p) \/ Die(p) \/ Wait(p)
                       \/ Lock(p) \/ Work(p) \/ Fails(p) \/ Call(p)

Spec == Init /\ [][Next]_vars

\* A process that runs code takes its steps; flock serves a waiter that keeps
\* finding the lock free.  Nothing is assumed of deaths, reaping, callers and errors.
FairSpec == Spec /\ \A p \in Pid : WF_vars(Work(p)) /\ SF_vars(Lock(p))
-----------------------------------------------------------------------------
\* worker p uses the number at[p] for Snowflake IDs
Uses(p) == pc[p] \in {"wrote", "held"}

\* p still has a file to remove, or could not remove it
Occupies(p) == Uses(p) \/ pc[p] \in {"wantRelease", "compare", "unlink",
                                     "kept", "unreleased"}

\* Files, lock and processes agree at every step, also between the steps of an
\* operation and after deaths: only the lock's holder is inside it; the file of
\* a used or not yet removed number names its worker; a file that names a live
\* process belongs to a worker that has not removed it or failed to; a number
\* chosen under the lock stays free until it is written (lease.py 48-64, state.py
\* 75-127).
LockExclusive == \A p \in Pid : (pc[p] \in Critical) <=> (lock = p)
LocalsAlive == \A p \in Pid : Running(p) <=> pc[p] # "gone"
NoFutureOwner == \A i \in WorkerId :
                    leases[i] # NoRecord => leases[i].created <= born[leases[i].pid]
OwnFile(p) == leases[at[p]] = SelfIdentity(p)
OwnersHaveFiles == \A p \in Pid : Uses(p) \/ pc[p] = "unlink" => OwnFile(p)
LeaseHasNumber == \A p \in Pid : Occupies(p) \/ pc[p] \in {"removed", "released"}
                                   => at[p] \in WorkerId
LiveFilesHaveOwners ==
    \A i \in WorkerId : IsLive(leases[i]) =>
        /\ Occupies(leases[i].pid)
        /\ at[leases[i].pid] = i
ChosenStaysFree ==
    \A p \in Pid : /\ pc[p] = "write" => at[p] \in WorkerId /\ ~IsLive(leases[at[p]])
                   /\ pc[p] \in {"wantAcquire", "scan"} => at[p] <= end[p]
Agreement == /\ LockExclusive
             /\ LocalsAlive
             /\ NoFutureOwner
             /\ OwnersHaveFiles
             /\ LeaseHasNumber
             /\ LiveFilesHaveOwners
             /\ ChosenStaysFree

\* Two workers never generate IDs with the same number, whatever dies, is
\* reused, released twice or cleaned up in between (lease.py 48-64).
UniqueNumber == \A p, q \in Pid : Uses(p) /\ Uses(q) /\ at[p] = at[q] => p = q

\* A scan passes a number only while some running process has it, is giving it
\* back, or got an OSError from doing so: a number of a dead worker is free at
\* once, also when its PID has a new process, and a failed release blocks it no
\* longer than its process runs (lease.py 49-51 with is_live), so "all IDs are
\* leased" is never said of dead owners.
PassesOnlyOccupied ==
    [][\A p \in Pid : pc[p] = "scan" /\ pc'[p] = "scan" /\ at'[p] # at[p]
          => \E q \in Pid : Occupies(q) /\ at[q] = at[p]]_vars

\* The processes implement the pool: Users[i] is who uses number i.
Users == [i \in WorkerId |-> {SelfIdentity(p) : p \in {q \in Pid : Uses(q) /\ at[q] = i}}]
Pool == INSTANCE LeasePool WITH Client <- Identity, user <- Users

\* Every step of the processes is a claim of a free number by a process that
\* has none, the end of its use, or a stutter of the pool (lease.py 48-64).
ImplementsPool == Pool!PoolSpec

\* Whoever calls acquire() gets a number, an exception or dies: a process that
\* dies inside the lock blocks nobody (file_lock 116-127).
AcquireReturns ==
    \A p \in Pid : pc[p] = "wantAcquire" ~> pc[p] \in {"held", "failed", "unreleased", "gone"}
=============================================================================
