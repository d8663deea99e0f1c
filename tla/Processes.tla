----------------------------- MODULE Processes -----------------------------
(* The operating-system process table as runtime/state.py sees it through    *)
(* psutil.  A PID is a slot: the process in it is running, a zombie its      *)
(* parent has not reaped, or absent.  The kernel gives a reaped PID to a new *)
(* process, which has a later creation time, so a persisted record names one *)
(* exact process by its PID and creation time together.                      *)
EXTENDS Naturals

CONSTANTS Pid,        \* the PIDs the kernel hands out
          MaxBirths,  \* bound: how many processes may use one PID in turn
          NoRecord    \* what read_state returns for an absent file: {}

Identity == [pid : Pid, created : 1..MaxBirths]

ASSUME ProcessAssumption == /\ MaxBirths \in Nat
                            /\ NoRecord \notin Identity

VARIABLES status,     \* [Pid -> "free" | "running" | "zombie"]
          born        \* creation time of the last process that had the PID
procVars == <<status, born>>

ProcTypeOK == /\ status \in [Pid -> {"free", "running", "zombie"}]
              /\ born \in [Pid -> 0..MaxBirths]
              /\ \A p \in Pid : status[p] # "free" => born[p] >= 1

ProcInit == /\ status = [p \in Pid |-> "free"]
            /\ born = [p \in Pid |-> 0]

Running(p) == status[p] = "running"

\* process_identity(), called by the process that has PID p
SelfIdentity(p) == [pid |-> p, created |-> born[p]]

\* mutant: the PID alone identifies a process
PidExists(record) == record # NoRecord /\ Running(record.pid)

\* is_live(record): the exact process exists and is not a zombie
IsLive(record) == /\ record # NoRecord
                  /\ born[record.pid] = record.created
                  /\ Running(record.pid)

\* the kernel starts a process in a free PID slot
Birth(p) == /\ status[p] = "free"
            /\ born[p] < MaxBirths
            /\ status' = [status EXCEPT ![p] = "running"]
            /\ born' = [born EXCEPT ![p] = @ + 1]

\* the process ends (return, exception, signal or kill) and awaits its parent
Death(p) == /\ Running(p)
            /\ status' = [status EXCEPT ![p] = "zombie"]
            /\ UNCHANGED born

\* the parent waits for it: from now on the PID can be reused
Reap(p) == /\ status[p] = "zombie"
           /\ status' = [status EXCEPT ![p] = "free"]
           /\ UNCHANGED born
=============================================================================
