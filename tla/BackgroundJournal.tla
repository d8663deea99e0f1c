------------------------- MODULE BackgroundJournal -------------------------
(* background/journal.py and ControllerLog.background_tick and retire: each  *)
(* API worker appends its events to background/<pid>.jsonl, a file no lock   *)
(* protects; the controller, in the master, tails these files, removes those *)
(* of dead processes, and kills a worker whose retirement deadline is over.  *)
(* A worker may die at any step and the kernel may reuse its PID, for a      *)
(* later worker or for a process that is none of the service's.              *)
EXTENDS Processes, Sequences, FiniteSets, SequencesExt, FiniteSetsExt

CONSTANT Garbage   \* a line that json.loads rejects

\* An API worker's journal has three events: "background initializing",
\* "background stopping" with a deadline, "background retired".  Their sequence
\* numbers are 1, 2 and 3; more of the first kind would be treated alike.
Stopping == 2
Retired == 3
Event == Identity \X (1..Retired)

ASSUME JournalAssumption == Pid \subseteq Nat /\ IsFiniteSet(Pid) /\ Garbage \notin Event

VARIABLES workers,    \* the processes that are API workers of this start
          written,    \* the events of each that flush() has appended
          file, tail, \* the lines of each journal, and an unfinished last one
          ctl, todo,  \* the step of background_tick, the paths still to read
          offset, identities, stopping,    \* BackgroundEvents
          retirements,                     \* ControllerLog: state of each clock
          late,       \* processes among stopping whose deadline is over
          stopped,    \* the whole service stops: no worker starts any more
          events,     \* what read() has collected
          condemned,  \* the expired records still to terminate
          heard,      \* history: the last event logged of each process
          asked       \* history: workers retire() was called for
producer == <<workers, written>>
lists == <<stopping, retirements, late>>
vars == <<status, born, producer, file, tail, ctl, todo, offset, identities, lists,
          stopped, events, condemned, heard, asked>>

TypeOK == /\ ProcTypeOK
          /\ workers \subseteq Identity
          /\ written \in [Identity -> 0..Retired]
          /\ file \in [Pid -> Seq(Event \cup {Garbage})]
          /\ tail \in [Pid -> Event \cup {NoRecord}]
          /\ ctl \in {"idle", "read", "check", "expire", "kill"}
          /\ todo \subseteq Pid
          /\ offset \in [Pid -> Nat]
          /\ \A p \in Pid : offset[p] <= Len(file[p])
          /\ identities \in [Pid -> Identity \cup {NoRecord}]
          /\ stopping \in [Pid -> Identity \cup {NoRecord}]
          /\ retirements \in [Identity -> {"none", "armed", "over"}]
          /\ late \subseteq {stopping[p] : p \in Pid}
          /\ stopped \in BOOLEAN
          /\ events \in Seq(Event)
          /\ condemned \subseteq Identity
          /\ heard \in [Identity -> 0..Retired]
          /\ asked \subseteq Identity

Init == /\ ProcInit
        /\ workers = {}
        /\ written = [i \in Identity |-> 0]
        /\ file = [p \in Pid |-> <<>>]
        /\ tail = [p \in Pid |-> NoRecord]
        /\ ctl = "idle" /\ todo = {} /\ events = <<>> /\ condemned = {}
        /\ offset = [p \in Pid |-> 0]
        /\ identities = [p \in Pid |-> NoRecord]
        /\ stopping = [p \in Pid |-> NoRecord]
        /\ retirements = [i \in Identity |-> "none"]
        /\ late = {} /\ stopped = FALSE
        /\ heard = [i \in Identity |-> 0]
        /\ asked = {}
-----------------------------------------------------------------------------
(* Processes.  The master, one thread, starts and reaps workers between two  *)
(* ticks; other processes of the machine come and go at any time.            *)

rest == <<file, tail, ctl, todo, offset, identities, lists, stopped, events,
          condemned, heard, asked>>
LiveWorkers == {i \in workers : IsLive(i)}

Spawn(p) == /\ ctl = "idle" /\ ~stopped
            /\ Birth(p)
            /\ workers' = workers \cup {[pid |-> p, created |-> born'[p]]}
            /\ UNCHANGED <<written, rest>>

Foreign(p) == Birth(p) /\ UNCHANGED <<producer, rest>>

Wait(p) == /\ SelfIdentity(p) \in workers => ctl = "idle"
           /\ Reap(p)
           /\ UNCHANGED <<producer, rest>>

Die(p) == Death(p) /\ UNCHANGED <<producer, rest>>
-----------------------------------------------------------------------------
(* A worker.  When it emits an event is its own affair: the controller knows *)
(* of those that the pump has written.                                       *)

\* flush() takes the events out of the queue and appends their lines.  A reader
\* or a death may come between two lines, or inside one; what is appended to
\* the unfinished line of a dead worker completes a wrong line.  An OSError ends
\* publication: such a worker is one that never takes this step again.
Line(i, n) == IF tail[i.pid] \in {NoRecord, <<i, n>>} THEN <<i, n>> ELSE Garbage
Flush(i) ==
    LET n == written[i] + 1 IN
    /\ i \in LiveWorkers
    /\ n <= Retired
    /\ \/ /\ file' = [file EXCEPT ![i.pid] = Append(@, Line(i, n))]
          /\ tail' = [tail EXCEPT ![i.pid] = NoRecord]
          /\ written' = [written EXCEPT ![i] = n]
       \/ /\ tail[i.pid] = NoRecord
          /\ tail' = [tail EXCEPT ![i.pid] = <<i, n>>]
          /\ UNCHANGED <<file, written>>
    /\ UNCHANGED <<status, born, workers, ctl, todo, offset, identities, lists,
                   stopped, events, condemned, heard, asked>>
-----------------------------------------------------------------------------
(* The controller.                                                           *)

ctlRest == <<status, born, producer, stopped, asked>>

\* mutant: every request starts a new clock
Rearm(W) == [i \in Identity |-> IF i \in W THEN "armed" ELSE retirements[i]]

\* retire(): setdefault, for a reload target or, when the service stops, for
\* all workers that have published an observation
Arm(W) == [i \in Identity |-> IF i \in W /\ retirements[i] = "none" THEN "armed"
                                                                   ELSE retirements[i]]
Retire == /\ ctl = "idle"
          /\ \E W \in SUBSET LiveWorkers :
                /\ retirements' = Arm(W)
                /\ asked' = asked \cup W
                /\ \/ Cardinality(W) = 1 /\ UNCHANGED stopped
                   \/ stopped' = TRUE
          /\ UNCHANGED <<status, born, producer, file, tail, ctl, todo, offset, identities,
                         stopping, late, events, condemned, heard>>

\* time: a retirement clock, or the deadline a stopping event announced
ClockPasses(i) == /\ retirements[i] = "armed"
                  /\ retirements' = [retirements EXCEPT ![i] = "over"]
                  /\ UNCHANGED <<ctlRest, file, tail, ctl, todo, offset, identities, stopping,
                                 late, events, condemned, heard>>
DeadlinePasses(i) == /\ stopping[i.pid] = i
                     /\ late' = late \cup {i}
                     /\ UNCHANGED <<ctlRest, file, tail, ctl, todo, offset, identities, stopping,
                                    retirements, events, condemned, heard>>

Tick == /\ ctl = "idle"
        /\ ctl' = "read"
        /\ todo' = {p \in Pid : file[p] # <<>> \/ tail[p] # NoRecord}
        /\ UNCHANGED <<ctlRest, file, tail, offset, identities, lists, events, condemned, heard>>

\* the first path that is left, of sorted(glob)
Path == Min(todo)
\* mutant: the offset stays where it was
NotAdvanced(p) == offset
Advanced(p) == [offset EXCEPT ![p] = @ + 1]
\* mutant: "retired" leaves the process among the stopping ones
OnlyDeadlines(record, was) == IF record[2] = Stopping THEN record[1] ELSE was
\* mutant: every record marks its process
AnyRecord(record, was) == record[1]
\* self.stopping[pid] after this record
Marked(record, was) == CASE record[2] < Stopping -> was
                         [] record[2] = Stopping -> record[1]
                         [] record[2] = Retired -> NoRecord

\* read() takes a complete line, or skips a wrong one ...
ReadLine == LET p == Path
                line == file[p][offset[p] + 1] IN
    /\ ctl = "read" /\ todo # {}
    /\ offset[p] < Len(file[p])
    /\ offset' = Advanced(p)
    /\ \/ line = Garbage /\ UNCHANGED <<identities, stopping, late, events>>
       \/ /\ line # Garbage
          /\ identities' = [identities EXCEPT ![p] = line[1]]
          /\ stopping' = [stopping EXCEPT ![p] = Marked(line, @)]
          /\ late' = late \cap {stopping'[q] : q \in Pid}
          /\ events' = Append(events, line)
    /\ UNCHANGED <<ctlRest, file, tail, ctl, todo, retirements, condemned, heard>>

\* ... until it is at the end of the journal
EndOfFile == /\ ctl = "read" /\ todo # {}
             /\ offset[Path] = Len(file[Path])
             /\ ctl' = "check"
             /\ UNCHANGED <<ctlRest, file, tail, todo, offset, identities, lists, events,
                            condemned, heard>>

ReadDone == /\ ctl = "read" /\ todo = {}
            /\ ctl' = "expire"
            /\ UNCHANGED <<ctlRest, file, tail, todo, offset, identities, lists, events,
                           condemned, heard>>

\* mutant: the end of the journal is the end of the process
Consumed(p) == identities[p] # NoRecord
\* "if last is not None and not is_live(last)": remove the journal of p
Finished(p) == identities[p] # NoRecord /\ ~IsLive(identities[p])
Dropped(p) == [offset EXCEPT ![p] = 0]
Check == LET p == Path IN
    /\ ctl = "check"
    /\ ctl' = "read"
    /\ todo' = todo \ {p}
    /\ IF Finished(p)
       THEN /\ file' = [file EXCEPT ![p] = <<>>]
            /\ tail' = [tail EXCEPT ![p] = NoRecord]
            /\ offset' = Dropped(p)
            /\ identities' = [identities EXCEPT ![p] = NoRecord]
       ELSE UNCHANGED <<file, tail, offset, identities>>
    /\ UNCHANGED <<ctlRest, lists, events, condemned, heard>>

\* an OSError, of a read or of the removal, ends read(): what was collected is
\* dropped, although the offsets have moved on
ReadFails == /\ todo # {}
             /\ ctl = "read" \/ (ctl = "check" /\ Finished(Path))
             /\ events' = <<>>
             /\ ctl' = "expire"
             /\ UNCHANGED <<ctlRest, file, tail, todo, offset, identities, lists, condemned, heard>>

Announced == {stopping[p] : p \in Pid} \ {NoRecord}
\* mutant: announced deadlines count in the final sweep only
OverdueForced(force) == {i \in Announced : IsLive(i) /\ force}
Overdue(force) == {i \in Announced : IsLive(i) /\ (force \/ i \in late)}

\* expired() and the retirement clocks, then the log: a live process whose
\* time is over is condemned, and the lists keep neither it nor a dead one
Expire == \E force \in {FALSE, stopped} :
    LET clocked == {i \in Identity : retirements[i] # "none"}
        waiting(i) == IsLive(i) /\ ~force
        logged(i) == {e[2] : e \in {x \in ToSet(events) : x[1] = i}}
    IN  /\ ctl = "expire"
        /\ condemned' = Overdue(force) \cup {i \in clocked : IsLive(i) /\ (force \/ retirements[i] = "over")}
        /\ stopping' = [p \in Pid |-> IF stopping[p] \in Announced \ late /\ waiting(stopping[p])
                                      THEN stopping[p] ELSE NoRecord]
        /\ late' = {}
        /\ retirements' = [i \in Identity |-> IF retirements[i] = "armed" /\ waiting(i)
                                              THEN "armed" ELSE "none"]
        /\ heard' = [i \in Identity |-> Max(logged(i) \cup {heard[i]})]
        /\ events' = <<>>
        /\ todo' = {}
        /\ ctl' = "kill"
        /\ UNCHANGED <<ctlRest, file, tail, offset, identities>>

\* terminate_background_process() reads the creation time again
SameProcess(i) == Running(i.pid) /\ SelfIdentity(i.pid) = i
Kill == /\ ctl = "kill"
        /\ \/ /\ condemned = {}
              /\ ctl' = "idle"
              /\ UNCHANGED <<status, condemned>>
           \/ \E i \in condemned :
                /\ condemned' = condemned \ {i}
                /\ status' = IF SameProcess(i) THEN [status EXCEPT ![i.pid] = "zombie"] ELSE status
                /\ UNCHANGED ctl
        /\ UNCHANGED <<born, producer, file, tail, todo, offset, identities, lists, stopped,
                       events, heard, asked>>
-----------------------------------------------------------------------------
Controller == Tick \/ ReadLine \/ EndOfFile \/ ReadFails \/ ReadDone \/ Check \/ Expire \/ Kill

Next == \/ Controller \/ Retire
        \/ \E p \in Pid : Spawn(p) \/ Foreign(p) \/ Wait(p) \/ Die(p)
        \/ \E i \in Identity : Flush(i) \/ DeadlinePasses(i) \/ ClockPasses(i)

Spec == Init /\ [][Next]_vars

\* The native manager keeps calling the tick, also while it waits for workers
\* to exit, and time passes.  Nothing is assumed of the workers, nor that a
\* journal can ever be read.
FairSpec == /\ Spec /\ WF_vars(Controller)
            /\ \A i \in Identity : WF_vars(DeadlinePasses(i)) /\ WF_vars(ClockPasses(i))
-----------------------------------------------------------------------------
\* Every event is logged at most once and in the order its worker emitted it,
\* across removed journals, reused PIDs and failed reads (journal.py 83-109).
LoggedInOrder == \A k \in DOMAIN events : LET i == events[k][1] IN
    /\ events[k][2] > heard[i]
    /\ \A j \in 1..(k - 1) : events[j][1] = i => events[j][2] < events[k][2]

\* the events a step removes with their journal, unread
Removed(p) == IF file[p] # <<>> /\ file'[p] = <<>>
              THEN {file[p][k] : k \in (offset[p] + 1)..Len(file[p])} \ {Garbage} ELSE {}
Heir(i) == \E w \in workers : w.pid = i.pid /\ w.created < i.created

\* No journal is removed with an unread event of a worker that is still there,
\* unless it writes into what a dead worker with its PID left (journal.py 104-108).
KeptWhileLive == [][\A p \in Pid : \A e \in Removed(p) : ~IsLive(e[1]) \/ Heir(e[1])]_vars

\* Only a worker that said it was stopping, or that the controller was asked to
\* retire, is ever killed: no process that merely has its PID, and no worker
\* that replaced it (journal.py 111-138, controller.py 83-98).
KillsOnlyRetiring == [][\A p \in Pid :
    (Kill /\ status'[p] # status[p]) => \/ SelfIdentity(p) \in asked
                                        \/ written[SelfIdentity(p)] >= Stopping]_vars

\* A worker whose retirement has been logged is not stopping any more: its
\* announced deadline cannot kill it (journal.py 99-103).
RetiredIsNotStopping == \A p \in Pid : stopping[p] # NoRecord => heard[stopping[p]] < Retired

\* What holds of workers, journals and the controller's lists at all times.
JournalInv == TypeOK /\ RetiredIsNotStopping

\* A worker asked to retire ends, with a journal that is broken at either end,
\* and however often it is asked (controller.py 100-115,
\* docs/background-workers.md 148-153).
RetirementEnds == \A i \in Identity : retirements[i] # "none" ~> ~IsLive(i)

\* A worker that announced its stop in its journal ends or retires, if the
\* journals can all be read again and again (journal.py 99-124).
AnnouncementEnds == []<><<ReadDone>>_vars => \A i \in Identity :
    (written[i] = Stopping /\ ~Heir(i)) ~> ~IsLive(i) \/ written[i] = Retired
=============================================================================
