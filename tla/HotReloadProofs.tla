--------------------------- MODULE HotReloadProofs ---------------------------
(* Hot reload loses no change, retires nobody but the worker it has observed, *)
(* and gives way to a shutdown.                                              *)
EXTENDS HotReload, TLAPS

\* TypeOK in parts: flags, versions, records, places.
Flags == batch \in BOOLEAN /\ shutdown \in BOOLEAN /\ told \in BOOLEAN /\ pending \in BOOLEAN
Versions == /\ source \in 0..MaxEdits /\ version \in [Pid -> 0..MaxEdits]
            /\ origin \in 0..NotYet
RecordsTyped == /\ workers \in [Pid -> Identity \cup {NoRecord}]
                /\ {reload, seen, retiring} \subseteq Identity \cup {NoRecord}
                /\ accepted \subseteq Identity
                /\ clock \in [Identity -> {"none", "armed", "over"}]
Places == /\ platform \in {"linux", "windows"}
          /\ pc \in [Pid -> {"gone", "foreign", "boot", "imported", "work", "leave", "left"}]
          /\ master \in {"wait", "overdue", "tick", "poll", "observe", "clock", "deliver", "signal",
                         "retired", "stop", "terminate", "join", "out"}

\* tick() between the choice of a worker and the end of its retirement
Retirement == {"clock", "deliver", "signal", "retired"}
Ending == {"stop", "terminate", "join", "out"}

\* A record names no process to come.
Past(i) == i # NoRecord => i.created <= born[i.pid]

\* A PID's slot and the process in it agree, and there is one worker at a time.
Slots == /\ \A p \in Pid : pc[p] = "gone" <=> status[p] = "free"
         /\ \A p, q \in Children : p = q

\* An observation is of the worker that has published it.
Records == /\ Past(seen) /\ Past(retiring) /\ Past(reload)
           /\ \A p \in Pid : workers[p] # NoRecord =>
                /\ workers[p].pid = p /\ workers[p].created <= born[p]
                /\ Running(p) /\ workers[p] = Own(p) => pc[p] \in {"work", "leave"}

\* Whom tick() retires is the worker, until the master waits for it, and nobody
\* but that worker can accept a shutdown meanwhile.
Observed == /\ master \in Retirement =>
                 /\ seen # NoRecord /\ Own(seen.pid) = seen
                 /\ pc[seen.pid] \in {"work", "leave", "left"}
                 /\ retiring = NoRecord
                 /\ shutdown => seen \in accepted
            /\ master \in {"deliver", "signal", "retired"} => clock[seen] # "none"
            /\ master = "observe" => ~IsLive(retiring)

\* A retirement ends when the worker has its marker, or its signal.
Sent == /\ master = "signal" => platform # "windows"
        /\ master = "retired" => IF platform = "windows" THEN reload = seen
                                 ELSE ~(Running(seen.pid) /\ pc[seen.pid] = "work")

\* The marker names the worker that is being retired, or nobody that lives.
Marked == IsLive(reload) => \/ reload = retiring
                            \/ reload = seen /\ master \in {"retired"} \cup Ending

\* NoChangeLost also for a worker that has imported and not published yet.
Current == \A p \in Pid :
    Running(p) /\ pc[p] \in {"imported", "work"} /\ version[p] < source /\ Reported /\ ~Stopping =>
        batch \/ pending \/ (pc[p] = "work" /\ BeingRetired(p))

IInv == TypeOK /\ Slots /\ Records /\ Observed /\ Sent /\ Marked /\ Current
-----------------------------------------------------------------------------
LEMMA TypeParts == TypeOK <=> /\ ProcTypeOK /\ Flags /\ Versions /\ RecordsTyped /\ Places
  BY DEF TypeOK, Flags, Versions, RecordsTyped, Places, WorkerPc, Starting, Tick

\* A running process has an identity, which is no absent record.
LEMMA SelfType == ASSUME ProcTypeOK, NEW p \in Pid, status[p] # "free"
                  PROVE  Own(p) \in Identity /\ Own(p) # NoRecord /\ Own(p).pid = p
<1>1. born[p] \in 1..MaxBirths
  BY ProcessAssumption DEF ProcTypeOK
<1> QED
  BY <1>1, ProcessAssumption DEF Own, SelfIdentity, Identity

LEMMA ProcStep == ASSUME ProcTypeOK, [Next]_vars PROVE ProcTypeOK'
<1> USE DEF ProcTypeOK, workerRest, kernelRest
<1>1. ASSUME NEW p \in Pid, Spawn(p) \/ Foreign(p) PROVE ProcTypeOK'
  BY <1>1, ProcessAssumption DEF Spawn, Foreign, Birth
<1>2. ASSUME NEW p \in Pid, Wait(p) \/ Die(p) \/ BootFails(p) PROVE ProcTypeOK'
  BY <1>2 DEF Wait, Reap, Die, BootFails, Death, Running
<1>3. ASSUME UNCHANGED born, NEW D \in SUBSET Pid, \A p \in D : Running(p),
             status' = [p \in Pid |-> IF p \in D THEN "zombie" ELSE status[p]]
      PROVE  ProcTypeOK'
  BY <1>3 DEF Running
<1>4. CASE KillExpired
  <2> DEFINE D == {p \in Pid : Own(p) \in Expired}
  <2>1. ASSUME NEW p \in D PROVE Running(p)
    BY <2>1 DEF Expired, IsLive, Own, SelfIdentity, Running
  <2>2. UNCHANGED born /\ status' = [p \in Pid |-> IF p \in D THEN "zombie" ELSE status[p]]
    BY <1>4 DEF KillExpired
  <2> QED
    BY <1>3, <2>1, <2>2
<1>5. CASE Sweep
  BY <1>3, <1>5, {p \in Children : Running(p)} \in SUBSET Pid DEF Sweep, Children
<1>6. CASE UNCHANGED procVars
  BY <1>6 DEF procVars
<1>7. CASE Signal \/ Terminate
  <2>1. CASE UNCHANGED <<status, born>>
    BY <2>1
  <2>2. ASSUME NEW P, Hit(P), UNCHANGED born PROVE ProcTypeOK'
    <3> DEFINE D == {p \in Pid : p \in P /\ Running(p) /\ pc[p] = "foreign"}
    <3>1. status' = [p \in Pid |-> IF p \in D THEN "zombie" ELSE status[p]]
      BY <2>2 DEF Hit
    <3> QED
      BY <1>3, <2>2, <3>1
  <2> QED
    BY <1>7, <2>1, <2>2 DEF Signal, Terminate, Children
<1> QED
  BY <1>1, <1>2, <1>4, <1>5, <1>6, <1>7
  DEF Next, Worker, Import, Publish, Accept, Obey, Unpublish, Tell, Interrupt, Edit, ClockPasses,
      Master, Turn, Overdue, Begin, WatchStarts, Poll, Observe, ArmClock, Deliver, Retired,
      TickFails, RetireAll, Join, Out, vars, procVars

LEMMA FlagsStep == ASSUME Flags, [Next]_vars PROVE Flags'
<1> USE DEF Flags, Watching, workerRest, kernelRest, marks, watcher
<1>1. ASSUME NEW p \in Pid, Spawn(p) \/ Foreign(p) \/ Wait(p) \/ Die(p) \/ Worker(p) PROVE Flags'
  BY <1>1 DEF Spawn, Foreign, Wait, Die, Worker, Import, BootFails, Publish, Accept, Obey,
      Unpublish
<1>2. CASE Tell \/ Interrupt \/ Edit \/ TickFails \/ \E i \in Identity : ClockPasses(i)
  BY <1>2 DEF Tell, Interrupt, Edit, TickFails, ClockPasses
<1>3. CASE Master
  BY <1>3 DEF Master, Turn, Overdue, KillExpired, Begin, WatchStarts, Poll, Accumulated, Observe,
     ArmClock, Deliver, Signal, Retired, RetireAll, Terminate, Join, Sweep, Out
<1>4. CASE UNCHANGED vars
  BY <1>4 DEF vars
<1> QED
  BY <1>1, <1>2, <1>3, <1>4 DEF Next

LEMMA VersionsStep == ASSUME Versions, [Next]_vars PROVE Versions'
<1> USE DEF Versions, workerRest, kernelRest, masterRest, locals
<1>1. ASSUME NEW p \in Pid, Wait(p) \/ Import(p) PROVE Versions'
  BY <1>1, ReloadAssumption DEF Wait, Import
<1>2. CASE Edit \/ WatchStarts
  BY <1>2, ReloadAssumption DEF Edit, WatchStarts, NotYet
<1>3. CASE UNCHANGED <<source, origin, version>>
  BY <1>3
<1> QED
  BY <1>1, <1>2, <1>3
  DEF Next, Spawn, Foreign, Die, Worker, BootFails, Publish, Accept, Obey, Unpublish, Tell,
      Interrupt, TickFails, ClockPasses, Master, Turn, Overdue, KillExpired, Begin, WatchStarts,
      Poll, Observe, ArmClock, Deliver, Signal, Retired, RetireAll, Terminate, Join, Sweep, Out,
      vars

LEMMA PlacesStep == ASSUME Places, [Next]_vars PROVE Places'
<1> USE DEF Places, workerRest, kernelRest, masterRest, locals
<1>1. ASSUME NEW p \in Pid, Spawn(p) \/ Foreign(p) \/ Wait(p) \/ Die(p) \/ Worker(p) PROVE Places'
  BY <1>1 DEF Spawn, Foreign, Wait, Die, Worker, Import, BootFails, Publish, Accept, Obey,
              Unpublish, Goto
<1>2. CASE Tell \/ Interrupt \/ Edit \/ TickFails \/ \E i \in Identity : ClockPasses(i)
  BY <1>2 DEF Tell, Interrupt, Edit, TickFails, ClockPasses
<1>3. CASE Turn \/ Overdue \/ Begin \/ WatchStarts \/ Poll \/ Observe \/ ArmClock
            \/ Deliver
  BY <1>3 DEF Turn, Overdue, KillExpired, Begin, WatchStarts, Poll, Observe, ArmClock, Deliver,
      Loop
<1>4. CASE Signal \/ Retired \/ RetireAll \/ Terminate \/ Join \/ Sweep \/ Out
  BY <1>4 DEF Signal, Retired, RetireAll, Terminate, Join, KillExpired, Sweep, Out, Loop, Hit
<1>5. CASE UNCHANGED vars
  BY <1>5 DEF vars
<1> QED
  BY <1>1, <1>2, <1>3, <1>4, <1>5 DEF Next, Master

LEMMA RecordsTypedStep == ASSUME TypeOK, Slots, [Next]_vars PROVE RecordsTyped'
<1> USE DEF RecordsTyped, workerRest, kernelRest, masterRest, locals, marks, watcher
<1>0. ProcTypeOK /\ RecordsTyped
  BY TypeParts
<1>1. ASSUME NEW p \in Pid, Publish(p) \/ Accept(p) \/ Unpublish(p) PROVE RecordsTyped'
  <2>1. Own(p) \in Identity
    BY <1>0, <1>1, SelfType DEF Publish, Accept, Unpublish, Running
  <2> QED
    BY <1>0, <1>1, <2>1 DEF Publish, Accept, Unpublish
<1>2. ASSUME NEW p \in Pid, Spawn(p) \/ Foreign(p) \/ Wait(p) \/ Die(p) \/ Import(p) \/ BootFails(p)
                            \/ Obey(p)
      PROVE  RecordsTyped'
  BY <1>0, <1>2 DEF Spawn, Foreign, Wait, Die, Import, BootFails, Obey
<1>3. CASE Tell \/ Interrupt \/ Edit \/ TickFails \/ \E i \in Identity : ClockPasses(i)
  BY <1>0, <1>3 DEF Tell, Interrupt, Edit, TickFails, ClockPasses
<1>4. CASE Turn \/ Overdue \/ Begin \/ WatchStarts \/ Poll \/ ArmClock \/ Deliver
  BY <1>0, <1>4 DEF Turn, Overdue, KillExpired, Begin, WatchStarts, Poll, ArmClock, Armed, Deliver
<1>5. CASE Observe
  <2>1. LiveWorkers \subseteq Identity
    BY <1>0 DEF LiveWorkers, IsLive
  <2>2. seen' \in Identity \cup {NoRecord} /\ retiring' \in {retiring, NoRecord}
    BY <1>0, <1>5, <2>1 DEF Observe, Record
  <2>3. UNCHANGED <<workers, reload, accepted, clock>>
    BY <1>5 DEF Observe
  <2> QED
    BY <1>0, <2>2, <2>3
<1>6. CASE Signal \/ Retired \/ RetireAll \/ Terminate \/ Join \/ Sweep \/ Out
  BY <1>0, <1>6 DEF Signal, Retired, RetireAll, Armed, Terminate, Join, KillExpired, Sweep, Out
<1>7. CASE UNCHANGED vars
  BY <1>0, <1>7 DEF vars
<1> QED
  BY <1>1, <1>2, <1>3, <1>4, <1>5, <1>6, <1>7 DEF Next, Master, Worker

LEMMA TypeStep == ASSUME TypeOK, Slots, [Next]_vars PROVE TypeOK'
<1>1. ProcTypeOK' /\ Flags' /\ Versions' /\ RecordsTyped' /\ Places'
  BY TypeParts, ProcStep, FlagsStep, VersionsStep, RecordsTypedStep, PlacesStep
<1>2. (ProcTypeOK /\ Flags /\ Versions /\ RecordsTyped /\ Places)' => TypeOK'
  BY DEF TypeOK, Flags, Versions, RecordsTyped, Places, WorkerPc, Starting, Tick
<1> QED
  BY <1>1, <1>2
-----------------------------------------------------------------------------
\* A step that gives no PID to a new process, and takes none from an ended one:
\* a process may end, and a worker gets on.
Settled == /\ born' = born
           /\ \A p \in Pid : /\ status'[p] = status[p] \/ (Running(p) /\ status'[p] = "zombie")
                             /\ pc'[p] = pc[p] \/ {pc[p], pc'[p]} \subseteq WorkerPc

\* Who changes what: the process table, ...
LEMMA KernelFrame == ASSUME TypeOK, [Next]_vars
                     PROVE  Settled \/ \E p \in Pid : Spawn(p) \/ Wait(p) \/ Foreign(p)
<1> USE DEF workerRest, kernelRest, masterRest, locals, WorkerPc, Starting
<1>0. ProcTypeOK /\ Places
  BY TypeParts
<1>1. ASSUME NEW p \in Pid, Worker(p) \/ Die(p) PROVE Settled
  BY <1>0, <1>1 DEF Settled, ProcTypeOK, Places, Worker, Import, BootFails, Publish, Accept, Obey,
     Unpublish, Die, Death, Running, Goto
<1>2. CASE KillExpired \/ Sweep
  <2>1. born' = born /\ pc' = pc
    BY <1>2 DEF KillExpired, Sweep
  <2>2. \A p \in Pid : status'[p] = status[p] \/ (Running(p) /\ status'[p] = "zombie")
    BY <1>2 DEF KillExpired, Sweep, Running, Expired, IsLive, Own, SelfIdentity
  <2> QED
    BY <2>1, <2>2 DEF Settled
<1>3. CASE UNCHANGED <<status, born, pc>>
  BY <1>3 DEF Settled
<1>4. ASSUME NEW P, Hit(P), born' = born PROVE Settled
  BY <1>4 DEF Settled, Hit, Running
<1> QED
  BY <1>1, <1>2, <1>3, <1>4
  DEF Next, Master, Turn, Overdue, Join, Begin, WatchStarts, Poll, Observe, ArmClock, Deliver,
      Signal, Retired, RetireAll, Terminate, Out, TickFails, Tell, Interrupt, Edit, ClockPasses,
      vars

LEMMA PlaceFrame ==
  ASSUME TypeOK, [Next]_vars, NEW p \in Pid, pc'[p] # pc[p]
  PROVE  \/ Spawn(p) \/ Wait(p) \/ Foreign(p) \/ Import(p) \/ Publish(p) \/ Unpublish(p)
         \/ pc'[p] = "leave"
<1> USE DEF workerRest, kernelRest, masterRest, locals
<1>0. Places
  BY TypeParts
<1>1. ASSUME NEW q \in Pid, Spawn(q) \/ Wait(q) \/ Foreign(q) \/ Import(q) \/ Publish(q)
                            \/ Unpublish(q)
      PROVE  q = p
  BY <1>0, <1>1 DEF Spawn, Wait, Foreign, Import, Publish, Unpublish, Goto, Places
<1>2. ASSUME NEW q \in Pid, Obey(q) PROVE pc'[p] = "leave"
  BY <1>0, <1>2 DEF Obey, Goto, Places
<1>3. ASSUME NEW P, Hit(P) PROVE pc'[p] = "leave"
  BY <1>3 DEF Hit
<1>4. ASSUME NEW q \in Pid PROVE ~(BootFails(q) \/ Accept(q) \/ Die(q))
  BY DEF BootFails, Accept, Die
<1>5. ~(Tell \/ Interrupt \/ Edit \/ TickFails) /\ \A i \in Identity : ~ClockPasses(i)
  BY DEF Tell, Interrupt, Edit, TickFails, ClockPasses
<1>6. CASE Master
  BY <1>3, <1>6 DEF Master, Turn, Overdue, Join, KillExpired, Begin, WatchStarts, Poll, Observe,
     ArmClock, Deliver, Signal, Retired, RetireAll, Terminate, Sweep, Out
<1>7. pc' # pc
  OBVIOUS
<1> QED
  BY <1>1, <1>2, <1>4, <1>5, <1>6, <1>7 DEF Next, Worker, vars

\* ... the marks, the clocks and the watcher, ...
LEMMA WatchFrame ==
  ASSUME [Next]_vars
  PROVE  /\ UNCHANGED <<seen, retiring>> \/ Observe \/ Retired
         /\ UNCHANGED reload \/ Deliver
         /\ \/ UNCHANGED clock \/ ArmClock \/ RetireAll
            \/ KillExpired /\ master \in {"overdue", "join"}
            \/ \E i \in Identity : ClockPasses(i)
         /\ UNCHANGED master \/ Master \/ TickFails
         /\ UNCHANGED platform
<1> USE DEF workerRest, kernelRest, masterRest, locals, marks, watcher, Loop
<1>1. ASSUME NEW p \in Pid, Spawn(p) \/ Foreign(p) \/ Wait(p) \/ Die(p) \/ Worker(p)
      PROVE  UNCHANGED <<seen, retiring, reload, clock, master, platform>>
  BY <1>1 DEF Spawn, Foreign, Wait, Die, Worker, Import, BootFails, Publish, Accept, Obey,
      Unpublish
<1>2. CASE Tell \/ Interrupt \/ Edit \/ \E i \in Identity : ClockPasses(i)
  BY <1>2 DEF Tell, Interrupt, Edit, ClockPasses
<1>3. CASE TickFails \/ Master
  BY <1>3 DEF TickFails, Master, Turn, Overdue, Join, KillExpired, Begin, WatchStarts, Poll,
              Observe, ArmClock, Deliver, Signal, Retired, RetireAll, Terminate, Sweep, Out
<1>4. CASE UNCHANGED vars
  BY <1>4 DEF vars
<1> QED
  BY <1>1, <1>2, <1>3, <1>4 DEF Next

\* ... the source and what is known of its changes, and a stop, which is for good.
LEMMA ChangeFrame ==
  ASSUME [Next]_vars
  PROVE  /\ UNCHANGED pending \/ Poll \/ Retired
         /\ UNCHANGED batch \/ Poll \/ Edit
         /\ UNCHANGED source \/ Edit
         /\ UNCHANGED origin \/ WatchStarts
         /\ UNCHANGED version \/ \E p \in Pid : Wait(p) \/ Import(p)
         /\ UNCHANGED workers \/ \E p \in Pid : Publish(p) \/ Unpublish(p)
         /\ \/ UNCHANGED <<shutdown, accepted>> \/ Terminate
            \/ \E p \in Pid : Accept(p)
         /\ Stopping => Stopping'
<1> USE DEF workerRest, kernelRest, masterRest, locals, marks, watcher, Loop, Stopping
<1>1. ASSUME NEW p \in Pid, Spawn(p) \/ Foreign(p) \/ Wait(p) \/ Die(p) \/ Worker(p)
      PROVE  /\ UNCHANGED <<pending, batch, source, origin, master>>
             /\ UNCHANGED version \/ Wait(p) \/ Import(p)
             /\ UNCHANGED workers \/ Publish(p) \/ Unpublish(p)
             /\ UNCHANGED <<shutdown, accepted>> \/ Accept(p)
             /\ Stopping => Stopping'
  BY <1>1 DEF Spawn, Foreign, Wait, Die, Worker, Import, BootFails, Publish, Accept, Obey,
      Unpublish
<1>2. CASE Tell \/ Interrupt \/ Edit \/ \E i \in Identity : ClockPasses(i)
  BY <1>2 DEF Tell, Interrupt, Edit, ClockPasses
<1>3. CASE TickFails \/ Master
  BY <1>3 DEF TickFails, Master, Turn, Overdue, Join, KillExpired, Begin, WatchStarts, Poll,
              Observe, ArmClock, Deliver, Signal, Retired, RetireAll, Terminate, Sweep, Out
<1>4. CASE UNCHANGED vars
  BY <1>4 DEF vars
<1> QED
  BY <1>1, <1>2, <1>3, <1>4 DEF Next
-----------------------------------------------------------------------------
LEMMA SlotsStep == ASSUME TypeOK, Slots, [Next]_vars PROVE Slots'
<1> USE DEF Slots, Children
<1>0. ProcTypeOK /\ Places
  BY TypeParts
<1>1. CASE Settled
  <2>1. \A p \in Pid : /\ pc'[p] = "gone" <=> pc[p] = "gone"
                       /\ status'[p] = "free" <=> status[p] = "free"
                       /\ pc'[p] \in WorkerPc => pc[p] \in WorkerPc
    BY <1>1 DEF Settled, WorkerPc, Starting, Running
  <2> QED
    BY <2>1
<1>2. ASSUME NEW p \in Pid, Spawn(p) \/ Foreign(p) \/ Wait(p) PROVE Slots'
  BY <1>0, <1>2 DEF Spawn, Foreign, Wait, Birth, Reap, Goto, ProcTypeOK, Places, WorkerPc,
      Starting
<1> QED
  BY <1>1, <1>2, KernelFrame

\* A record of the past stays one, and its process does not come back.
LEMMA PastKept == ASSUME TypeOK, [Next]_vars,
                         NEW i \in Identity \cup {NoRecord}, Past(i)
                  PROVE  /\ i # NoRecord => i.created <= born'[i.pid]
                         /\ IsLive(i)' => IsLive(i)
<1>0. ProcTypeOK
  BY TypeParts
<1>1. i # NoRecord => i \in Identity /\ i.pid \in Pid /\ i.created \in 1..MaxBirths
  BY DEF Identity
<1>2. CASE Settled
  BY <1>0, <1>1, <1>2 DEF Settled, Past, IsLive, Running
<1>3. ASSUME NEW p \in Pid, Spawn(p) \/ Foreign(p) \/ Wait(p)
      PROVE  /\ i # NoRecord => i.created <= born'[i.pid]
             /\ IsLive(i)' => IsLive(i)
  BY <1>0, <1>1, <1>3, ProcessAssumption
  DEF Spawn, Foreign, Wait, Birth, Reap, ProcTypeOK, Past, IsLive, Running
<1> QED
  BY <1>2, <1>3, KernelFrame

\* Who is observed lives, and it is a worker that has published.
LEMMA Published == ASSUME TypeOK, Records, NEW i \in LiveWorkers
                   PROVE  /\ i \in Identity /\ IsLive(i) /\ Own(i.pid) = i
                          /\ pc[i.pid] \in {"work", "leave"}
<1>1. PICK p \in Pid : i = workers[p] /\ IsLive(workers[p])
  BY DEF LiveWorkers
<1>2. i \in Identity /\ i.pid = p /\ Running(p) /\ born[p] = i.created
  BY <1>1, TypeParts DEF RecordsTyped, IsLive, Records
<1>3. Own(p) = i
  BY <1>2 DEF Own, SelfIdentity, Identity
<1> QED
  BY <1>1, <1>2, <1>3 DEF Records, IsLive

LEMMA RecordsStep == ASSUME TypeOK, Slots, Records, [Next]_vars PROVE Records'
<1>0. ProcTypeOK /\ RecordsTyped /\ Places
  BY TypeParts
<1>1. Past(seen)' /\ Past(retiring)'
  <2>1. CASE UNCHANGED <<seen, retiring>>
    BY <1>0, <2>1, PastKept DEF Records, RecordsTyped, Past
  <2>2. CASE Observe
    <3>1. born' = born /\ retiring' \in {retiring, NoRecord}
      BY <2>2 DEF Observe
    <3>2. seen' = seen \/ seen' \in LiveWorkers
      BY <2>2 DEF Observe, Record
    <3>3. \A i \in LiveWorkers : i.created <= born[i.pid]
      BY Published, <1>0 DEF IsLive, ProcTypeOK, Identity
    <3> QED
      BY <3>1, <3>2, <3>3 DEF Records, Past
  <2>3. CASE Retired
    BY <2>3 DEF Retired, Records, Past
  <2> QED
    BY <2>1, <2>2, <2>3, WatchFrame
<1>2. Past(reload)'
  <2>1. CASE UNCHANGED reload
    BY <1>0, <2>1, PastKept DEF Records, RecordsTyped, Past
  <2>2. CASE Deliver
    BY <2>2 DEF Deliver, Records, Past
  <2> QED
    BY <2>1, <2>2, WatchFrame
<1>3. ASSUME NEW p \in Pid, workers'[p] # NoRecord
      PROVE  /\ workers'[p].pid = p /\ workers'[p].created <= born'[p]
             /\ (Running(p) /\ workers[p] = Own(p))' => pc'[p] \in {"work", "leave"}
  <2>1. CASE UNCHANGED workers /\ \A q \in Pid : ~Unpublish(q)
    <3>1. /\ workers[p].pid = p /\ workers[p] \in Identity
          /\ workers[p].created \in Nat /\ workers[p].created <= born[p]
          /\ Running(p) /\ workers[p] = Own(p) => pc[p] \in {"work", "leave"}
      BY <1>0, <1>3, <2>1 DEF Records, RecordsTyped, Identity
    <3>2. workers'[p].created <= born'[p]
      BY <1>0, <1>3, <2>1, <3>1, PastKept DEF Past
    <3>3. ASSUME (Running(p) /\ workers[p] = Own(p))' PROVE pc'[p] \in {"work", "leave"}
      <4>1. Running(p) /\ workers[p] = Own(p)
        <5> DEFINE i == workers[p]
        <5>1. i \in Identity /\ i # NoRecord /\ i.pid = p /\ Past(i)
          BY <1>3, <2>1, <3>1 DEF Past
        <5>2. IsLive(i)'
          BY <2>1, <3>3, <5>1 DEF IsLive, Own, SelfIdentity, Running
        <5>3. i # NoRecord /\ born'[i.pid] = i.created /\ status'[i.pid] = "running" => IsLive(i)
          BY <5>1, PastKept DEF IsLive, Running
        <5>4. IsLive(i)
          BY <2>1, <5>2, <5>3 DEF IsLive, Running
        <5> QED
          BY <5>1, <5>4 DEF IsLive, Own, SelfIdentity, Identity
      <4>2. pc[p] \in {"work", "leave"}
        BY <3>1, <4>1
      <4>3. CASE pc'[p] # pc[p]
        BY <2>1, <3>3, <4>1, <4>2, <4>3, PlaceFrame
        DEF Spawn, Wait, Foreign, Birth, Reap, Goto, Import, Running, Publish
      <4> QED
        BY <4>2, <4>3
    <3> QED
      BY <2>1, <3>1, <3>2, <3>3
  <2>2. ASSUME NEW q \in Pid, Publish(q) \/ Unpublish(q)
        PROVE  /\ workers'[p].pid = p /\ workers'[p].created <= born'[p]
               /\ (Running(p) /\ workers[p] = Own(p))' => pc'[p] \in {"work", "leave"}
    BY <1>0, <1>3, <2>2
    DEF Publish, Unpublish, workerRest, Goto, Own, SelfIdentity, Running, Records, RecordsTyped,
        ProcTypeOK, Places
  <2> QED
    BY <2>1, <2>2, ChangeFrame DEF Unpublish
<1> QED
  BY <1>1, <1>2, <1>3 DEF Records
-----------------------------------------------------------------------------
\* Meanwhile the master waits for nobody: who is retired stays in its slot.
LEMMA Kept == ASSUME TypeOK, Slots, Observed, [Next]_vars, master \in Retirement
              PROVE  /\ seen \in Identity /\ seen.pid \in Pid
                     /\ born'[seen.pid] = born[seen.pid]
                     /\ pc'[seen.pid] \in {"work", "leave", "left"}
                     /\ pc'[seen.pid] = "work" => pc[seen.pid] = "work"
                     /\ status'[seen.pid] = "running" => Running(seen.pid)
<1>0. ProcTypeOK /\ RecordsTyped /\ Places
  BY TypeParts
<1>1. seen \in Identity /\ seen.pid \in Pid
  BY <1>0 DEF Observed, RecordsTyped, Identity
<1>2. pc[seen.pid] \in {"work", "leave", "left"} /\ status[seen.pid] # "free"
  BY <1>1 DEF Observed, Slots
<1>3. CASE Settled
  <2>1. /\ born'[seen.pid] = born[seen.pid]
        /\ status'[seen.pid] = "running" => Running(seen.pid)
    BY <1>1, <1>3 DEF Settled, Running
  <2>2. ASSUME pc'[seen.pid] # pc[seen.pid] PROVE pc'[seen.pid] \in {"leave", "left"}
    <3> DEFINE p == seen.pid
    <3>1. \/ Spawn(p) \/ Wait(p) \/ Foreign(p) \/ Import(p) \/ Publish(p) \/ Unpublish(p)
          \/ pc'[p] = "leave"
      BY <1>1, <2>2, PlaceFrame
    <3>2. ~(Spawn(p) \/ Wait(p) \/ Foreign(p) \/ Import(p) \/ Publish(p))
      BY <1>2 DEF Spawn, Wait, MayReap, Retirement, Foreign, Import, Publish, Goto
    <3> QED
      BY <1>0, <1>1, <3>1, <3>2 DEF Unpublish, Goto, Places
  <2> QED
    BY <1>1, <1>2, <2>1, <2>2
<1>4. ASSUME NEW p \in Pid, Spawn(p) \/ Wait(p) \/ Foreign(p)
      PROVE  p # seen.pid
  BY <1>0, <1>1, <1>2, <1>4 DEF Spawn, Wait, MayReap, Foreign, Goto, Birth, Retirement
<1>5. ASSUME NEW p \in Pid, Spawn(p) \/ Wait(p) \/ Foreign(p)
      PROVE  born'[seen.pid] = born[seen.pid] /\ pc'[seen.pid] = pc[seen.pid]
             /\ status'[seen.pid] = status[seen.pid]
  BY <1>0, <1>1, <1>4, <1>5
  DEF Spawn, Wait, Foreign, Goto, Birth, Reap, ProcTypeOK, Places, kernelRest
<1> QED
  BY <1>1, <1>2, <1>3, <1>5, KernelFrame DEF Running

\* How a retirement begins, and how it goes on.
LEMMA Turns == ASSUME [Next]_vars, master' \in Retirement
               PROVE  \/ Observe /\ master' = "clock"
                      \/ /\ master \in Retirement
                         /\ UNCHANGED <<seen, retiring>>
                         /\ \/ UNCHANGED master
                            \/ ArmClock /\ master' = "deliver"
                            \/ Deliver /\ master' = "signal" /\ platform # "windows"
                            \/ Deliver /\ master' = "retired" /\ platform = "windows"
                            \/ Signal /\ master' = "retired"
<1>1. CASE UNCHANGED master
  BY <1>1, WatchFrame DEF Retirement, Observe, Retired, Loop
<1>2. CASE Master
  <2>1. Observe \/ ArmClock \/ Deliver \/ Signal
    BY <1>2 DEF Master, Turn, Overdue, KillExpired, Begin, WatchStarts, Poll, Retired, RetireAll,
       Terminate, Join, Sweep, Out, Loop, Retirement
  <2> QED
    BY <2>1 DEF Observe, ArmClock, Deliver, Signal, Loop, Retirement, watcher
<1>3. ~TickFails
  BY DEF TickFails, Retirement
<1> QED
  BY <1>1, <1>2, <1>3, WatchFrame

LEMMA ObservedStep == ASSUME TypeOK, Slots, Records, Observed, [Next]_vars PROVE Observed'
<1>0. ProcTypeOK /\ RecordsTyped /\ Places
  BY TypeParts
<1>1. ASSUME master' \in Retirement
      PROVE  /\ seen' # NoRecord /\ Own(seen.pid)' = seen'
             /\ pc'[seen'.pid] \in {"work", "leave", "left"}
             /\ retiring' = NoRecord
             /\ shutdown' => seen' \in accepted'
  <2>1. CASE Observe /\ master' = "clock"
    <3>1. seen' \in LiveWorkers /\ retiring' = NoRecord /\ ~shutdown
          /\ UNCHANGED <<status, born, pc, shutdown, accepted>>
      BY <2>1 DEF Observe, Record, ShutdownRequested, marks, masterRest
    <3>2. seen' \in Identity /\ Own(seen'.pid) = seen' /\ pc[seen'.pid] \in {"work", "leave"}
      BY <3>1, Published
    <3> QED
      BY <3>1, <3>2, ProcessAssumption DEF Own, SelfIdentity
  <2>2. CASE master \in Retirement /\ UNCHANGED <<seen, retiring>>
    <3>1. /\ seen # NoRecord /\ Own(seen.pid) = seen /\ retiring = NoRecord
          /\ pc[seen.pid] \in {"work", "leave", "left"}
          /\ shutdown => seen \in accepted
      BY <2>2 DEF Observed
    <3>2. /\ seen.pid \in Pid /\ born'[seen.pid] = born[seen.pid]
          /\ pc'[seen.pid] \in {"work", "leave", "left"}
      BY <2>2, Kept
    <3>3. shutdown' => seen \in accepted'
      <4>1. ASSUME NEW p \in Pid, Accept(p) PROVE seen \in accepted'
        <5>1. p \in Children /\ seen.pid \in Children
          BY <3>1, <3>2, <4>1 DEF Accept, Children, WorkerPc, Starting
        <5> QED
          BY <3>1, <4>1, <5>1 DEF Accept, Slots
      <4>2. ~Terminate
        BY <2>2 DEF Terminate, Loop, Retirement
      <4> QED
        BY <3>1, <4>1, <4>2, ChangeFrame
    <3> QED
      BY <2>2, <3>1, <3>2, <3>3 DEF Own, SelfIdentity
  <2> QED
    BY <1>1, <2>1, <2>2, Turns
<1>2. ASSUME master' \in {"deliver", "signal", "retired"} PROVE clock'[seen'] # "none"
  <2>1. master' \in Retirement /\ master' # "clock"
    BY <1>2 DEF Retirement
  <2>2. /\ master \in Retirement /\ UNCHANGED seen
        /\ ArmClock \/ master \in {"deliver", "signal", "retired"}
    BY <1>2, <2>1, Turns DEF ArmClock, Deliver, Signal, Loop
  <2>3. seen \in Identity
    BY <2>2, Kept
  <2>4. CASE ArmClock
    BY <1>0, <2>2, <2>3, <2>4 DEF ArmClock, Armed, RecordsTyped
  <2>5. CASE master \in {"deliver", "signal", "retired"}
    <3>1. clock[seen] # "none"
      BY <2>5 DEF Observed
    <3>2. ~RetireAll
      BY <2>5 DEF RetireAll, Loop
    <3>3. ASSUME NEW i \in Identity, ClockPasses(i) PROVE clock'[seen] # "none"
      BY <1>0, <2>3, <3>1, <3>3 DEF ClockPasses, RecordsTyped
    <3> QED
      BY <2>2, <2>4, <2>5, <3>1, <3>2, <3>3, WatchFrame
  <2> QED
    BY <2>2, <2>4, <2>5
<1>3. ASSUME master' = "observe" PROVE ~IsLive(retiring)'
  <2>1. ~IsLive(retiring) /\ retiring' = retiring
    <3>1. CASE master = "observe"
      BY <1>3, <3>1, WatchFrame DEF Observed, Observe, Retired, Loop
    <3>2. CASE Poll
      BY <1>3, <3>2 DEF Poll, Loop
    <3>3. CASE Master
      BY <1>3, <3>2, <3>3
      DEF Master, Turn, Overdue, Begin, WatchStarts, Observe, ArmClock, Deliver, Signal, Retired,
          RetireAll, Terminate, Join, Sweep, Out, Loop
    <3> QED
      BY <1>3, <3>1, <3>3, WatchFrame DEF TickFails
  <2> QED
    BY <1>0, <2>1, PastKept DEF Records, RecordsTyped, IsLive, Running
<1> QED
  BY <1>1, <1>2, <1>3 DEF Observed

LEMMA SentStep == ASSUME TypeOK, Slots, Observed, Sent, [Next]_vars PROVE Sent'
<1>1. ASSUME master' = "signal" PROVE platform' # "windows"
  BY <1>1, Turns, WatchFrame DEF Sent, Retirement, Observe
<1>2. ASSUME master' = "retired"
      PROVE  IF platform' = "windows" THEN reload' = seen'
             ELSE ~(Running(seen.pid)' /\ pc'[seen'.pid] = "work")
  <2>1. /\ master \in Retirement /\ UNCHANGED <<seen, platform>>
        /\ master = "retired" \/ (Deliver /\ platform = "windows") \/ Signal
    BY <1>2, Turns, WatchFrame DEF Retirement, ArmClock, Loop
  <2>2. CASE master = "retired"
    <3>1. UNCHANGED reload
      BY <2>2, WatchFrame DEF Deliver
    <3> QED
      BY <2>1, <2>2, <3>1, Kept DEF Sent, Running
  <2>3. CASE Deliver /\ platform = "windows"
    BY <2>1, <2>3 DEF Deliver
  <2>4. CASE Signal
    <3>1. seen.pid \in Pid /\ platform' # "windows"
      BY <2>1, <2>4, Kept DEF Signal, Sent
    <3> QED
      BY <2>1, <2>4, <3>1, Kept DEF Signal, Hit, Running, WorkerPc, Starting
  <2> QED
    BY <2>1, <2>2, <2>3, <2>4
<1> QED
  BY <1>1, <1>2 DEF Sent

LEMMA MarkedStep == ASSUME TypeOK, Slots, Records, Observed, Marked, [Next]_vars PROVE Marked'
<1>0. RecordsTyped
  BY TypeParts
<1> SUFFICES ASSUME IsLive(reload)'
             PROVE  \/ reload' = retiring'
                    \/ reload' = seen' /\ master' \in {"retired"} \cup Ending
  BY DEF Marked
<1>1. CASE UNCHANGED reload
  <2>1. IsLive(reload)
    BY <1>0, <1>1, PastKept DEF Records, RecordsTyped, IsLive, Running
  <2>2. reload = retiring \/ (reload = seen /\ master \in {"retired"} \cup Ending)
    BY <2>1 DEF Marked
  <2>3. CASE Observe
    BY <1>1, <2>1, <2>2, <2>3 DEF Observe, Observed, Ending
  <2>4. CASE Retired
    <3>1. retiring = NoRecord
      BY <2>4 DEF Retired, Loop, Observed, Retirement
    <3> QED
      BY <1>1, <2>1, <2>2, <2>4, <3>1 DEF Retired, IsLive
  <2>5. CASE UNCHANGED <<seen, retiring>> /\ ~Retired
    <3>1. master \in {"retired"} \cup Ending => master' \in {"retired"} \cup Ending
      BY <2>5, WatchFrame
      DEF Ending, TickFails, Master, Turn, Overdue, Begin, WatchStarts, Poll, Observe, ArmClock,
          Deliver, Signal, RetireAll, Terminate, Join, Sweep, Out, Loop
    <3> QED
      BY <1>1, <2>2, <2>5, <3>1
  <2> QED
    BY <2>3, <2>4, <2>5, WatchFrame
<1>2. CASE Deliver /\ ~UNCHANGED reload
  BY <1>2 DEF Deliver, watcher
<1> QED
  BY <1>1, <1>2, WatchFrame

LEMMA CurrentStep ==
  ASSUME TypeOK, Slots, Records, Observed, Sent, Current, [Next]_vars
  PROVE  Current'
<1>0. ProcTypeOK /\ RecordsTyped /\ Versions /\ Places
  BY TypeParts
<1> SUFFICES ASSUME NEW p \in Pid,
                    Running(p)', pc'[p] \in {"imported", "work"}, version'[p] < source', Reported',
                    ~Stopping'
             PROVE  batch' \/ pending' \/ (pc'[p] = "work" /\ BeingRetired(p)')
  BY DEF Current
<1>1. CASE Edit
  <2>1. origin # NotYet
    BY <1>0, <1>1, ReloadAssumption DEF Edit, Reported, NotYet, Versions
  <2> QED
    BY <1>1, <2>1 DEF Edit, Watching
<1>2. UNCHANGED source \/ Edit
  BY ChangeFrame
<1>3. ~Stopping
  BY ChangeFrame
<1>6. CASE WatchStarts
  BY <1>0, <1>6 DEF WatchStarts, Reported, Versions
<1>7. UNCHANGED source /\ ~WatchStarts => Reported
  BY ChangeFrame DEF Reported
<1>4. (~Import(p) /\ ~Wait(p) /\ ~Spawn(p) /\ ~Foreign(p)) \/ Edit
  BY <1>0, <1>2 DEF Import, Wait, Reap, Spawn, Foreign, Goto, Running, ProcTypeOK, Places,
      Versions
<1>5. CASE UNCHANGED source /\ ~WatchStarts /\ ~Import(p) /\ ~Wait(p) /\ ~Spawn(p) /\ ~Foreign(p)
  <2>1. /\ Running(p) /\ born'[p] = born[p]
        /\ pc[p] \in {"imported", "work"} /\ (pc[p] = "work" => pc'[p] = "work")
        /\ version'[p] = version[p]
    <3>1. version'[p] = version[p]
      BY <1>0, <1>5, ChangeFrame DEF Wait, Import, Versions
    <3>2. Running(p) /\ born'[p] = born[p]
      BY <1>0, <1>5, KernelFrame
      DEF Settled, Spawn, Wait, Foreign, Birth, Reap, ProcTypeOK, Running
    <3>3. pc[p] \in {"imported", "work"} /\ (pc[p] = "work" => pc'[p] = "work")
      BY <1>0, <1>5, PlaceFrame DEF Publish, Unpublish, Goto, Places
    <3> QED
      BY <3>1, <3>2, <3>3
  <2>2. batch \/ pending \/ (pc[p] = "work" /\ BeingRetired(p))
    BY <1>3, <1>5, <1>7, <2>1 DEF Current
  <2>3. CASE Retired
    <3>1. /\ master = "retired" /\ retiring' = seen
          /\ UNCHANGED <<pc, clock, reload, platform>>
      BY <2>3 DEF Retired, Loop, marks, masterRest
    <3>2. /\ Own(seen.pid) = seen /\ pc[seen.pid] \in {"work", "leave", "left"}
          /\ clock[seen] # "none" /\ seen \in Identity
      BY <1>0, <3>1 DEF Observed, Retirement, RecordsTyped
    <3>3. seen.pid = p
      BY <2>1, <3>2 DEF Slots, Children, WorkerPc, Starting, Identity
    <3>4. pc[p] = "work" /\ platform = "windows" /\ reload = seen
      BY <2>1, <3>1, <3>2, <3>3 DEF Sent
    <3>5. Own(p)' = seen
      BY <2>1, <3>2, <3>3 DEF Own, SelfIdentity
    <3> QED
      BY <3>1, <3>2, <3>4, <3>5 DEF BeingRetired
  <2>4. CASE Poll
    BY <2>1, <2>2, <2>4 DEF Poll, Accumulated, BeingRetired, marks, masterRest, Own, SelfIdentity
  <2>5. CASE ~Retired /\ ~Poll /\ (batch \/ pending)
    BY <1>1, <2>5, ChangeFrame
  <2>6. CASE ~Retired /\ pc[p] = "work" /\ BeingRetired(p)
    <3> DEFINE i == Own(p)
    <3>1. i \in Identity /\ IsLive(i) /\ retiring = i /\ i # NoRecord
      BY <1>0, <2>1, <2>6, SelfType DEF IsLive, Own, SelfIdentity, BeingRetired, Running
    <3>2. UNCHANGED retiring
      BY <2>6, <3>1, WatchFrame DEF Observe, Observed
    <3>3. UNCHANGED reload
      <4>1. ~Deliver
        BY <3>1 DEF Deliver, Observed, Retirement
      <4> QED
        BY <4>1, WatchFrame
    <3>4. clock'[i] # "none"
      <4>1. clock[i] # "none"
        BY <2>6 DEF BeingRetired
      <4>2. CASE ArmClock \/ RetireAll
        BY <1>0, <3>1, <4>1, <4>2 DEF ArmClock, RetireAll, Armed, RecordsTyped
      <4>3. CASE KillExpired
        <5>1. i \notin Expired
          BY <1>0, <4>3 DEF KillExpired, ProcTypeOK, Running
        <5> QED
          BY <3>1, <4>1, <4>3, <5>1 DEF KillExpired
      <4>4. ASSUME NEW j \in Identity, ClockPasses(j) PROVE clock'[i] # "none"
        BY <1>0, <3>1, <4>1, <4>4 DEF ClockPasses, RecordsTyped
      <4> QED
        BY <4>1, <4>2, <4>3, <4>4, WatchFrame
    <3>5. Own(p)' = i
      BY <2>1 DEF Own, SelfIdentity
    <3> QED
      BY <2>1, <2>6, <3>1, <3>2, <3>3, <3>4, <3>5, WatchFrame DEF BeingRetired
  <2> QED
    BY <2>2, <2>3, <2>4, <2>5, <2>6
<1> QED
  BY <1>1, <1>2, <1>4, <1>5, <1>6
-----------------------------------------------------------------------------
LEMMA Start == Init => IInv
<1> SUFFICES ASSUME Init PROVE IInv
  OBVIOUS
<1>1. TypeOK
  <2>1. ProcTypeOK
    BY ProcessAssumption DEF Init, ProcInit, ProcTypeOK
  <2>2. Flags /\ Places
    BY DEF Init, Flags, Places
  <2>3. Versions
    BY ReloadAssumption DEF Init, Versions, NotYet
  <2>4. RecordsTyped
    BY DEF Init, RecordsTyped
  <2> QED
    BY <2>1, <2>2, <2>3, <2>4, TypeParts
<1>2. Slots /\ Records
  BY DEF Init, ProcInit, Slots, Children, WorkerPc, Starting, Records, Past
<1>3. Observed /\ Sent /\ Marked
  BY DEF Init, Observed, Retirement, Sent, Marked, IsLive
<1>4. Current
  BY DEF Init, Current
<1> QED
  BY <1>1, <1>2, <1>3, <1>4 DEF IInv

LEMMA Invariance == Spec => []IInv
<1>1. IInv /\ [Next]_vars => IInv'
  BY TypeStep, SlotsStep, RecordsStep, ObservedStep, SentStep, MarkedStep, CurrentStep DEF IInv
<1> QED
  BY <1>1, Start, PTL DEF Spec

\* No change that was made after the watch began is lost: whenever it came, a worker
\* that serves older code is being retired, or something asks for it yet (reload.py
\* 84-115).
THEOREM Reloading == Spec => []ReloadInv
<1>1. IInv => ReloadInv
  BY DEF IInv, ReloadInv, Current, NoChangeLost
<1> QED
  BY <1>1, Invariance, PTL

\* Only the process that was observed as the worker is sent away, never one that
\* has its PID, or a later worker (reload.py 101-110, worker.py 127-135).
THEOREM OnlyTheObserved == Spec => RetiresObserved
<1> DEFINE Aimed == \A p \in Pid : SentAway(p) => Own(p) \in {seen, retiring}
<1>1. IInv /\ [Next]_vars => [Aimed]_vars
  <2> SUFFICES ASSUME IInv, NEW p \in Pid, SentAway(p) PROVE Own(p) \in {seen, retiring}
    OBVIOUS
  <2>0. ProcTypeOK /\ Places
    BY TypeParts DEF IInv
  <2>1. CASE Signal /\ (pc'[p] # pc[p] \/ status'[p] # status[p])
    <3>1. p = seen.pid
      BY <2>0, <2>1 DEF Signal, Hit, ProcTypeOK, Places
    <3>2. Own(seen.pid) = seen
      BY <2>1 DEF IInv, Signal, Observed, Retirement
    <3> QED
      BY <3>1, <3>2
  <2>2. CASE Obey(p) /\ ~shutdown
    <3>1. reload = Own(p) /\ Running(p)
      BY <2>2 DEF Obey, MeantFor
    <3>2. IsLive(reload)
      BY <2>0, <3>1, SelfType DEF IsLive, Own, SelfIdentity, Running
    <3> QED
      BY <3>1, <3>2 DEF IInv, Marked
  <2> QED
    BY <2>1, <2>2 DEF SentAway
<1> QED
  BY <1>1, Invariance, PTL DEF Spec, RetiresObserved

\* A shutdown takes priority: once a worker has accepted one, no pending reload
\* retires another worker (docs/runtime.md 60-62, reload.py 82 and 100).
THEOREM ShutdownFirst == Spec => ShutdownWins
<1>1. IInv => ((master \in {"deliver", "signal"} /\ master' = "retired") /\ shutdown
                  => seen \in accepted)
  BY DEF IInv, Observed, Retirement
<1> QED
  BY <1>1, Invariance, PTL DEF Spec, ShutdownWins
=============================================================================
