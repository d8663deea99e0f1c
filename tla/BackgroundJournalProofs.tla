----------------------- MODULE BackgroundJournalProofs -----------------------
(* The controller logs every event of a worker once and in order, keeps the   *)
(* journals of those that live, and kills only who is to retire.             *)
EXTENDS BackgroundJournal, WellFoundedInduction, TLAPS

\* TypeOK in parts: control, files, notes about processes.
Control == /\ ctl \in {"idle", "read", "check", "expire", "kill"}
           /\ todo \subseteq Pid
           /\ stopped \in BOOLEAN
Files == /\ file \in [Pid -> Seq(Event \cup {Garbage})]
         /\ tail \in [Pid -> Event \cup {NoRecord}]
         /\ offset \in [Pid -> Nat]
         /\ \A p \in Pid : offset[p] <= Len(file[p])
Notes == /\ identities \in [Pid -> Identity \cup {NoRecord}]
         /\ stopping \in [Pid -> Identity \cup {NoRecord}]
         /\ late \subseteq {stopping[p] : p \in Pid}
         /\ events \in Seq(Event)
         /\ condemned \subseteq Identity
Ledgers == /\ workers \subseteq Identity
           /\ asked \subseteq Identity
           /\ written \in [Identity -> 0..Retired]
           /\ heard \in [Identity -> 0..Retired]
           /\ retirements \in [Identity -> {"none", "armed", "over"}]

\* A worker has been born.
Hired == \A i \in workers : i.created <= born[i.pid]

\* The lines of a journal are of workers that had its PID, which have written
\* them in their order.
Journals == \A p \in Pid : \A k \in DOMAIN file[p] : file[p][k] # Garbage =>
    /\ file[p][k][1] \in workers /\ file[p][k][1].pid = p
    /\ file[p][k][2] <= written[file[p][k][1]]
    /\ \A j \in 1..(k - 1) : file[p][j] # Garbage /\ file[p][j][1] = file[p][k][1] =>
         file[p][j][2] < file[p][k][2]

\* Event n of worker i is later than what has been logged or collected of it ...
Later(i, n) == /\ heard[i] < n
               /\ \A k \in DOMAIN events : events[k][1] = i => events[k][2] < n

\* ... as is all that has not been read,
Fresh == \A p \in Pid : \A k \in (offset[p] + 1)..Len(file[p]) :
    file[p][k] # Garbage => Later(file[p][k][1], file[p][k][2])

\* and what has been read was written.
Collected == /\ \A i \in Identity : heard[i] <= written[i]
             /\ \A k \in DOMAIN events : /\ events[k][1] \in workers
                                         /\ events[k][2] <= written[events[k][1]]

\* BackgroundEvents keeps for a PID what is true of a worker that had it.
Lists == \A p \in Pid :
    /\ identities[p] # NoRecord => identities[p].pid = p /\ identities[p] \in workers
    /\ stopping[p] # NoRecord => /\ stopping[p].pid = p
                                 /\ written[stopping[p]] >= Stopping
                                 /\ Later(stopping[p], Retired)

\* Who is condemned is to retire.
Justified == /\ \A i \in condemned : i \in asked \/ written[i] >= Stopping
             /\ \A i \in Identity : retirements[i] # "none" => i \in asked

IInv == /\ TypeOK /\ Hired /\ Journals /\ Fresh /\ Collected /\ LoggedInOrder
        /\ Lists /\ Justified
-----------------------------------------------------------------------------
LEMMA TypeParts == TypeOK <=> /\ ProcTypeOK /\ Control /\ Files /\ Notes /\ Ledgers
  BY DEF TypeOK, Control, Files, Notes, Ledgers

\* sorted(): there is a first path.
Below == {p \in Nat \X Nat : p[1] < p[2]}
LEMMA FirstPath == ASSUME Control, todo # {} PROVE Path \in Pid /\ Path \in todo
<1>1. todo \subseteq Nat
  BY JournalAssumption DEF Control
<1>2. IsWellFoundedOn(Below, Nat)
  <2>1. OpToRel(<, Nat) = Below
    BY DEF OpToRel, Below
  <2> QED
    BY <2>1, NatLessThanWellFounded
<1>3. PICK x \in todo : \A y \in todo : ~(<<y, x>> \in Below)
  BY <1>1, <1>2, WFMin
<1>4. \A y \in todo : x <= y
  <2> SUFFICES ASSUME NEW y \in todo PROVE x <= y
    OBVIOUS
  <2>1. x \in Nat /\ y \in Nat /\ ~(y < x)
    BY <1>1, <1>3 DEF Below
  <2> QED
    BY <2>1
<1> QED
  BY <1>4 DEF Path, Min, Control

\* The next line of the journal.
LEMMA NextLine == ASSUME TypeOK, NEW p \in Pid, offset[p] < Len(file[p])
                  PROVE  /\ offset[p] + 1 \in DOMAIN file[p]
                         /\ offset[p] + 1 \in (offset[p] + 1)..Len(file[p])
                         /\ file[p][offset[p] + 1] \in Event \cup {Garbage}
  BY TypeParts DEF Files

\* What is logged of a worker: the last event collected, or what it was before.
LEMMA Heard == ASSUME TypeOK, Expire
               PROVE  /\ heard' \in [Identity -> 0..Retired]
                      /\ \A i \in Identity :
                           \/ heard'[i] = heard[i]
                           \/ \E k \in DOMAIN events : events[k] = <<i, heard'[i]>>
<1>0. Notes /\ Ledgers
  BY TypeParts
<1> DEFINE logged(i) == {e[2] : e \in {x \in ToSet(events) : x[1] = i}}
           all(i) == logged(i) \cup {heard[i]}
<1>1. heard' = [i \in Identity |-> Max(all(i))]
  BY DEF Expire
<1>2. ASSUME NEW i \in Identity PROVE all(i) \subseteq 0..Retired /\ all(i) # {}
  BY <1>0 DEF Notes, Ledgers, Event, ToSet, Retired
<1>3. ASSUME NEW S \in SUBSET (0..3), S # {} PROVE Max(S) \in S
  <2>1. \E x \in S : \A y \in S : x >= y
    <3>1. CASE 3 \in S
      BY <1>3, <3>1
    <3>2. CASE 3 \notin S /\ 2 \in S
      BY <1>3, <3>2
    <3>3. CASE 3 \notin S /\ 2 \notin S /\ 1 \in S
      BY <1>3, <3>3
    <3>4. CASE 3 \notin S /\ 2 \notin S /\ 1 \notin S
      <4>1. \A y \in S : y \in 0..3 /\ y # 3 /\ y # 2 /\ y # 1
        BY <1>3, <3>4
      <4>2. \A y \in S : y = 0
        BY <4>1
      <4>3. 0 \in S
        BY <1>3, <4>2
      <4>4. \A y \in S : 0 >= y
        BY <4>2
      <4> QED
        BY <4>3, <4>4
    <3> QED
      BY <1>3, <3>1, <3>2, <3>3, <3>4
  <2> QED
    BY <2>1 DEF Max
<1>4. ASSUME NEW i \in Identity PROVE Max(all(i)) \in all(i)
  <2> HIDE DEF all
  <2> QED
    BY <1>2, <1>3 DEF Retired
<1>5. ASSUME NEW i \in Identity, NEW n \in logged(i)
      PROVE  \E k \in DOMAIN events : events[k] = <<i, n>>
  BY <1>0, <1>5 DEF Notes, Event, ToSet
<1> HIDE DEF logged
<1> QED
  BY <1>1, <1>2, <1>4, <1>5

LEMMA ProcStep == ASSUME TypeOK, [Next]_vars PROVE ProcTypeOK'
<1> USE DEF ProcTypeOK, ctlRest
<1>0. ProcTypeOK
  BY TypeParts
<1>1. ASSUME NEW p \in Pid, Spawn(p) \/ Foreign(p) PROVE ProcTypeOK'
  BY <1>0, <1>1, ProcessAssumption DEF Spawn, Foreign, Birth
<1>2. ASSUME NEW p \in Pid, Wait(p) \/ Die(p) PROVE ProcTypeOK'
  BY <1>0, <1>2 DEF Wait, Reap, Die, Death, Running
<1>3. CASE Kill
  BY <1>0, <1>3 DEF Kill, SameProcess, Running
<1>4. CASE UNCHANGED procVars
  BY <1>0, <1>4 DEF procVars
<1> QED
  BY <1>1, <1>2, <1>3, <1>4
  DEF Next, Controller, Retire, Flush, DeadlinePasses, ClockPasses, Tick, ReadLine, EndOfFile,
      ReadFails, ReadDone, Check, Expire, vars, procVars

LEMMA ControlStep == ASSUME TypeOK, [Next]_vars PROVE Control'
<1> USE DEF Control, ctlRest, rest
<1>0. Control
  BY TypeParts
<1>1. ASSUME NEW p \in Pid, Spawn(p) \/ Foreign(p) \/ Wait(p) \/ Die(p) PROVE Control'
  BY <1>0, <1>1 DEF Spawn, Foreign, Wait, Die
<1>2. ASSUME NEW i \in Identity, Flush(i) \/ DeadlinePasses(i) \/ ClockPasses(i) PROVE Control'
  BY <1>0, <1>2 DEF Flush, DeadlinePasses, ClockPasses
<1>3. CASE Tick \/ ReadLine \/ EndOfFile \/ ReadFails \/ ReadDone \/ Check \/ Expire \/ Kill
  BY <1>0, <1>3 DEF Tick, ReadLine, EndOfFile, ReadFails, ReadDone, Check, Expire, Kill
<1>4. CASE Retire
  BY <1>0, <1>4 DEF Retire
<1>5. CASE UNCHANGED vars
  BY <1>0, <1>5 DEF vars
<1> QED
  BY <1>1, <1>2, <1>3, <1>4, <1>5 DEF Next, Controller

LEMMA FilesStep == ASSUME TypeOK, [Next]_vars PROVE Files'
<1> USE DEF Files, ctlRest, rest
<1>0. Files /\ Control /\ Ledgers
  BY TypeParts
<1>1. ASSUME NEW i \in Identity, Flush(i) PROVE Files'
  <2>1. i.pid \in Pid /\ written[i] + 1 \in 1..Retired
    <3>1. written[i] + 1 <= Retired
      BY <1>1 DEF Flush
    <3>2. written[i] \in Nat
      BY <1>0 DEF Ledgers, Retired
    <3> QED
      BY <3>1, <3>2 DEF Identity, Retired
  <2>2. Line(i, written[i] + 1) \in Event \cup {Garbage}
    BY <2>1 DEF Line, Event
  <2>3. CASE /\ file' = [file EXCEPT ![i.pid] = Append(@, Line(i, written[i] + 1))]
             /\ tail' = [tail EXCEPT ![i.pid] = NoRecord]
    BY <1>0, <1>1, <2>1, <2>2, <2>3 DEF Flush
  <2>4. CASE tail' = [tail EXCEPT ![i.pid] = <<i, written[i] + 1>>] /\ UNCHANGED file
    BY <1>0, <1>1, <2>1, <2>4 DEF Flush, Event
  <2> QED
    BY <1>1, <2>3, <2>4 DEF Flush
<1>2. CASE ReadLine
  <2>1. /\ Path \in Pid /\ offset[Path] < Len(file[Path])
        /\ offset' = [offset EXCEPT ![Path] = @ + 1]
        /\ UNCHANGED <<file, tail>>
    BY <1>0, <1>2, FirstPath DEF ReadLine, Advanced
  <2>2. Len(file[Path]) \in Nat
    BY <1>0, <2>1
  <2> QED
    BY <1>0, <2>1, <2>2
<1>3. CASE Check
  <2>1. CASE UNCHANGED <<file, tail, offset>>
    BY <1>0, <2>1
  <2>2. CASE /\ file' = [file EXCEPT ![Path] = <<>>]
             /\ tail' = [tail EXCEPT ![Path] = NoRecord]
             /\ offset' = [offset EXCEPT ![Path] = 0]
    <3>1. <<>> \in Seq(Event \cup {Garbage}) /\ Len(<<>>) = 0
      OBVIOUS
    <3>2. /\ file' \in [Pid -> Seq(Event \cup {Garbage})]
          /\ tail' \in [Pid -> Event \cup {NoRecord}]
          /\ offset' \in [Pid -> Nat]
      BY <1>0, <2>2, <3>1
    <3>3. ASSUME NEW p \in Pid PROVE offset'[p] <= Len(file'[p])
      <4>1. CASE p = Path
        BY <1>0, <2>2, <3>1, <4>1
      <4>2. CASE p # Path
        BY <1>0, <2>2, <4>2
      <4> QED
        BY <4>1, <4>2
    <3> QED
      BY <3>2, <3>3
  <2> QED
    BY <1>3, <2>1, <2>2 DEF Check, Dropped
<1>4. CASE UNCHANGED <<file, tail, offset>>
  BY <1>0, <1>4
<1> QED
  BY <1>1, <1>2, <1>3, <1>4
  DEF Next, Controller, Retire, DeadlinePasses, ClockPasses, Tick, EndOfFile, ReadFails, ReadDone,
      Expire, Kill, Spawn, Foreign, Wait, Die, vars

LEMMA NotesStep == ASSUME TypeOK, [Next]_vars PROVE Notes'
<1> USE DEF Notes, ctlRest, rest, lists
<1>0. Notes /\ Files /\ Control /\ Ledgers
  BY TypeParts
<1>1. CASE ReadLine
  <2> DEFINE p == Path  line == file[p][offset[p] + 1]
  <2>1. p \in Pid /\ line \in Event \cup {Garbage}
    BY <1>0, <1>1, FirstPath, NextLine DEF ReadLine
  <2>2. CASE line # Garbage
    <3>1. line[1] \in Identity /\ Marked(line, stopping[p]) \in Identity \cup {NoRecord}
      BY <1>0, <2>1, <2>2 DEF Event, Marked, Stopping, Retired
    <3>2. /\ identities' = [identities EXCEPT ![p] = line[1]]
          /\ stopping' = [stopping EXCEPT ![p] = Marked(line, @)]
          /\ late' \subseteq {stopping'[q] : q \in Pid}
          /\ events' = Append(events, line)
          /\ UNCHANGED condemned
      BY <1>1, <2>2 DEF ReadLine
    <3> QED
      BY <1>0, <2>1, <2>2, <3>1, <3>2
  <2> QED
    BY <1>0, <1>1, <2>2 DEF ReadLine
<1>2. CASE ReadFails
  BY <1>0, <1>2 DEF ReadFails
<1>3. CASE Check
  BY <1>0, <1>3 DEF Check
<1>4. CASE Expire
  BY <1>0, <1>4 DEF Expire, Overdue, Announced
<1>5. CASE Kill
  BY <1>0, <1>5 DEF Kill
<1>6. ASSUME NEW i \in Identity, DeadlinePasses(i) PROVE Notes'
  BY <1>0, <1>6 DEF DeadlinePasses, Identity
<1>7. CASE UNCHANGED <<identities, stopping, late, events, condemned>>
  BY <1>0, <1>7
<1> QED
  BY <1>1, <1>2, <1>3, <1>4, <1>5, <1>6, <1>7
  DEF Next, Controller, Retire, ClockPasses, Flush, Tick, EndOfFile, ReadDone, Spawn, Foreign, Wait,
      Die, vars

LEMMA LedgersStep == ASSUME TypeOK, [Next]_vars PROVE Ledgers'
<1> USE DEF Ledgers, ctlRest, rest, lists, producer
<1>0. ProcTypeOK /\ Ledgers /\ Notes /\ Files
  BY TypeParts
<1>1. ASSUME NEW p \in Pid, Spawn(p) PROVE Ledgers'
  <2>1. born'[p] \in 1..MaxBirths
    BY <1>0, <1>1, ProcessAssumption DEF Spawn, Birth, ProcTypeOK
  <2>2. [pid |-> p, created |-> born'[p]] \in Identity
    BY <2>1 DEF Identity
  <2> QED
    BY <1>0, <1>1, <2>2 DEF Spawn
<1>2. ASSUME NEW i \in Identity, Flush(i) PROVE Ledgers'
  <2>1. written' = written \/ written' = [written EXCEPT ![i] = written[i] + 1]
    BY <1>2 DEF Flush
  <2>2. written[i] + 1 <= Retired
    BY <1>2 DEF Flush
  <2>3. UNCHANGED <<workers, asked, heard, retirements>>
    BY <1>2 DEF Flush
  <2>4. written' \in [Identity -> 0..Retired]
    BY <1>0, <2>1, <2>2 DEF Retired
  <2> QED
    BY <1>0, <2>3, <2>4
<1>3. CASE Retire
  BY <1>0, <1>3 DEF Retire, Arm, LiveWorkers
<1>4. ASSUME NEW i \in Identity, ClockPasses(i) PROVE Ledgers'
  BY <1>0, <1>4 DEF ClockPasses
<1>5. CASE Expire
  <2>1. heard' \in [Identity -> 0..Retired]
    BY <1>0, <1>5, Heard
  <2>2. retirements' \in [Identity -> {"none", "armed", "over"}]
    BY <1>5 DEF Expire
  <2>3. UNCHANGED <<workers, asked, written>>
    BY <1>5 DEF Expire
  <2> QED
    BY <1>0, <2>1, <2>2, <2>3
<1>6. CASE UNCHANGED <<workers, asked, written, heard, retirements>>
  BY <1>0, <1>6
<1> QED
  BY <1>1, <1>2, <1>3, <1>4, <1>5, <1>6
  DEF Next, Controller, DeadlinePasses, Foreign, Wait, Die, Tick, ReadLine, EndOfFile, ReadFails,
      ReadDone, Check, Kill, vars

LEMMA TypeStep == ASSUME TypeOK, [Next]_vars PROVE TypeOK'
<1>1. ProcTypeOK' /\ Control' /\ Files' /\ Notes' /\ Ledgers'
  BY ProcStep, ControlStep, FilesStep, NotesStep, LedgersStep
<1>2. (ProcTypeOK /\ Control /\ Files /\ Notes /\ Ledgers)' => TypeOK'
  BY DEF TypeOK, Control, Files, Notes, Ledgers
<1> QED
  BY <1>1, <1>2
-----------------------------------------------------------------------------
\* Who changes what: the workers, which are never forgotten, and what they write;
LEMMA WorkerFrame ==
  ASSUME TypeOK, [Next]_vars
  PROVE  /\ workers \subseteq workers' /\ asked \subseteq asked'
         /\ \A i \in Identity : written[i] <= written'[i]
         /\ \/ UNCHANGED <<born, workers>>
            \/ \E p \in Pid : Spawn(p) \/ (Foreign(p) /\ UNCHANGED workers)
         /\ UNCHANGED written \/ \E i \in Identity : Flush(i)
<1> USE DEF ctlRest, rest, producer
<1>0. Ledgers
  BY TypeParts
<1>1. ASSUME UNCHANGED written PROVE \A i \in Identity : written[i] <= written'[i]
  BY <1>0, <1>1 DEF Ledgers, Retired
<1>2. ASSUME NEW i \in Identity, Flush(i)
      PROVE  /\ \A j \in Identity : written[j] <= written'[j]
             /\ UNCHANGED <<born, workers, asked>>
  BY <1>0, <1>2 DEF Flush, Ledgers, Retired
<1>3. ASSUME NEW p \in Pid, Spawn(p) \/ Foreign(p) \/ Wait(p) \/ Die(p)
      PROVE  /\ workers \subseteq workers' /\ UNCHANGED <<asked, written>>
             /\ UNCHANGED <<born, workers>> \/ Spawn(p) \/ (Foreign(p) /\ UNCHANGED workers)
  BY <1>3 DEF Spawn, Foreign, Wait, Reap, Die, Death
<1>4. ASSUME NEW i \in Identity, DeadlinePasses(i) \/ ClockPasses(i)
      PROVE  UNCHANGED <<born, workers, asked, written>>
  BY <1>4 DEF DeadlinePasses, ClockPasses
<1>5. CASE Controller \/ Retire \/ UNCHANGED vars
  <2>1. UNCHANGED <<born, workers, written>> /\ asked \subseteq asked'
    BY <1>5 DEF Controller, Retire, Tick, ReadLine, EndOfFile, ReadFails, ReadDone, Check, Expire,
       Kill, vars
  <2> QED
    BY <1>1, <2>1
<1> QED
  BY <1>1, <1>2, <1>3, <1>4, <1>5 DEF Next

\* the journals and what is read of them;
LEMMA JournalFrame ==
  ASSUME [Next]_vars
  PROVE  /\ UNCHANGED file \/ Check \/ \E i \in Identity : Flush(i)
         /\ UNCHANGED offset \/ Check \/ ReadLine
         /\ UNCHANGED events \/ ReadLine \/ ReadFails \/ Expire
         /\ UNCHANGED heard \/ Expire
<1> USE DEF ctlRest, rest, producer
<1>1. ASSUME NEW p \in Pid, Spawn(p) \/ Foreign(p) \/ Wait(p) \/ Die(p)
      PROVE  UNCHANGED <<file, offset, events, heard>>
  BY <1>1 DEF Spawn, Foreign, Wait, Die
<1>2. ASSUME NEW i \in Identity, DeadlinePasses(i) \/ ClockPasses(i) \/ Flush(i)
      PROVE  UNCHANGED <<offset, events, heard>> /\ (UNCHANGED file \/ Flush(i))
  BY <1>2 DEF DeadlinePasses, ClockPasses, Flush
<1>3. CASE Controller \/ Retire \/ UNCHANGED vars
  BY <1>3 DEF Controller, Retire, Tick, ReadLine, EndOfFile, ReadFails, ReadDone, Check, Expire,
     Kill, vars
<1> QED
  BY <1>1, <1>2, <1>3 DEF Next

\* the lists of BackgroundEvents and of ControllerLog.
LEMMA ListFrame ==
  ASSUME [Next]_vars
  PROVE  /\ UNCHANGED identities \/ Check \/ ReadLine
         /\ UNCHANGED stopping \/ ReadLine \/ Expire
         /\ UNCHANGED retirements \/ Retire \/ Expire \/ \E i \in Identity : ClockPasses(i)
         /\ condemned' \subseteq condemned \/ Expire
<1> USE DEF ctlRest, rest, producer, lists
<1>1. ASSUME NEW p \in Pid, Spawn(p) \/ Foreign(p) \/ Wait(p) \/ Die(p)
      PROVE  UNCHANGED <<identities, stopping, retirements, condemned>>
  BY <1>1 DEF Spawn, Foreign, Wait, Die
<1>2. ASSUME NEW i \in Identity, DeadlinePasses(i) \/ ClockPasses(i) \/ Flush(i)
      PROVE  UNCHANGED <<identities, stopping, condemned>> /\ (UNCHANGED retirements \/ ClockPasses(i))
  BY <1>2 DEF DeadlinePasses, ClockPasses, Flush
<1>3. CASE Controller \/ Retire \/ UNCHANGED vars
  BY <1>3 DEF Controller, Retire, Tick, ReadLine, EndOfFile, ReadFails, ReadDone, Check, Expire,
     Kill, vars
<1> QED
  BY <1>1, <1>2, <1>3 DEF Next

\* What a line that is read does: a wrong one moves the offset only.
LEMMA Taken ==
  ASSUME TypeOK, ReadLine, NEW p, p = Path, NEW line, line = file[p][offset[p] + 1]
  PROVE  /\ p \in Pid /\ offset[p] + 1 \in (offset[p] + 1)..Len(file[p])
         /\ offset[p] + 1 \in DOMAIN file[p]
         /\ offset' = [offset EXCEPT ![p] = @ + 1]
         /\ UNCHANGED <<file, heard, written, workers, born>>
         /\ \/ line = Garbage /\ UNCHANGED <<identities, stopping, events>>
            \/ /\ line # Garbage /\ line \in Event
               /\ identities' = [identities EXCEPT ![p] = line[1]]
               /\ stopping' = [stopping EXCEPT ![p] = Marked(line, @)]
               /\ DOMAIN events' = 1..(Len(events) + 1)
               /\ \A k \in DOMAIN events : events'[k] = events[k]
               /\ events'[Len(events) + 1] = line
<1>0. Control /\ Files /\ Notes
  BY TypeParts
<1>1. p \in Pid /\ offset[p] < Len(file[p])
  BY <1>0, FirstPath DEF ReadLine
<1>2. /\ offset[p] + 1 \in (offset[p] + 1)..Len(file[p]) /\ offset[p] + 1 \in DOMAIN file[p]
      /\ line \in Event \cup {Garbage}
  BY <1>1, NextLine
<1>3. /\ offset' = [offset EXCEPT ![p] = @ + 1]
      /\ UNCHANGED <<file, heard, written, workers, born>>
  BY DEF ReadLine, Advanced, ctlRest, producer
<1>4. \/ line = Garbage /\ UNCHANGED <<identities, stopping, events>>
      \/ /\ line # Garbage
         /\ identities' = [identities EXCEPT ![p] = line[1]]
         /\ stopping' = [stopping EXCEPT ![p] = Marked(line, @)]
         /\ events' = Append(events, line)
  BY DEF ReadLine
<1>5. ASSUME line \in Event, events' = Append(events, line)
      PROVE  /\ DOMAIN events' = 1..(Len(events) + 1)
             /\ \A k \in DOMAIN events : events'[k] = events[k]
             /\ events'[Len(events) + 1] = line
  <2>1. events \in Seq(Event)
    BY <1>0 DEF Notes
  <2> QED
    BY <1>5, <2>1
<1> QED
  BY <1>1, <1>2, <1>3, <1>4, <1>5
-----------------------------------------------------------------------------
LEMMA HiredStep == ASSUME TypeOK, Hired, [Next]_vars PROVE Hired'
<1>0. ProcTypeOK /\ Ledgers
  BY TypeParts
<1>1. \A i \in workers : i.pid \in Pid /\ i.created \in Nat
  BY <1>0 DEF Ledgers, Identity
<1>2. CASE UNCHANGED <<born, workers>>
  BY <1>2 DEF Hired
<1>3. ASSUME NEW p \in Pid, Birth(p) PROVE \A i \in workers : i.created <= born'[i.pid]
  BY <1>0, <1>1, <1>3 DEF Birth, Hired, ProcTypeOK
<1>4. ASSUME NEW p \in Pid, Spawn(p) PROVE Hired'
  <2>1. born'[p] <= born'[p] /\ Birth(p)
    BY <1>0, <1>4 DEF Spawn, Birth, ProcTypeOK
  <2> QED
    BY <1>3, <1>4, <2>1 DEF Spawn, Hired
<1>5. ASSUME NEW p \in Pid, Foreign(p), UNCHANGED workers PROVE Hired'
  BY <1>3, <1>5 DEF Foreign, Hired
<1> QED
  BY <1>2, <1>4, <1>5, WorkerFrame

\* What a worker appends is its next event, or a wrong line.
LEMMA Appended ==
  ASSUME TypeOK, NEW i \in Identity, Flush(i), ~UNCHANGED file
  PROVE  /\ i \in workers /\ i.pid \in Pid
         /\ written' = [written EXCEPT ![i] = @ + 1]
         /\ \A p \in Pid \ {i.pid} : file'[p] = file[p]
         /\ Len(file'[i.pid]) = Len(file[i.pid]) + 1
         /\ DOMAIN file'[i.pid] = 1..(Len(file[i.pid]) + 1)
         /\ \A k \in DOMAIN file[i.pid] : file'[i.pid][k] = file[i.pid][k]
         /\ file'[i.pid][Len(file[i.pid]) + 1] \in {<<i, written[i] + 1>>, Garbage}
<1>0. Files /\ Ledgers
  BY TypeParts
<1>1. /\ i \in workers /\ i.pid \in Pid
      /\ written' = [written EXCEPT ![i] = @ + 1]
      /\ file' = [file EXCEPT ![i.pid] = Append(@, Line(i, written[i] + 1))]
  BY DEF Flush, LiveWorkers, Identity
<1>2. Line(i, written[i] + 1) \in {<<i, written[i] + 1>>, Garbage}
  BY DEF Line
<1>3. file[i.pid] \in Seq(Event \cup {Garbage})
  BY <1>0, <1>1 DEF Files
<1>4. file'[i.pid] = Append(file[i.pid], Line(i, written[i] + 1))
  BY <1>0, <1>1 DEF Files
<1>5. \A p \in Pid \ {i.pid} : file'[p] = file[p]
  BY <1>0, <1>1 DEF Files
<1> QED
  BY <1>1, <1>2, <1>3, <1>4, <1>5

\* A journal that is removed is empty, and the others are as they were.
LEMMA Emptied == ASSUME TypeOK, Check, NEW p \in Pid
                 PROVE  \/ /\ UNCHANGED <<file[p], offset[p], identities[p]>>
                        \/ /\ p = Path /\ Finished(p)
                           /\ file'[p] = <<>> /\ offset'[p] = 0 /\ identities'[p] = NoRecord
<1>0. Files /\ Notes
  BY TypeParts
<1> QED
  BY <1>0 DEF Check, Dropped, Files, Notes

LEMMA JournalsStep == ASSUME TypeOK, Journals, [Next]_vars PROVE Journals'
<1> USE DEF Journals
<1>0. Files /\ Ledgers
  BY TypeParts
<1>1. \A p \in Pid : \A k \in DOMAIN file[p] : file[p][k] # Garbage =>
        /\ file[p][k][1] \in Identity /\ file[p][k][2] \in Nat
        /\ DOMAIN file[p] = 1..Len(file[p]) /\ Len(file[p]) \in Nat
  BY <1>0 DEF Files, Event
<1>2. workers \subseteq workers' /\ \A i \in Identity : /\ written[i] <= written'[i]
                                                        /\ written[i] \in Nat /\ written'[i] \in Nat
  BY <1>0, WorkerFrame, LedgersStep DEF Ledgers
<1>3. ASSUME NEW p \in Pid, file'[p] = file[p], NEW k \in DOMAIN file[p], file[p][k] # Garbage
      PROVE  /\ file'[p][k][1] \in workers' /\ file'[p][k][1].pid = p
             /\ file'[p][k][2] <= written'[file'[p][k][1]]
             /\ \A j \in 1..(k - 1) : file'[p][j] # Garbage /\ file'[p][j][1] = file'[p][k][1] =>
                  file'[p][j][2] < file'[p][k][2]
  BY <1>1, <1>2, <1>3
<1>4. CASE UNCHANGED file
  BY <1>3, <1>4
<1>5. CASE Check
  BY <1>3, <1>5, Emptied
<1>6. ASSUME NEW i \in Identity, Flush(i), ~UNCHANGED file PROVE Journals'
  <2> DEFINE p == i.pid
  <2>1. PICK n \in Nat \ {0} :
             /\ p \in Pid /\ DOMAIN file'[p] = 1..n /\ DOMAIN file[p] = 1..(n - 1)
             /\ \A k \in 1..(n - 1) : file'[p][k] = file[p][k]
             /\ file'[p][n] \in {<<i, written[i] + 1>>, Garbage}
    <3>1. Len(file[p]) \in Nat /\ DOMAIN file[p] = 1..Len(file[p]) /\ p \in Pid
      BY <1>0, <1>6, Appended DEF Files
    <3>2. Len(file[p]) + 1 \in Nat \ {0} /\ (Len(file[p]) + 1) - 1 = Len(file[p])
      BY <3>1
    <3> QED
      BY <1>6, <3>1, <3>2, Appended
  <2>2. ASSUME NEW k \in 1..(n - 1), file'[p][k] # Garbage
        PROVE  /\ file'[p][k][1] \in workers' /\ file'[p][k][1].pid = p
               /\ file'[p][k][2] <= written'[file'[p][k][1]]
               /\ \A j \in 1..(k - 1) : file'[p][j] # Garbage /\ file'[p][j][1] = file'[p][k][1] =>
                    file'[p][j][2] < file'[p][k][2]
    <3>1. \A j \in 1..k : file'[p][j] = file[p][j]
      <4>1. \A j \in 1..k : j \in 1..(n - 1)
        BY <2>1
      <4> QED
        BY <2>1, <4>1
    <3>2. /\ file[p][k][1] \in workers /\ file[p][k][1].pid = p
          /\ file[p][k][2] <= written[file[p][k][1]]
          /\ \A j \in 1..(k - 1) : file[p][j] # Garbage /\ file[p][j][1] = file[p][k][1] =>
               file[p][j][2] < file[p][k][2]
      BY <2>1, <2>2, <3>1
    <3>3. file'[p][k] = file[p][k] /\ k \in DOMAIN file[p]
      BY <2>1, <3>1
    <3>4. /\ file[p][k][1] \in Identity /\ file[p][k][2] \in Nat
          /\ file[p][k][2] <= written'[file[p][k][1]]
      BY <1>0, <1>1, <1>2, <2>1, <2>2, <3>2, <3>3
    <3>5. \A j \in 1..(k - 1) : file'[p][j] = file[p][j]
      BY <3>1
    <3> QED
      BY <1>2, <3>2, <3>3, <3>4, <3>5
  <2>3. ASSUME file'[p][n] # Garbage
        PROVE  /\ file'[p][n][1] \in workers' /\ file'[p][n][1].pid = p
               /\ file'[p][n][2] <= written'[file'[p][n][1]]
               /\ \A j \in 1..(n - 1) : file'[p][j] # Garbage /\ file'[p][j][1] = file'[p][n][1] =>
                    file'[p][j][2] < file'[p][n][2]
    <3>1. file'[p][n] = <<i, written[i] + 1>> /\ i \in workers /\ written'[i] = written[i] + 1
      BY <1>0, <1>6, <2>1, <2>3, Appended DEF Ledgers
    <3>2. ASSUME NEW j \in 1..(n - 1), file'[p][j] # Garbage, file'[p][j][1] = i
          PROVE  file'[p][j][2] < written[i] + 1
      <4>1. file'[p][j] = file[p][j]
        BY <2>1
      <4> QED
        BY <1>1, <1>2, <2>1, <3>2, <4>1
    <3> QED
      BY <1>2, <3>1, <3>2
  <2>4. \A q \in Pid \ {p} : file'[q] = file[q]
    BY <1>6, Appended
  <2>5. ASSUME NEW k \in DOMAIN file'[p], file'[p][k] # Garbage
        PROVE  /\ file'[p][k][1] \in workers' /\ file'[p][k][1].pid = p
               /\ file'[p][k][2] <= written'[file'[p][k][1]]
               /\ \A j \in 1..(k - 1) : file'[p][j] # Garbage /\ file'[p][j][1] = file'[p][k][1] =>
                    file'[p][j][2] < file'[p][k][2]
    <3>1. k \in 1..(n - 1) \/ k = n
      BY <2>1
    <3> QED
      BY <2>2, <2>3, <2>5, <3>1
  <2> HIDE DEF p
  <2> QED
    BY <1>3, <2>4, <2>5
<1> QED
  BY <1>4, <1>5, <1>6, JournalFrame
-----------------------------------------------------------------------------
\* What is later than all that is known of a worker stays so, unless it is read.
LEMMA LaterKept == ASSUME TypeOK, [Next]_vars, NEW i \in Identity, NEW n \in Nat, Later(i, n),
                          UNCHANGED events \/ ReadFails \/ Expire
                   PROVE  Later(i, n)'
<1> USE DEF Later
<1>1. CASE UNCHANGED <<events, heard>>
  BY <1>1
<1>2. CASE ReadFails
  <2>1. events' = <<>> /\ UNCHANGED heard
    BY <1>2 DEF ReadFails
  <2> QED
    BY <2>1
<1>3. CASE Expire
  <2>1. events' = <<>>
    BY <1>3 DEF Expire
  <2>2. heard'[i] < n
    BY <1>3, Heard
  <2> QED
    BY <2>1, <2>2
<1> QED
  BY <1>1, <1>2, <1>3, JournalFrame

LEMMA FreshStep ==
  ASSUME TypeOK, Journals, Fresh, Collected, [Next]_vars
  PROVE  Fresh'
<1>0. Files /\ Ledgers /\ Notes
  BY TypeParts
<1> SUFFICES ASSUME NEW p \in Pid, NEW k \in (offset'[p] + 1)..Len(file'[p]), file'[p][k] # Garbage
             PROVE  Later(file[p][k][1], file[p][k][2])'
  BY DEF Fresh
<1>1. ASSUME file'[p] = file[p], k \in (offset[p] + 1)..Len(file[p]),
             UNCHANGED events \/ ReadFails \/ Expire
      PROVE  Later(file[p][k][1], file[p][k][2])'
  <2> DEFINE e == file[p][k]
  <2>1. e \in Event
    BY <1>0, <1>1 DEF Files
  <2>2. e[1] \in Identity /\ e[2] \in Nat /\ Later(e[1], e[2])
    BY <1>1, <2>1 DEF Fresh, Event
  <2>3. \A i \in Identity, n \in Nat : Later(i, n) => Later(i, n)'
    BY <1>1, LaterKept
  <2> HIDE DEF e
  <2>4. Later(e[1], e[2]) => heard'[e[1]] < e[2]
                             /\ \A j \in DOMAIN events' : events'[j][1] = e[1] => events'[j][2] < e[2]
    BY <2>2, <2>3 DEF Later
  <2> QED
    BY <1>1, <2>2, <2>4 DEF Later, e
<1>2. CASE ReadLine
  <2> DEFINE q == Path  line == file[q][offset[q] + 1]
  <2>1. k \in (offset[p] + 1)..Len(file[p]) /\ (p = q => k > offset[p] + 1) /\ file' = file
    BY <1>0, <1>2, Taken DEF Files
  <2>2. CASE line = Garbage
    BY <1>1, <1>2, <2>1, <2>2, Taken
  <2>3. CASE line # Garbage
    <3> DEFINE e == file[p][k]
    <3>1. e \in Event /\ Later(e[1], e[2]) /\ line \in Event /\ q \in Pid
          /\ k \in DOMAIN file[p] /\ offset[q] + 1 \in DOMAIN file[q]
      BY <1>0, <1>2, <2>1, <2>3, Taken DEF Fresh, Files
    <3>2. line[1] = e[1] => line[2] < e[2]
      <4>1. ASSUME line[1] = e[1] PROVE p = q
        BY <2>1, <2>3, <3>1, <4>1 DEF Journals
      <4>2. ASSUME p = q PROVE offset[q] + 1 \in 1..(k - 1)
        BY <1>0, <2>1, <3>1, <4>2 DEF Files
      <4> QED
        BY <2>1, <2>3, <3>1, <4>1, <4>2 DEF Journals
    <3>3. heard' = heard /\ DOMAIN events' = 1..(Len(events) + 1)
          /\ (\A j \in DOMAIN events : events'[j] = events[j]) /\ events'[Len(events) + 1] = line
          /\ DOMAIN events = 1..Len(events) /\ Len(events) \in Nat
      BY <1>0, <1>2, <2>3, Taken DEF Notes
    <3>4. ASSUME NEW j \in DOMAIN events', events'[j][1] = e[1] PROVE events'[j][2] < e[2]
      <4>1. CASE j = Len(events) + 1
        BY <3>2, <3>3, <3>4, <4>1
      <4>2. CASE j \in DOMAIN events
        BY <3>1, <3>3, <3>4, <4>2 DEF Later
      <4> QED
        BY <3>3, <4>1, <4>2
    <3> QED
      BY <2>1, <3>1, <3>3, <3>4 DEF Later
  <2> QED
    BY <2>2, <2>3
<1>3. ASSUME ~ReadLine, UNCHANGED <<file, offset>> PROVE Later(file[p][k][1], file[p][k][2])'
  BY <1>1, <1>3, JournalFrame
<1>4. CASE Check
  <2>1. UNCHANGED <<file[p], offset[p]>>
    BY <1>4, Emptied
  <2>2. UNCHANGED events
    BY <1>4 DEF Check
  <2> QED
    BY <1>1, <2>1, <2>2
<1>5. ASSUME NEW i \in Identity, Flush(i), ~UNCHANGED file
      PROVE  Later(file[p][k][1], file[p][k][2])'
  <2>1. UNCHANGED <<offset, events, heard>>
    BY <1>5 DEF Flush
  <2>2. CASE p = i.pid /\ k = Len(file[p]) + 1
    <3>1. file'[p][k] = <<i, written[i] + 1>>
      BY <1>5, <2>2, Appended
    <3>2. /\ heard[i] < written[i] + 1
          /\ \A j \in DOMAIN events : events[j][1] = i => events[j][2] < written[i] + 1
      <4>1. /\ heard[i] <= written[i] /\ heard[i] \in Nat /\ written[i] \in Nat
            /\ \A j \in DOMAIN events : events[j][1] = i => events[j][2] <= written[i]
        BY <1>0 DEF Collected, Ledgers, Retired
      <4>2. \A j \in DOMAIN events : events[j][2] \in Nat
        BY <1>0 DEF Notes, Event
      <4> QED
        BY <4>1, <4>2
    <3> QED
      BY <2>1, <3>1, <3>2 DEF Later
  <2>3. CASE ~(p = i.pid /\ k = Len(file[p]) + 1)
    <3>1. k \in (offset[p] + 1)..Len(file[p]) /\ file'[p][k] = file[p][k]
      BY <1>0, <1>5, <2>1, <2>3, Appended DEF Files
    <3>2. file[p][k] \in Event /\ Later(file[p][k][1], file[p][k][2])
      BY <1>0, <3>1 DEF Fresh, Files
    <3> QED
      BY <2>1, <3>1, <3>2 DEF Later
  <2> QED
    BY <2>2, <2>3
<1> QED
  BY <1>2, <1>3, <1>4, <1>5, JournalFrame DEF Check, ReadLine, Flush

\* The line that is read is its worker's own, and later than what was collected.
LEMMA TakenFresh ==
  ASSUME TypeOK, Journals, Fresh, ReadLine,
         NEW line, line = file[Path][offset[Path] + 1], line # Garbage
  PROVE  /\ line \in Event /\ line[1] \in Identity /\ line[2] \in 1..Retired
         /\ line[1] \in workers /\ line[1].pid = Path
         /\ line[2] <= written[line[1]] /\ Later(line[1], line[2])
  BY Taken DEF Event, Journals, Fresh

\* When the events are logged, or dropped, none is left.
LEMMA Cleared == ASSUME ReadFails \/ Expire PROVE DOMAIN events' = {}
<1>1. events' = <<>>
  BY DEF ReadFails, Expire
<1> QED
  BY <1>1

LEMMA MarkedCases ==
  ASSUME NEW record, record[2] \in 1..Retired, NEW was
  PROVE  Marked(record, was) = IF record[2] < Stopping THEN was
                               ELSE IF record[2] = Stopping THEN record[1] ELSE NoRecord
<1>1. record[2] = 1 \/ record[2] = 2 \/ record[2] = 3
  BY DEF Retired
<1> QED
  BY <1>1 DEF Marked, Stopping, Retired

LEMMA CollectedStep ==
  ASSUME TypeOK, Journals, Fresh, Collected, [Next]_vars
  PROVE  Collected'
<1>0. Ledgers /\ Notes /\ Ledgers'
  BY TypeParts, LedgersStep
<1>1. workers \subseteq workers' /\ \A i \in Identity : /\ written[i] <= written'[i]
                                                        /\ written[i] \in Nat /\ written'[i] \in Nat
  BY <1>0, WorkerFrame DEF Ledgers
<1>2. \A k \in DOMAIN events : events[k][1] \in Identity /\ events[k][2] \in Nat
  BY <1>0 DEF Notes, Event
<1>3. \A k \in DOMAIN events : events[k][1] \in workers' /\ events[k][2] <= written'[events[k][1]]
  BY <1>1, <1>2 DEF Collected
<1>4. CASE UNCHANGED heard
  <2>1. \A i \in Identity : heard'[i] <= written'[i]
    BY <1>0, <1>1, <1>4 DEF Collected, Ledgers
  <2>2. CASE UNCHANGED events
    BY <1>3, <2>1, <2>2 DEF Collected
  <2>3. CASE ReadFails
    BY <2>1, <2>3, Cleared DEF Collected
  <2>4. CASE ReadLine /\ ~UNCHANGED events
    <3> DEFINE line == file[Path][offset[Path] + 1]
    <3>0. DOMAIN events = 1..Len(events) /\ Len(events) \in Nat
      BY <1>0 DEF Notes
    <3>1. line # Garbage /\ UNCHANGED <<workers, written>>
          /\ DOMAIN events' = 1..(Len(events) + 1)
          /\ (\A k \in DOMAIN events : events'[k] = events[k]) /\ events'[Len(events) + 1] = line
      BY <2>4, Taken
    <3>2. line[1] \in workers /\ line[2] <= written[line[1]]
      BY <2>4, <3>1, TakenFresh
    <3>3. \A k \in DOMAIN events' : k \in DOMAIN events \/ k = Len(events) + 1
      BY <3>0, <3>1
    <3> QED
      BY <1>3, <2>1, <3>1, <3>2, <3>3 DEF Collected
  <2>5. CASE Expire
    BY <2>1, <2>5, Cleared DEF Collected
  <2> QED
    BY <2>1, <2>2, <2>3, <2>4, <2>5, JournalFrame DEF Collected
<1>5. CASE Expire
  <2>1. DOMAIN events' = {} /\ UNCHANGED written
    BY <1>5, Cleared DEF Expire, ctlRest, producer
  <2>2. ASSUME NEW i \in Identity PROVE heard'[i] <= written'[i]
    BY <1>0, <1>2, <1>5, <2>1, Heard DEF Collected
  <2> QED
    BY <2>1, <2>2 DEF Collected
<1> QED
  BY <1>4, <1>5, JournalFrame

LEMMA OrderStep ==
  ASSUME TypeOK, Journals, Fresh, LoggedInOrder, [Next]_vars
  PROVE  LoggedInOrder'
<1> USE DEF LoggedInOrder
<1>0. Notes
  BY TypeParts
<1>1. CASE DOMAIN events' = {}
  BY <1>1
<1>2. CASE UNCHANGED <<events, heard>>
  BY <1>2
<1>3. CASE ReadLine /\ ~UNCHANGED events
  <2> DEFINE line == file[Path][offset[Path] + 1]
  <2>1. line # Garbage /\ UNCHANGED heard /\ Later(line[1], line[2])
    BY <1>3, Taken, TakenFresh
  <2>2. PICK n \in Nat \ {0} : /\ DOMAIN events' = 1..n /\ DOMAIN events = 1..(n - 1)
                               /\ \A k \in 1..(n - 1) : events'[k] = events[k]
                               /\ events'[n] = line
    <3>1. DOMAIN events = 1..Len(events) /\ Len(events) \in Nat
      BY <1>0 DEF Notes
    <3>2. Len(events) + 1 \in Nat \ {0} /\ (Len(events) + 1) - 1 = Len(events)
      BY <3>1
    <3> QED
      BY <1>3, <3>1, <3>2, Taken
  <2> HIDE DEF line
  <2>3. ASSUME NEW k \in 1..(n - 1)
        PROVE  /\ events'[k][2] > heard'[events'[k][1]]
               /\ \A j \in 1..(k - 1) : events'[j][1] = events'[k][1] => events'[j][2] < events'[k][2]
    <3>1. \A j \in 1..k : events'[j] = events[j]
      BY <2>2
    <3> QED
      BY <2>1, <2>2, <3>1
  <2>4. /\ events'[n][2] > heard'[events'[n][1]]
        /\ \A j \in 1..(n - 1) : events'[j][1] = events'[n][1] => events'[j][2] < events'[n][2]
    BY <2>1, <2>2 DEF Later
  <2>5. \A k \in 1..n : k \in 1..(n - 1) \/ k = n
    BY <2>2
  <2> QED
    BY <2>2, <2>3, <2>4, <2>5
<1> QED
  BY <1>1, <1>2, <1>3, JournalFrame, Cleared DEF ReadLine

LEMMA ListsStep ==
  ASSUME TypeOK, Journals, Fresh, Lists, [Next]_vars
  PROVE  Lists'
<1>0. Notes /\ Ledgers /\ Ledgers'
  BY TypeParts, LedgersStep
<1> SUFFICES ASSUME NEW p \in Pid
             PROVE  /\ identities'[p] # NoRecord => /\ identities'[p].pid = p
                                                    /\ identities'[p] \in workers'
                    /\ stopping'[p] # NoRecord => /\ stopping'[p].pid = p
                                                  /\ written'[stopping'[p]] >= Stopping
                                                  /\ Later(stopping[p], Retired)'
  BY DEF Lists
<1>1. workers \subseteq workers' /\ \A i \in Identity : /\ written[i] <= written'[i]
                                                        /\ written[i] \in Nat /\ written'[i] \in Nat
  BY <1>0, WorkerFrame DEF Ledgers
<1>2. identities[p] # NoRecord => identities[p].pid = p /\ identities[p] \in workers'
  BY <1>1 DEF Lists
<1>3. stopping[p] # NoRecord => /\ stopping[p] \in Identity /\ stopping[p].pid = p
                                /\ written'[stopping[p]] >= Stopping
                                /\ Later(stopping[p], Retired)
  BY <1>0, <1>1 DEF Lists, Notes, Stopping
<1>4. ASSUME UNCHANGED events \/ ReadFails \/ Expire, stopping[p] # NoRecord
      PROVE  /\ heard'[stopping[p]] < Retired
             /\ \A k \in DOMAIN events' : events'[k][1] = stopping[p] => events'[k][2] < Retired
  <2>1. \A i \in Identity, n \in Nat : Later(i, n) => Later(i, n)'
    BY <1>4, LaterKept
  <2> QED
    BY <1>3, <1>4, <2>1 DEF Later, Retired
<1>5. CASE ~ReadLine
  <2>1. identities'[p] \in {identities[p], NoRecord}
    BY <1>5, ListFrame, Emptied
  <2>2. stopping'[p] \in {stopping[p], NoRecord}
    BY <1>5, ListFrame DEF Expire
  <2> QED
    BY <1>2, <1>3, <1>4, <1>5, <2>1, <2>2, JournalFrame DEF Later
<1>6. CASE ReadLine
  <2> DEFINE q == Path  line == file[q][offset[q] + 1]
  <2>1. CASE line = Garbage
    BY <1>2, <1>3, <1>4, <1>6, <2>1, Taken DEF Later
  <2>2. CASE line # Garbage
    <3>1. /\ q \in Pid /\ UNCHANGED heard
          /\ identities' = [identities EXCEPT ![q] = line[1]]
          /\ stopping' = [stopping EXCEPT ![q] = Marked(line, @)]
          /\ (\A k \in DOMAIN events : events'[k] = events[k]) /\ events'[Len(events) + 1] = line
          /\ DOMAIN events' = 1..(Len(events) + 1)
      BY <1>6, <2>2, Taken
    <3>0. \A k \in DOMAIN events' : k \in DOMAIN events \/ k = Len(events) + 1
      <4>1. DOMAIN events = 1..Len(events) /\ Len(events) \in Nat
        BY <1>0 DEF Notes
      <4> QED
        BY <3>1, <4>1
    <3>2. /\ line[1] \in Identity /\ line[2] \in 1..Retired
          /\ line[1] \in workers /\ line[1].pid = q
          /\ line[2] <= written[line[1]] /\ Later(line[1], line[2])
      BY <1>6, <2>2, TakenFresh
    <3> HIDE DEF line
    <3>3. identities'[p] # NoRecord => identities'[p].pid = p /\ identities'[p] \in workers'
      BY <1>0, <1>1, <1>2, <3>1, <3>2 DEF Notes
    <3>4. CASE stopping'[p] = stopping[p] /\ (p = q => line[2] < Stopping)
      <4>1. ASSUME stopping[p] # NoRecord, NEW k \in DOMAIN events', events'[k][1] = stopping[p]
            PROVE  events'[k][2] < Retired
        <5>1. CASE k \in DOMAIN events
          BY <1>3, <3>1, <4>1, <5>1 DEF Later
        <5>2. CASE k = Len(events) + 1
          BY <1>3, <3>1, <3>2, <3>4, <4>1, <5>2 DEF Stopping, Retired
        <5> QED
          BY <3>0, <4>1, <5>1, <5>2
      <4> QED
        BY <1>3, <3>1, <3>3, <3>4, <4>1 DEF Later
    <3>5. CASE p = q /\ line[2] = Stopping
      <4>1. stopping'[p] = line[1]
        BY <1>0, <3>1, <3>2, <3>5, MarkedCases DEF Notes, Stopping
      <4>2. written'[line[1]] >= Stopping
        BY <1>1, <3>2, <3>5 DEF Stopping
      <4>3. \A k \in DOMAIN events : events[k][2] \in Nat
        BY <1>0 DEF Notes, Event
      <4>4. ASSUME NEW k \in DOMAIN events', events'[k][1] = line[1] PROVE events'[k][2] < Retired
        BY <3>0, <3>1, <3>2, <3>5, <4>3, <4>4 DEF Later, Stopping, Retired
      <4>5. heard'[line[1]] < Retired
        BY <1>0, <3>1, <3>2, <3>5 DEF Later, Stopping, Retired, Ledgers
      <4> QED
        BY <3>2, <3>3, <3>5, <4>1, <4>2, <4>4, <4>5 DEF Later
    <3>6. CASE p = q /\ line[2] = Retired
      <4>1. stopping'[p] = NoRecord
        BY <1>0, <3>1, <3>2, <3>6, MarkedCases DEF Notes, Stopping, Retired
      <4> QED
        BY <3>3, <4>1
    <3>7. p # q \/ line[2] < Stopping => stopping'[p] = stopping[p]
      BY <1>0, <3>1, <3>2, MarkedCases DEF Notes, Stopping, Retired
    <3> QED
      BY <3>2, <3>4, <3>5, <3>6, <3>7 DEF Stopping, Retired
  <2> QED
    BY <2>1, <2>2
<1> QED
  BY <1>5, <1>6

LEMMA JustifiedStep ==
  ASSUME TypeOK, Lists, Justified, [Next]_vars
  PROVE  Justified'
<1> USE DEF Justified
<1>0. Notes /\ Ledgers /\ Ledgers'
  BY TypeParts, LedgersStep
<1>1. asked \subseteq asked' /\ \A i \in Identity : written[i] >= Stopping => written'[i] >= Stopping
  BY <1>0, WorkerFrame DEF Ledgers, Stopping, Retired
<1>2. \A i \in condemned' : i \in asked' \/ written'[i] >= Stopping
  <2>1. CASE condemned' \subseteq condemned
    BY <1>0, <1>1, <2>1 DEF Notes
  <2>2. CASE Expire
    <3>1. \A i \in condemned' : \/ \E p \in Pid : i = stopping[p] /\ i # NoRecord
                                \/ i \in Identity /\ retirements[i] # "none"
      BY <2>2 DEF Expire, Overdue, Announced
    <3>2. \A i \in condemned' : i \in asked \/ (i \in Identity /\ written[i] >= Stopping)
      BY <1>0, <3>1 DEF Lists, Notes
    <3> QED
      BY <1>1, <3>2
  <2> QED
    BY <2>1, <2>2, ListFrame
<1>3. \A i \in Identity : retirements'[i] # "none" => i \in asked'
  <2>1. CASE UNCHANGED retirements
    BY <1>1, <2>1
  <2>2. CASE Retire
    BY <1>0, <2>2 DEF Retire, Arm
  <2>3. CASE Expire
    BY <1>1, <2>3 DEF Expire
  <2>4. ASSUME NEW j \in Identity, ClockPasses(j)
        PROVE  \A i \in Identity : retirements'[i] # "none" => i \in asked'
    BY <1>0, <1>1, <2>4 DEF ClockPasses, Ledgers
  <2> QED
    BY <2>1, <2>2, <2>3, <2>4, ListFrame
<1> QED
  BY <1>2, <1>3
-----------------------------------------------------------------------------
LEMMA Start == Init => IInv
<1> SUFFICES ASSUME Init PROVE IInv
  OBVIOUS
<1>1. TypeOK
  <2>1. ProcTypeOK
    BY ProcessAssumption DEF Init, ProcInit, ProcTypeOK
  <2>2. Control
    BY DEF Init, Control
  <2>3. Files
    <3>1. <<>> \in Seq(Event \cup {Garbage}) /\ Len(<<>>) = 0
      OBVIOUS
    <3> QED
      BY <3>1 DEF Init, Files
  <2>4. Notes
    <3>1. <<>> \in Seq(Event)
      OBVIOUS
    <3> QED
      BY <3>1 DEF Init, Notes
  <2>5. Ledgers
    BY DEF Init, Ledgers, Retired
  <2> QED
    BY <2>1, <2>2, <2>3, <2>4, <2>5, TypeParts
<1>2. \A p \in Pid : DOMAIN file[p] = {} /\ Len(file[p]) = 0 /\ offset[p] = 0
  <2>1. DOMAIN <<>> = {} /\ Len(<<>>) = 0
    OBVIOUS
  <2>2. \A p \in Pid : file[p] = <<>> /\ offset[p] = 0
    BY DEF Init
  <2> QED
    BY <2>1, <2>2
<1>3. DOMAIN events = {}
  BY DEF Init
<1>4. Hired /\ Journals /\ Fresh /\ Collected /\ LoggedInOrder
  BY <1>2, <1>3 DEF Init, Hired, Journals, Fresh, Collected, LoggedInOrder
<1>5. Lists /\ Justified
  BY DEF Init, Lists, Justified
<1> QED
  BY <1>1, <1>4, <1>5 DEF IInv

LEMMA Invariance == Spec => []IInv
<1>1. IInv /\ [Next]_vars => IInv'
  BY TypeStep, HiredStep, JournalsStep, FreshStep, CollectedStep, OrderStep, ListsStep, JustifiedStep
  DEF IInv
<1> QED
  BY <1>1, Start, PTL DEF Spec

\* A worker whose retirement has been logged is not stopping any more: its
\* announced deadline cannot kill it (journal.py 99-103).
THEOREM Journal == Spec => []JournalInv
<1>1. IInv => JournalInv
  BY DEF IInv, JournalInv, RetiredIsNotStopping, Lists, Later
<1> QED
  BY <1>1, Invariance, PTL

\* Every event is logged at most once and in the order its worker emitted it,
\* across removed journals, reused PIDs and failed reads (journal.py 83-109).
THEOREM LogOrder == Spec => []LoggedInOrder
<1>1. IInv => LoggedInOrder
  BY DEF IInv
<1> QED
  BY <1>1, Invariance, PTL

\* No journal is removed with an unread event of a worker that is still there,
\* unless it writes into what a dead worker with its PID left (journal.py 104-108).
THEOREM UnreadIsKept == Spec => KeptWhileLive
<1> DEFINE Kept == \A p \in Pid : \A e \in Removed(p) : ~IsLive(e[1]) \/ Heir(e[1])
<1>1. IInv /\ [Next]_vars => [Kept]_vars
  <2> SUFFICES ASSUME IInv, [Next]_vars, NEW p \in Pid, NEW e \in Removed(p), IsLive(e[1])
               PROVE  Heir(e[1])
    OBVIOUS
  <2>0. ProcTypeOK /\ Files /\ Notes /\ Ledgers
    BY TypeParts DEF IInv
  <2>1. PICK k \in (offset[p] + 1)..Len(file[p]) : e = file[p][k] /\ e # Garbage
    BY DEF Removed
  <2>2. e[1] \in workers /\ e[1].pid = p
    BY <2>0, <2>1 DEF IInv, Journals, Files
  <2>3. Check
    <3>1. ASSUME NEW i \in Identity, Flush(i), ~UNCHANGED file PROVE file'[p] # <<>> \/ file[p] = <<>>
      <4>1. CASE p = i.pid
        <5>1. Len(file'[p]) = Len(file[p]) + 1 /\ Len(file[p]) \in Nat
          BY <2>0, <3>1, <4>1, Appended DEF IInv, Files
        <5>2. Len(<<>>) = 0
          OBVIOUS
        <5> QED
          BY <5>1, <5>2
      <4>2. CASE p # i.pid
        BY <3>1, <4>2, Appended DEF IInv
      <4> QED
        BY <4>1, <4>2
    <3>2. file[p] # <<>> /\ file'[p] = <<>>
      BY DEF Removed
    <3> QED
      BY <3>1, <3>2, JournalFrame
  <2>4. Finished(p)
    <3>1. UNCHANGED file[p] \/ Finished(p)
      BY <2>3, Emptied DEF IInv
    <3> QED
      BY <3>1 DEF Removed
  <2> DEFINE w == identities[p]
  <2>5. w \in workers /\ w.pid = p /\ ~IsLive(w) /\ w # NoRecord
    BY <2>4 DEF Finished, IInv, Lists
  <2>6. w.created <= born[p] /\ w.created \in Nat /\ e[1].created \in Nat
    BY <2>0, <2>2, <2>5 DEF IInv, Hired, Ledgers, Identity
  <2>7. born[p] = e[1].created /\ Running(p)
    BY <2>2 DEF IsLive
  <2>8. w.created # born[p]
    BY <2>5, <2>7 DEF IsLive
  <2> QED
    BY <2>2, <2>5, <2>6, <2>7, <2>8 DEF Heir
<1> QED
  BY <1>1, Invariance, PTL DEF Spec, KeptWhileLive

\* Only a worker that said it was stopping, or that the controller was asked to
\* retire, is ever killed: no process that merely has its PID, and no worker
\* that replaced it (journal.py 111-138, controller.py 83-98).
THEOREM NoOtherKilled == Spec => KillsOnlyRetiring
<1> DEFINE Meant == \A p \in Pid :
    (Kill /\ status'[p] # status[p]) => \/ SelfIdentity(p) \in asked
                                        \/ written[SelfIdentity(p)] >= Stopping
<1>1. IInv => Meant
  <2> SUFFICES ASSUME IInv, NEW p \in Pid, Kill, status'[p] # status[p]
               PROVE  SelfIdentity(p) \in asked \/ written[SelfIdentity(p)] >= Stopping
    OBVIOUS
  <2>0. ProcTypeOK /\ Notes
    BY TypeParts DEF IInv
  <2>1. PICK i \in condemned : SameProcess(i) /\ status' = [status EXCEPT ![i.pid] = "zombie"]
    BY DEF Kill
  <2>2. p = i.pid
    BY <2>0, <2>1 DEF ProcTypeOK
  <2>3. SelfIdentity(p) = i
    BY <2>1, <2>2 DEF SameProcess
  <2> QED
    BY <2>3 DEF IInv, Justified
<1>2. IInv /\ [Next]_vars => [Meant]_vars
  BY <1>1
<1> QED
  BY <1>2, Invariance, PTL DEF Spec, KillsOnlyRetiring
=============================================================================
