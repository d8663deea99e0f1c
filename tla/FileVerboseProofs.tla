-------------------------- MODULE FileVerboseProofs --------------------------
(* The target of the file verbosity, what each process has cached of it, and *)
(* what it has reported: none is ever ahead of the one before it, and none   *)
(* goes back.                                                                *)
EXTENDS FileVerbose, TLAPS

\* TypeOK in parts: the files, the observers, the lock, the updates.
FilesTyped == /\ target \in State
              /\ seen \in [Pid -> Observation \cup {NoRecord}]
ObserverTyped == /\ pc \in [Pid -> {"gone", "load", "idle", "adopt", "report"}]
                 /\ ready \in [Pid -> BOOLEAN]
                 /\ cache \in [Pid -> State]
                 /\ read \in [Pid -> State]
LockTyped == /\ lock \in Update \cup {NoUpdate}
             /\ \A u \in Update : lock = u <=> at[u] \in Locked
UpdateTyped == /\ at \in [Update -> {"new", "lock", "over"} \cup Locked]
               /\ by \in [Update -> Pid \cup {NoRecord}]
               /\ want \in [Update -> BOOLEAN]
               /\ got \in [Update -> State]
               /\ asked \in [Update -> {"new", "waiting", "ended"}]

\* the process itself has written its report
Wrote(p) == seen[p] # NoRecord /\ seen[p].id = SelfIdentity(p)

\* An observer runs as long as its process, which has reported when it is ready.
Observers == \A p \in Pid :
    /\ pc[p] # "gone" <=> Running(p)
    /\ seen[p] # NoRecord => seen[p].id.pid = p /\ seen[p].id.created <= born[p]
    /\ pc[p] = "load" => ~Wrote(p)
    /\ ready[p] => Wrote(p) /\ pc[p] \notin {"gone", "load"}

\* An update has a process until it is over.
Callers == \A u \in Update : at[u] \in {"lock"} \cup Locked => by[u] \in Pid

\* Who holds the lock knows the target, or the one that follows it.
Holders == \A u \in Update : /\ at[u] \in {"check", "store"} => got[u] = target
                             /\ at[u] = "write" => got[u].revision = target.revision + 1

\* The report is behind what the observer is about to report, that behind the
\* cache, and the cache behind the target.
Behind == \A p \in Pid :
    /\ cache[p].revision <= target.revision
    /\ read[p].revision <= target.revision
    /\ pc[p] = "report" => read[p].revision <= cache[p].revision
    /\ pc[p] # "gone" /\ Wrote(p) =>
          /\ seen[p].state.revision <= cache[p].revision
          /\ pc[p] = "report" => seen[p].state.revision <= read[p].revision

IInv == TypeOK /\ Observers /\ Callers /\ Holders /\ Behind
-----------------------------------------------------------------------------
LEMMA TypeParts == TypeOK <=> /\ ProcTypeOK /\ FilesTyped /\ ObserverTyped
                              /\ LockTyped /\ UpdateTyped
  BY DEF TypeOK, FilesTyped, ObserverTyped, LockTyped, UpdateTyped

LEMMA StateFields == /\ Unset \in State /\ Unset.revision = 0
                     /\ \A s \in State : s.revision \in Nat /\ s.enabled \in BOOLEAN
  BY DEF State, Unset

\* A running process has an identity.
LEMMA SelfType == ASSUME ProcTypeOK, NEW p \in Pid, Running(p)
                  PROVE  SelfIdentity(p) \in Identity
<1>1. born[p] \in 1..MaxBirths
  BY ProcessAssumption DEF ProcTypeOK, Running
<1> QED
  BY <1>1 DEF SelfIdentity, Identity

LEMMA ProcStep == ASSUME ProcTypeOK, [Next]_vars PROVE ProcTypeOK'
<1> USE DEF ProcTypeOK, procVars
<1>1. ASSUME NEW p \in Pid, Start(p) PROVE ProcTypeOK'
  BY <1>1, ProcessAssumption DEF Start, Birth
<1>2. ASSUME NEW p \in Pid, Die(p) \/ Wait(p) PROVE ProcTypeOK'
  BY <1>2 DEF Die, Death, Wait, Reap, Running
<1>3. CASE UNCHANGED procVars
  BY <1>3
<1> QED
  BY <1>1, <1>2, <1>3
  DEF Next, Kernel, Observe, Load, Refresh, Adopt, Report, ReportFails, Run, Enter, ReadTarget,
      Check, WriteTarget, Store, Fails, Caller, Return, Ask, vars

LEMMA FilesStep == ASSUME TypeOK, Observers, [Next]_vars PROVE FilesTyped'
<1> USE DEF FilesTyped, files
<1>0. ProcTypeOK /\ FilesTyped /\ ObserverTyped /\ UpdateTyped
  BY TypeParts
<1>1. ASSUME NEW p \in Pid, Report(p) PROVE FilesTyped'
  <2>1. SelfIdentity(p) \in Identity
    BY <1>0, <1>1, SelfType DEF Report, Observers
  <2>2. [id |-> SelfIdentity(p), state |-> read[p]] \in Observation
    BY <1>0, <2>1 DEF ObserverTyped, Observation
  <2> QED
    BY <1>0, <1>1, <2>2 DEF Report, ReportRead
<1>2. ASSUME NEW u \in Update, WriteTarget(u) PROVE FilesTyped'
  BY <1>0, <1>2 DEF WriteTarget, UpdateTyped
<1>3. CASE UNCHANGED files
  BY <1>0, <1>3
<1> QED
  BY <1>1, <1>2, <1>3
  DEF Next, Kernel, Start, Die, Wait, Observe, Load, Refresh, Adopt, ReportFails, Run, Enter,
      ReadTarget, Check, Store, Fails, Caller, Return, Ask, vars

LEMMA ObserverStep == ASSUME TypeOK, Callers, [Next]_vars PROVE ObserverTyped'
<1> USE DEF ObserverTyped, observer
<1>0. FilesTyped /\ ObserverTyped /\ UpdateTyped /\ Unset \in State
  BY TypeParts, StateFields
<1>1. ASSUME NEW p \in Pid, Start(p) \/ Die(p) PROVE ObserverTyped'
  <2>1. CASE Start(p)
    BY <1>0, <2>1 DEF Start
  <2>2. CASE Die(p)
    <3>1. /\ pc' = [pc EXCEPT ![p] = "gone"] /\ ready' = [ready EXCEPT ![p] = FALSE]
          /\ cache' = [cache EXCEPT ![p] = Unset] /\ read' = [read EXCEPT ![p] = Unset]
      BY <2>2 DEF Die
    <3> QED
      BY <1>0, <3>1
  <2> QED
    BY <1>1, <2>1, <2>2
<1>2. ASSUME NEW p \in Pid, Observe(p) PROVE ObserverTyped'
  <2>1. CASE Load(p) \/ Refresh(p)
    BY <1>0, <2>1 DEF FilesTyped, Load, Refresh
  <2>2. CASE Adopt(p)
    BY <1>0, <2>2 DEF Adopt, AdoptNewer
  <2>3. CASE Report(p) \/ ReportFails(p)
    BY <1>0, <2>3 DEF Report, ReportFails
  <2> QED
    BY <1>2, <2>1, <2>2, <2>3 DEF Observe
<1>3. ASSUME NEW u \in Update, Store(u) PROVE ObserverTyped'
  BY <1>0, <1>3 DEF UpdateTyped, Store
<1>4. CASE UNCHANGED <<observer, cache>>
  BY <1>0, <1>4
<1> QED
  BY <1>1, <1>2, <1>3, <1>4
  DEF Next, Kernel, Wait, Run, Enter, ReadTarget, Check, WriteTarget, Fails, KeepOnFailure,
      Caller, Return, Ask, vars

LEMMA LockStep == ASSUME TypeOK, [Next]_vars PROVE LockTyped'
<1> USE DEF LockTyped, UpdateTyped, Locked, Update, NoUpdate, updates
<1>0. LockTyped /\ UpdateTyped
  BY TypeParts
<1>1. ASSUME NEW p \in Pid, Die(p) PROVE LockTyped'
  BY <1>0, <1>1 DEF Die
<1>2. ASSUME NEW u \in Update, Enter(u) PROVE LockTyped'
  BY <1>0, <1>2 DEF Enter, Goto
<1>3. ASSUME NEW u \in Update, ReadTarget(u) \/ Check(u) \/ WriteTarget(u) PROVE LockTyped'
  BY <1>0, <1>3 DEF ReadTarget, Check, WriteTarget, Goto
<1>4. ASSUME NEW u \in Update, Store(u) PROVE LockTyped'
  BY <1>0, <1>4 DEF Store, Goto
<1>5. ASSUME NEW u \in Update, Fails(u) PROVE LockTyped'
  BY <1>0, <1>5 DEF Fails, LeaveOnFailure
<1>6. ASSUME NEW u \in Update, NEW p \in Pid, NEW enabled \in BOOLEAN, Ask(u, p, enabled)
      PROVE  LockTyped'
  BY <1>0, <1>6 DEF Ask
<1>7. CASE UNCHANGED <<lock, at>>
  BY <1>0, <1>7
<1> QED
  BY <1>1, <1>2, <1>3, <1>4, <1>5, <1>6, <1>7
  DEF Next, Kernel, Start, Wait, Observe, Load, Refresh, Adopt, Report, ReportFails, Run,
      Caller, Return, vars

LEMMA UpdateStep == ASSUME TypeOK, [Next]_vars PROVE UpdateTyped'
<1> USE DEF UpdateTyped, Locked, updates
<1>0. FilesTyped /\ UpdateTyped /\ Unset \in State
  BY TypeParts, StateFields
<1>1. ASSUME NEW p \in Pid, Die(p) PROVE UpdateTyped'
  BY <1>0, <1>1 DEF Die
<1>2. ASSUME NEW u \in Update, Enter(u) \/ ReadTarget(u) \/ WriteTarget(u) PROVE UpdateTyped'
  BY <1>0, <1>2 DEF Enter, ReadTarget, WriteTarget, Goto, FilesTyped
<1>3. ASSUME NEW u \in Update, Check(u) PROVE UpdateTyped'
  <2>1. [enabled |-> want[u], revision |-> got[u].revision + 1] \in State
    BY <1>0, StateFields DEF State
  <2>2. got'[u] \in State /\ at'[u] \in {"store", "write"}
        /\ got' = [got EXCEPT ![u] = got'[u]] /\ at' = [at EXCEPT ![u] = at'[u]]
    BY <1>0, <1>3, <2>1 DEF Check
  <2>3. UNCHANGED <<by, want, asked>>
    BY <1>3 DEF Check
  <2> QED
    BY <1>0, <2>2, <2>3
<1>4. ASSUME NEW u \in Update, Store(u) \/ Fails(u) PROVE UpdateTyped'
  BY <1>0, <1>4 DEF Store, Fails, Goto
<1>5. ASSUME NEW u \in Update, Return(u) PROVE UpdateTyped'
  BY <1>0, <1>5 DEF Return
<1>6. ASSUME NEW u \in Update, NEW p \in Pid, NEW enabled \in BOOLEAN, Ask(u, p, enabled)
      PROVE  UpdateTyped'
  BY <1>0, <1>6 DEF Ask
<1>7. CASE UNCHANGED updates
  BY <1>0, <1>7
<1> QED
  BY <1>1, <1>2, <1>3, <1>4, <1>5, <1>6, <1>7
  DEF Next, Kernel, Start, Wait, Observe, Load, Refresh, Adopt, Report, ReportFails, Run,
      Caller, vars

LEMMA TypeStep == ASSUME TypeOK, Observers, Callers, [Next]_vars PROVE TypeOK'
<1>1. ProcTypeOK' /\ FilesTyped' /\ ObserverTyped' /\ LockTyped' /\ UpdateTyped'
  BY TypeParts, ProcStep, FilesStep, ObserverStep, LockStep, UpdateStep
<1>2. (ProcTypeOK /\ FilesTyped /\ ObserverTyped /\ LockTyped /\ UpdateTyped)' => TypeOK'
  BY DEF TypeOK, FilesTyped, ObserverTyped, LockTyped, UpdateTyped
<1> QED
  BY <1>1, <1>2
-----------------------------------------------------------------------------
LEMMA ObserversStep == ASSUME TypeOK, Observers, [Next]_vars PROVE Observers'
<1>0. /\ ProcTypeOK /\ FilesTyped /\ ObserverTyped
      /\ \A p \in Pid : pc[p] # "gone" => SelfIdentity(p) \in Identity
  BY TypeParts, SelfType DEF Observers
<1> USE DEF Observers, Wrote, Running, SelfIdentity, procVars, files, observer
<1>1. ASSUME NEW p \in Pid, Start(p) PROVE Observers'
  BY <1>0, <1>1 DEF Start, Birth, ProcTypeOK, FilesTyped, ObserverTyped, Observation, Identity
<1>2. ASSUME NEW p \in Pid, Die(p) PROVE Observers'
  <2>1. /\ Death(p) /\ pc' = [pc EXCEPT ![p] = "gone"]
        /\ ready' = [ready EXCEPT ![p] = FALSE] /\ UNCHANGED files
    BY <1>2 DEF Die
  <2> QED
    BY <1>0, <2>1 DEF Death, ProcTypeOK, ObserverTyped
<1>3. ASSUME NEW p \in Pid, Wait(p) PROVE Observers'
  BY <1>0, <1>3 DEF Wait, Reap, ProcTypeOK
<1>4. ASSUME NEW p \in Pid, Load(p) \/ Refresh(p) \/ Adopt(p) \/ ReportFails(p)
      PROVE  Observers'
  BY <1>0, <1>4 DEF Load, Refresh, Adopt, AdoptNewer, ReportFails, ObserverTyped
<1>5. ASSUME NEW p \in Pid, Report(p) PROVE Observers'
  <2>1. /\ pc[p] = "report" /\ pc' = [pc EXCEPT ![p] = "idle"]
        /\ ready' = [ready EXCEPT ![p] = TRUE] /\ UNCHANGED procVars
        /\ seen' = [seen EXCEPT ![p] = [id |-> SelfIdentity(p), state |-> read[p]]]
    BY <1>5 DEF Report, ReportRead
  <2>2. [id |-> SelfIdentity(p), state |-> read[p]] # NoRecord
    BY <1>0, <2>1, ReportAssumption DEF ObserverTyped, Observation
  <2>3. Wrote(p)' /\ seen'[p].id.pid = p /\ seen'[p].id.created = born[p]
    BY <1>0, <2>1, <2>2 DEF FilesTyped
  <2>4. \A q \in Pid \ {p} : seen'[q] = seen[q] /\ pc'[q] = pc[q] /\ ready'[q] = ready[q]
    BY <1>0, <2>1 DEF FilesTyped, ObserverTyped
  <2>5. pc'[p] = "idle" /\ born[p] \in Nat
    BY <1>0, <2>1, ProcessAssumption DEF ObserverTyped, ProcTypeOK
  <2> QED
    BY <2>1, <2>3, <2>4, <2>5
<1>6. CASE UNCHANGED <<procVars, seen, pc, ready>>
  BY <1>6
<1> QED
  BY <1>1, <1>2, <1>3, <1>4, <1>5, <1>6
  DEF Next, Kernel, Observe, Run, Enter, ReadTarget, Check, WriteTarget, Store, Fails, Caller,
      Return, Ask, vars

LEMMA CallersStep == ASSUME TypeOK, Callers, [Next]_vars PROVE Callers'
<1> USE DEF Callers, UpdateTyped, Locked, updates
<1>0. UpdateTyped
  BY TypeParts
<1>1. ASSUME NEW p \in Pid, Die(p) PROVE Callers'
  BY <1>0, <1>1 DEF Die
<1>2. ASSUME NEW u \in Update, Run(u) PROVE Callers'
  BY <1>0, <1>2 DEF Run, Enter, ReadTarget, Check, WriteTarget, Store, Fails, Goto
<1>3. ASSUME NEW u \in Update, Return(u) PROVE Callers'
  BY <1>0, <1>3 DEF Return, Through
<1>4. ASSUME NEW u \in Update, NEW p \in Pid, NEW enabled \in BOOLEAN, Ask(u, p, enabled)
      PROVE  Callers'
  BY <1>0, <1>4 DEF Ask
<1>5. CASE UNCHANGED updates
  BY <1>0, <1>5
<1> QED
  BY <1>1, <1>2, <1>3, <1>4, <1>5
  DEF Next, Kernel, Start, Wait, Observe, Load, Refresh, Adopt, Report, ReportFails, Caller, vars

\* The target is written by the holder of the lock, and nobody else has it.
LEMMA HoldersStep == ASSUME TypeOK, Holders, [Next]_vars PROVE Holders'
<1> USE DEF Holders, LockTyped, UpdateTyped, Locked, updates, files
<1>0. LockTyped /\ UpdateTyped /\ FilesTyped
  BY TypeParts
<1>1. ASSUME NEW p \in Pid, Die(p) PROVE Holders'
  BY <1>0, <1>1 DEF Die
<1>2. ASSUME NEW u \in Update, Enter(u) \/ ReadTarget(u) \/ Store(u) \/ Fails(u) PROVE Holders'
  BY <1>0, <1>2 DEF Enter, ReadTarget, Store, Fails, Goto
<1>3. ASSUME NEW u \in Update, Check(u) PROVE Holders'
  BY <1>0, <1>3 DEF Check
<1>4. ASSUME NEW u \in Update, WriteTarget(u) PROVE Holders'
  <2>1. at[u] = "write" /\ at' = [at EXCEPT ![u] = "store"] /\ target' = got[u] /\ got' = got
    BY <1>4 DEF WriteTarget, Goto
  <2>2. \A v \in Update \ {u} : at[v] \notin Locked
    BY <1>0, <2>1
  <2> QED
    BY <1>0, <2>1, <2>2
<1>5. ASSUME NEW u \in Update, NEW p \in Pid, NEW enabled \in BOOLEAN, Ask(u, p, enabled)
      PROVE  Holders'
  BY <1>0, <1>5 DEF Ask
<1>6. CASE UNCHANGED <<target, at, got>>
  BY <1>0, <1>6
<1> QED
  BY <1>1, <1>2, <1>3, <1>4, <1>5, <1>6
  DEF Next, Kernel, Start, Wait, Observe, Load, Refresh, Adopt, Report, ReportFails, Run, Caller,
      Return, vars

\* What is adopted or stored is never older than the cache, nor newer than the target.
LEMMA BehindStep == ASSUME IInv, TypeOK', [Next]_vars PROVE Behind'
<1> USE DEF Behind, Wrote
<1>0. ProcTypeOK /\ FilesTyped /\ ObserverTyped /\ LockTyped /\ UpdateTyped /\ Observers
      /\ Callers /\ Holders /\ Behind
  BY TypeParts DEF IInv
<1>1. /\ \A p \in Pid : cache[p].revision \in Nat /\ read[p].revision \in Nat
      /\ \A u \in Update : got[u].revision \in Nat
      /\ \A p \in Pid : seen[p] # NoRecord => seen[p].state.revision \in Nat
      /\ target.revision \in Nat
  BY <1>0, StateFields DEF ObserverTyped, UpdateTyped, FilesTyped, Observation
<1>2. ASSUME NEW p \in Pid, Start(p) PROVE Behind'
  <2>1. /\ pc' = [pc EXCEPT ![p] = "load"] /\ UNCHANGED <<files, read, cache>>
        /\ born' = [born EXCEPT ![p] = @ + 1]
    BY <1>2 DEF Start, Birth, observer
  <2>2. ~Wrote(p)'
    <3>1. born[p] \in Nat /\ born'[p] = born[p] + 1 /\ seen'[p] = seen[p]
      BY <1>0, <2>1, ProcessAssumption DEF ProcTypeOK, files
    <3>2. seen[p] # NoRecord => seen[p].id.created \in Nat /\ seen[p].id.created <= born[p]
      BY <1>0 DEF Observers, FilesTyped, Observation, Identity
    <3> QED
      BY <3>1, <3>2 DEF SelfIdentity
  <2>3. \A q \in Pid \ {p} : pc'[q] = pc[q] /\ (Wrote(q)' <=> Wrote(q))
    BY <1>0, <2>1 DEF ProcTypeOK, ObserverTyped, SelfIdentity, files
  <2>4. pc'[p] = "load"
    BY <1>0, <2>1 DEF ObserverTyped
  <2> QED
    BY <1>0, <2>1, <2>2, <2>3, <2>4 DEF files
<1>3. ASSUME NEW p \in Pid, Die(p) PROVE Behind'
  <2>1. /\ pc' = [pc EXCEPT ![p] = "gone"] /\ UNCHANGED <<files, born>>
        /\ cache' = [cache EXCEPT ![p] = Unset] /\ read' = [read EXCEPT ![p] = Unset]
    BY <1>3 DEF Die, Death
  <2> QED
    BY <1>0, <1>1, <2>1, StateFields DEF ObserverTyped, SelfIdentity, files
<1>4. ASSUME NEW p \in Pid, Wait(p) PROVE Behind'
  BY <1>0, <1>4 DEF Wait, Reap, SelfIdentity, files, observer
<1>5. ASSUME NEW p \in Pid, Load(p) \/ Refresh(p) PROVE Behind'
  BY <1>0, <1>1, <1>5 DEF Load, Refresh, Observers, ObserverTyped, SelfIdentity, files, procVars
<1>6. ASSUME NEW p \in Pid, Adopt(p) PROVE Behind'
  BY <1>0, <1>1, <1>6 DEF Adopt, AdoptNewer, ObserverTyped, SelfIdentity, files, procVars
<1>7. ASSUME NEW p \in Pid, Report(p) PROVE Behind'
  <2>1. /\ pc[p] = "report" /\ pc' = [pc EXCEPT ![p] = "idle"]
        /\ read' = [read EXCEPT ![p] = Unset]
        /\ seen' = [seen EXCEPT ![p] = [id |-> SelfIdentity(p), state |-> read[p]]]
        /\ UNCHANGED <<born, target, cache>>
    BY <1>7 DEF Report, ReportRead, procVars
  <2> QED
    BY <1>0, <1>1, <2>1, StateFields DEF FilesTyped, ObserverTyped, SelfIdentity
<1>8. ASSUME NEW p \in Pid, ReportFails(p) PROVE Behind'
  BY <1>0, <1>1, <1>8, StateFields DEF ReportFails, ObserverTyped, SelfIdentity, files, procVars
<1>9. ASSUME NEW u \in Update, WriteTarget(u) PROVE Behind'
  <2>1. at[u] = "write" /\ target' = got[u] /\ UNCHANGED <<born, seen, pc, read, cache>>
    BY <1>9 DEF WriteTarget, Goto, procVars, observer
  <2>2. target'.revision = target.revision + 1
    BY <1>0, <2>1 DEF Holders
  <2> QED
    BY <1>0, <1>1, <2>1, <2>2 DEF SelfIdentity
<1>10. ASSUME NEW u \in Update, Store(u) PROVE Behind'
  <2>1. /\ got[u] = target /\ by[u] \in Pid
        /\ cache' = [cache EXCEPT ![by[u]] = target] /\ UNCHANGED <<born, files, pc, read>>
    BY <1>0, <1>10 DEF Store, Goto, Holders, Callers, Locked, procVars, observer
  <2> QED
    BY <1>0, <1>1, <2>1 DEF ObserverTyped, SelfIdentity, files
<1>11. CASE UNCHANGED <<born, files, pc, cache, read>>
  BY <1>0, <1>11 DEF SelfIdentity, files
<1> QED
  BY <1>2, <1>3, <1>4, <1>5, <1>6, <1>7, <1>8, <1>9, <1>10, <1>11
  DEF Next, Kernel, Observe, Run, Enter, ReadTarget, Check, Fails, KeepOnFailure, Caller, Return,
      Ask, vars, procVars, observer

LEMMA Invariance == Spec => []IInv
<1>1. Init => IInv
  <2>1. Init => TypeOK
    BY ProcessAssumption, UpdateAssumption, StateFields
    DEF Init, ProcInit, TypeOK, ProcTypeOK, Update, NoUpdate, Locked
  <2>2. Init => Observers /\ Callers /\ Holders /\ Behind
    BY StateFields DEF Init, ProcInit, Observers, Running, Wrote, Callers, Holders, Behind,
                       Locked
  <2> QED
    BY <2>1, <2>2 DEF IInv
<1>2. IInv /\ [Next]_vars => IInv'
  BY TypeStep, ObserversStep, CallersStep, HoldersStep, BehindStep DEF IInv
<1> QED
  BY <1>1, <1>2, PTL DEF Spec

\* For any set of PIDs and any number of updates: nothing is cached or reported
\* that is ahead of the target, so no update finds that the revision moved
\* backwards.
THEOREM Verbosity == Spec => []VerbosityInv
<1>1. ASSUME IInv PROVE NothingAhead
  <2>1. ASSUME NEW p \in Pid, Reported(p) PROVE seen[p].state.revision <= cache[p].revision
    <3>1. Wrote(p) /\ pc[p] # "gone"
      BY <2>1, <1>1, TypeParts
      DEF Reported, IsLive, Wrote, SelfIdentity, IInv, Observers, FilesTyped, Observation, Identity
    <3> QED
      BY <1>1, <3>1 DEF IInv, Behind
  <2>2. ASSUME NEW u \in Update, at[u] = "check" PROVE ~Backwards(u)
    <3>1. by[u] \in Pid /\ got[u] = target
      BY <1>1, <2>2 DEF IInv, Callers, Holders, Locked
    <3>2. cache[by[u]].revision \in Nat /\ target.revision \in Nat
      BY <1>1, <3>1, TypeParts, StateFields DEF IInv, ObserverTyped, FilesTyped
    <3> QED
      BY <1>1, <3>1, <3>2 DEF Backwards, IInv, Behind
  <2> QED
    BY <1>1, <2>1, <2>2 DEF NothingAhead, IInv, Behind
<1>2. IInv => VerbosityInv
  BY <1>1 DEF IInv, VerbosityInv
<1> QED
  BY <1>2, Invariance, PTL

\* The target, a process's cache and its report never go back.
THEOREM Monotony == Spec => NeverBack
<1> DEFINE Forward == /\ target'.revision >= target.revision
                      /\ \A p \in Pid : (ready[p] /\ ready'[p]) =>
                            /\ cache'[p].revision >= cache[p].revision
                            /\ seen'[p].state.revision >= seen[p].state.revision
<1>1. ASSUME IInv, Next PROVE Forward
  <2>0. ProcTypeOK /\ FilesTyped /\ ObserverTyped /\ UpdateTyped /\ Observers /\ Callers
        /\ Holders /\ Behind
    BY <1>1, TypeParts DEF IInv
  <2>1. /\ \A p \in Pid : cache[p].revision \in Nat /\ read[p].revision \in Nat
        /\ \A p \in Pid : ready[p] => seen[p].state.revision \in Nat
        /\ target.revision \in Nat
    BY <2>0, StateFields DEF ObserverTyped, FilesTyped, Observation, Observers, Wrote
  <2>2. ASSUME NEW p \in Pid, Kernel(p) PROVE Forward
    <3>1. /\ UNCHANGED files
          /\ \A q \in Pid : ready[q] /\ ready'[q] => cache'[q] = cache[q]
      BY <2>0, <2>2 DEF Kernel, Start, Die, Wait, observer, ObserverTyped
    <3> QED
      BY <2>1, <3>1 DEF files
  <2>3. ASSUME NEW p \in Pid, Load(p) \/ Refresh(p) \/ ReportFails(p) PROVE Forward
    BY <2>0, <2>1, <2>3 DEF Load, Refresh, ReportFails, ObserverTyped, Observers, files
  <2>4. ASSUME NEW p \in Pid, Adopt(p) PROVE Forward
    BY <2>0, <2>1, <2>4 DEF Adopt, AdoptNewer, ObserverTyped, files
  <2>5. ASSUME NEW p \in Pid, Report(p) PROVE Forward
    <3>1. /\ pc[p] = "report" /\ UNCHANGED <<target, cache>>
          /\ seen' = [seen EXCEPT ![p] = [id |-> SelfIdentity(p), state |-> read[p]]]
          /\ \A q \in Pid \ {p} : ready'[q] = ready[q]
      BY <2>0, <2>5 DEF Report, ReportRead, ObserverTyped
    <3>2. ready[p] => seen[p].state.revision <= read[p].revision
      BY <2>0, <3>1 DEF Observers, Behind
    <3> QED
      BY <2>0, <2>1, <3>1, <3>2 DEF FilesTyped
  <2>6. ASSUME NEW u \in Update, WriteTarget(u) PROVE Forward
    BY <2>0, <2>1, <2>6 DEF WriteTarget, Goto, Holders
  <2>7. ASSUME NEW u \in Update, Store(u) PROVE Forward
    <3>1. /\ got[u] = target /\ by[u] \in Pid /\ UNCHANGED files
          /\ cache' = [cache EXCEPT ![by[u]] = target]
      BY <2>0, <2>7 DEF Store, Goto, Holders, Callers, Locked
    <3> QED
      BY <2>0, <2>1, <3>1 DEF ObserverTyped, Behind, files
  <2>8. CASE UNCHANGED <<files, cache>>
    BY <2>1, <2>8 DEF files
  <2> QED
    BY <1>1, <2>2, <2>3, <2>4, <2>5, <2>6, <2>7, <2>8
    DEF Next, Observe, Run, Enter, ReadTarget, Check, Fails, KeepOnFailure, Caller, Return, Ask
<1>2. IInv /\ [Next]_vars => [Forward]_vars
  BY <1>1
<1> QED
  BY <1>2, Invariance, PTL DEF Spec, NeverBack
=============================================================================
