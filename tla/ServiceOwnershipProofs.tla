----------------------- MODULE ServiceOwnershipProofs -----------------------
(* Theorems about ServiceOwnership, for every set of PIDs and every number   *)
(* of processes that use one PID in turn: what holds of processes, exclusion, *)
(* and what follows from it for the workers and for the files.               *)
EXTENDS ServiceOwnership, TLAPS

USE ProcessAssumption

(* Layer 1: types, and what holds of processes and identities.               *)

\* the processes that have a state are those that run
Alive == \A p \in Pid : Running(p) <=> pc[p] # "gone"
\* only who has locked, or was forked from one that has, is in a scope
Unscoped == \A p \in Pid : pc[p] \in {"gone", "lock"} => scope[p] = NoRecord /\ parent[p] = NoRecord
\* a master at work is in the scope it created
Scoped == \A p \in Pid : pc[p] \in {"open", "serve", "stop", "close"} => scope[p] = Own(p)
\* no record names a process that is still to come
PastOf(i, b) == i = NoRecord \/ i.created <= b[i.pid]
Past(i) == PastOf(i, born)
Bygone == /\ \A i \in sharing \cup left : Past(i)
          /\ \A n \in Name : Past(files[n])
          /\ \A p \in Pid : Past(scope[p]) /\ Past(parent[p]) /\ Past(service[p])
\* a worker at work has read a record
AtService == {"work", "update", "checked", "marked"}
Informed == \A p \in Pid : pc[p] \in AtService => service[p] # NoRecord
Base == TypeOK /\ Alive /\ Unscoped /\ Bygone /\ Informed /\ Scoped

LEMMA OwnType == ASSUME TypeOK, Alive, NEW p \in Pid, pc[p] # "gone"
                 PROVE  Own(p) \in Identity /\ IsLive(Own(p)) /\ Past(Own(p))
<1>1. Running(p) /\ born[p] \in 1..MaxBirths
  BY DEF TypeOK, ProcTypeOK, Alive, Running
<1>2. Own(p) \in Identity
  BY <1>1 DEF Own, SelfIdentity, Identity
<1> QED
  BY <1>1, <1>2 DEF Own, SelfIdentity, IsLive, Identity, Past, PastOf

LEMMA InitBase == Init => Base
<1> SUFFICES ASSUME Init PROVE Base
  OBVIOUS
<1>1. TypeOK
  BY DEF Init, TypeOK, ProcTypeOK, ProcInit, Opening, Name
<1>2. Alive
  BY DEF Init, ProcInit, Alive, Running
<1> QED
  BY <1>1, <1>2 DEF Init, Base, Unscoped, Bygone, Past, PastOf, Informed, Scoped, AtService

LEMMA TypeStep == Base /\ [Next]_vars => TypeOK'
<1> SUFFICES ASSUME Base, [Next]_vars PROVE TypeOK'
  OBVIOUS
<1> USE DEF Base, TypeOK, ProcTypeOK, Running, MasterPc, WorkerPc, ExitPc, Goto, locals, history,
    Opening
<1>1. ASSUME NEW p \in Pid, Die(p) PROVE TypeOK'
  BY <1>1 DEF Die, End, Forget
<1>2. ASSUME NEW p \in Pid, Terminate(p) PROVE TypeOK'
  <2>1. Own(p) \in Identity
    BY <1>2, OwnType DEF Terminate
  <2> QED
    BY <1>2, <2>1 DEF Terminate, Name
<1>3. ASSUME NEW p \in Pid, Serve(p) PROVE TypeOK'
  BY <1>3 DEF Serve, Birth
<1>4. ASSUME NEW p \in Pid, Lock(p) PROVE TypeOK'
  <2>1. Own(p) \in Identity
    BY <1>4, OwnType DEF Lock
  <2> QED
    BY <1>4, <2>1 DEF Lock
<1>5. ASSUME NEW p \in Pid, Open(p) PROVE TypeOK'
  <2>1. Own(p) \in Identity
    BY <1>5, OwnType DEF Open
  <2>2. Opening[step[p]] \in Name
    BY DEF Name
  <2>3. files' \in [Name -> Identity \cup {NoRecord}]
    BY <1>5, <2>1, <2>2 DEF Open, Opened
  <2>4. step' \in [Pid -> 1..Len(Opening)]
    BY <1>5 DEF Open
  <2>5. pc' \in [Pid -> {"gone"} \cup MasterPc \cup WorkerPc \cup ExitPc]
    BY <1>5 DEF Open
  <2> QED
    BY <1>5, <2>3, <2>4, <2>5 DEF Open
<1>6. ASSUME NEW p \in Pid, OpenFails(p) \/ Interrupt(p) \/ Stopped(p) \/ CloseFails(p)
      PROVE  TypeOK'
  <2>1. pc[p] # "gone" => Own(p) \in Identity
    BY OwnType
  <2> QED
    BY <1>6, <2>1 DEF OpenFails, Interrupt, Stopped, CloseFails
<1>7. ASSUME NEW p \in Pid, Watch(p) PROVE TypeOK'
  <2>1. Own(p) \in Identity
    BY <1>7, OwnType DEF Watch
  <2> QED
    BY <1>7, <2>1 DEF Watch
<1>8. ASSUME NEW p \in Pid, Finally(p) PROVE TypeOK'
  BY <1>8 DEF Finally, Closing
<1>9. ASSUME NEW p \in Pid, Close(p) PROVE TypeOK'
  <2>1. Closing[step[p]] \in Name
    BY DEF Name, Closing
  <2>2. files' \in [Name -> Identity \cup {NoRecord}]
    BY <1>9, <2>1 DEF Close
  <2>3. /\ step' \in [Pid -> 1..Len(Opening)]
        /\ pc' \in [Pid -> {"gone"} \cup MasterPc \cup WorkerPc \cup ExitPc]
    BY <1>9 DEF Close, Closing
  <2>4. left' \subseteq Identity
    BY <1>9, OwnType DEF Close, Scoped
  <2> QED
    BY <1>9, <2>2, <2>3, <2>4 DEF Close
<1>10. ASSUME NEW p \in Pid, Unlock(p) PROVE TypeOK'
  BY <1>10 DEF Unlock, End, Forget
<1>11. ASSUME NEW p \in Pid, NEW m \in Pid, Fork(m, p) PROVE TypeOK'
  <2>1. Own(m) \in Identity
    BY <1>11, OwnType DEF Fork
  <2>2. [pid |-> p, created |-> born'[p]] \in Identity
    BY <1>11 DEF Fork, Birth, Identity
  <2> QED
    BY <1>11, <2>1, <2>2 DEF Fork, Birth
<1>12. ASSUME NEW p \in Pid, Boot(p) \/ Verify(p) \/ ReadTarget(p) \/ Unwind(p) PROVE TypeOK'
  BY <1>12 DEF Boot, Verify, ReadTarget, Unwind, Name, IsLive
<1>13. ASSUME NEW p \in Pid, Mark(p) \/ WriteTarget(p) PROVE TypeOK'
  BY <1>13 DEF Mark, WriteTarget, Name, Informed, AtService
<1>14. ASSUME NEW p \in Pid, Signal(p) PROVE TypeOK'
  <2>1. service[p].pid \in Pid
    BY <1>14 DEF Signal, Informed, Identity, AtService
  <2>2. pc[service[p].pid] = "serve" => Own(service[p].pid) \in Identity
    BY <2>1, OwnType
  <2>3. pc' \in [Pid -> {"gone"} \cup MasterPc \cup WorkerPc \cup ExitPc]
    BY <1>14, <2>1 DEF Signal
  <2>4. told' \subseteq Identity
    BY <1>14, <2>2 DEF Signal
  <2> QED
    BY <1>14, <2>3, <2>4 DEF Signal
<1>15. CASE UNCHANGED vars
  BY <1>15 DEF vars
<1> QED
  BY <1>1, <1>2, <1>3, <1>4, <1>5, <1>6, <1>7, <1>8, <1>9, <1>10, <1>11, <1>12, <1>13, <1>14, <1>15
  DEF Next, Master, Exit, Worker

\* a step of another process leaves a process alone, except for a signal
LEMMA Turn == ASSUME Base, [Next]_vars, NEW q \in Pid
              PROVE  \/ Die(q) \/ Master(q) \/ Exit(q) \/ Worker(q)
                     \/ /\ pc'[q] = pc[q] \/ (pc[q] = "serve" /\ pc'[q] = "stop")
                        /\ step'[q] = step[q] /\ scope'[q] = scope[q] /\ parent'[q] = parent[q]
                        /\ service'[q] = service[q] /\ status'[q] = status[q] /\ born'[q] = born[q]
<1> USE DEF Base, TypeOK, ProcTypeOK, Goto, locals
<1> DEFINE Same == /\ pc'[q] = pc[q] \/ (pc[q] = "serve" /\ pc'[q] = "stop")
                   /\ step'[q] = step[q] /\ scope'[q] = scope[q] /\ parent'[q] = parent[q]
                   /\ service'[q] = service[q] /\ status'[q] = status[q] /\ born'[q] = born[q]
<1>1. ASSUME NEW p \in Pid, p # q, Die(p) \/ Unlock(p) PROVE Same
  BY <1>1 DEF Die, Unlock, End, Forget
<1>2. ASSUME NEW p \in Pid, p # q, Serve(p) \/ Lock(p) \/ Open(p) \/ OpenFails(p) PROVE Same
  BY <1>2 DEF Serve, Birth, Lock, Open, OpenFails
<1>3. ASSUME NEW p \in Pid, p # q, Interrupt(p) \/ Watch(p) \/ Terminate(p) \/ Stopped(p) PROVE Same
  BY <1>3 DEF Interrupt, Watch, Terminate, Stopped
<1>4. ASSUME NEW p \in Pid, p # q, Finally(p) \/ Close(p) \/ CloseFails(p) PROVE Same
  BY <1>4 DEF Finally, Close, CloseFails
<1>5. ASSUME NEW p \in Pid, p # q, NEW m \in Pid, Fork(m, p) PROVE Same
  BY <1>5 DEF Fork, Birth
<1>6. ASSUME NEW p \in Pid, p # q, Boot(p) \/ Verify(p) \/ Mark(p) \/ ReadTarget(p) \/ WriteTarget(p)
                                  \/ Unwind(p)
      PROVE  Same
  BY <1>6 DEF Boot, Verify, Mark, ReadTarget, WriteTarget, Unwind
<1>7. ASSUME NEW p \in Pid, p # q, Signal(p) PROVE Same
  <2>1. CASE pc[service[p].pid] = "serve"
    <3>1. service[p].pid \in Pid
      BY <1>7 DEF Signal, Informed, Identity, AtService
    <3>2. pc' = [pc EXCEPT ![p] = "work", ![service[p].pid] = "stop"]
      BY <1>7, <2>1 DEF Signal
    <3>3. pc'[q] = pc[q] \/ (pc[q] = "serve" /\ pc'[q] = "stop")
      BY <1>7, <2>1, <3>1, <3>2
    <3> QED
      BY <1>7, <3>3 DEF Signal
  <2>2. CASE pc[service[p].pid] # "serve"
    BY <1>7, <2>2 DEF Signal
  <2> QED
    BY <2>1, <2>2
<1>8. CASE UNCHANGED vars
  BY <1>8 DEF vars
<1> QED
  BY <1>1, <1>2, <1>3, <1>4, <1>5, <1>6, <1>7, <1>8 DEF Next, Master, Exit, Worker

LEMMA AliveStep == Base /\ [Next]_vars => Alive' /\ Unscoped' /\ Informed'
<1> SUFFICES ASSUME Base, [Next]_vars, NEW q \in Pid
             PROVE  /\ status'[q] = "running" <=> pc'[q] # "gone"
                    /\ pc'[q] \in {"gone", "lock"} => scope'[q] = NoRecord /\ parent'[q] = NoRecord
                    /\ pc'[q] \in AtService => service'[q] # NoRecord
  BY DEF Alive, Running, Unscoped, Informed
<1> USE DEF TypeOK, ProcTypeOK, Goto, locals, MasterPc, WorkerPc, ExitPc, AtService
<1> DEFINE Goal == /\ status'[q] = "running" <=> pc'[q] # "gone"
                   /\ pc'[q] \in {"gone", "lock"} => scope'[q] = NoRecord /\ parent'[q] = NoRecord
                   /\ pc'[q] \in AtService => service'[q] # NoRecord
<1>1. /\ status[q] = "running" <=> pc[q] # "gone"
      /\ pc[q] \in {"gone", "lock"} => scope[q] = NoRecord /\ parent[q] = NoRecord
      /\ pc[q] \in AtService => service[q] # NoRecord
      /\ TypeOK
  BY DEF Base, Alive, Running, Unscoped, Informed
<1>2. ASSUME Die(q) \/ Unlock(q) PROVE Goal
  BY <1>1, <1>2 DEF Die, Unlock, End, Forget
<1>3. ASSUME Serve(q) PROVE Goal
  BY <1>1, <1>3 DEF Serve, Birth
<1>4. ASSUME Lock(q) PROVE Goal
  BY <1>1, <1>4 DEF Lock
<1>5. ASSUME Open(q) \/ OpenFails(q) \/ Interrupt(q) \/ Watch(q) \/ Terminate(q) \/ Stopped(q)
      PROVE  Goal
  BY <1>1, <1>5 DEF Open, OpenFails, Interrupt, Watch, Terminate, Stopped
<1>6. ASSUME Finally(q) \/ Close(q) \/ CloseFails(q) PROVE Goal
  BY <1>1, <1>6 DEF Finally, Close, CloseFails
<1>7. ASSUME NEW m \in Pid, Fork(m, q) PROVE Goal
  BY <1>1, <1>7 DEF Fork, Birth
<1>8. ASSUME Boot(q) \/ Verify(q) \/ Mark(q) \/ ReadTarget(q) \/ WriteTarget(q) \/ Unwind(q)
      PROVE  Goal
  BY <1>1, <1>8 DEF Boot, Verify, Mark, ReadTarget, WriteTarget, Unwind, IsLive
<1>9. ASSUME Signal(q) PROVE Goal
  <2>1. pc[q] = "marked" /\ UNCHANGED <<status, scope, parent, service>>
    BY <1>9 DEF Signal
  <2>2. pc'[q] \in {"work", "stop"}
    BY <1>1, <1>9 DEF Signal
  <2> QED
    BY <1>1, <2>1, <2>2
<1> QED
  BY <1>1, <1>2, <1>3, <1>4, <1>5, <1>6, <1>7, <1>8, <1>9, Turn DEF Master, Exit, Worker

\* births only add to the past, and a birth concerns nobody that has a state
LEMMA Births == ASSUME Base, [Next]_vars
                PROVE  /\ \A i \in Identity \cup {NoRecord} : Past(i) => PastOf(i, born')
                       /\ \A p \in Pid : pc[p] # "gone" => born'[p] = born[p]
<1> USE DEF Base, TypeOK, ProcTypeOK, Running, Alive
<1>1. \/ UNCHANGED born
      \/ \E p \in Pid : pc[p] = "gone" /\ Birth(p)
  BY DEF Next, Master, Exit, Worker, vars, Die, End, Serve, Lock, Open, OpenFails, Interrupt,
         Watch, Terminate, Stopped, Finally, Close, CloseFails, Unlock, Fork, Boot, Verify, Mark,
             Signal, ReadTarget, WriteTarget, Unwind, Goto
<1>2. CASE UNCHANGED born
  BY <1>2 DEF Past
<1>3. ASSUME NEW p \in Pid, pc[p] = "gone", Birth(p)
      PROVE  /\ \A i \in Identity \cup {NoRecord} : Past(i) => PastOf(i, born')
             /\ \A q \in Pid : pc[q] # "gone" => born'[q] = born[q]
  <2>1. \A q \in Pid : born'[q] \in Nat /\ born[q] \in Nat /\ born'[q] >= born[q]
    BY <1>3 DEF Birth
  <2>2. \A i \in Identity : i.pid \in Pid /\ i.created \in Nat
    BY DEF Identity
  <2> QED
    BY <1>3, <2>1, <2>2 DEF Past, PastOf, Birth
<1> QED
  BY <1>1, <1>2, <1>3

LEMMA BygoneStep == Base /\ TypeOK' /\ [Next]_vars => Bygone'
<1> SUFFICES ASSUME Base, TypeOK', [Next]_vars PROVE Bygone'
  OBVIOUS
<1> DEFINE Old(i) == PastOf(i, born')
           Goal == /\ \A i \in sharing' \cup left' : Old(i)
                   /\ \A n \in Name : Old(files'[n])
                   /\ \A q \in Pid : Old(scope'[q]) /\ Old(parent'[q]) /\ Old(service'[q])
<1>1. /\ \A i \in sharing \cup left : Old(i)
      /\ \A n \in Name : Old(files[n])
      /\ \A q \in Pid : Old(scope[q]) /\ Old(parent[q]) /\ Old(service[q]) /\ Old(NoRecord)
  <2>1. Past(NoRecord) /\ (\A i \in sharing \cup left : Past(i) /\ i \in Identity)
    BY DEF Base, Bygone, TypeOK, Past, PastOf
  <2>2. \A n \in Name : Past(files[n]) /\ files[n] \in Identity \cup {NoRecord}
    BY DEF Base, Bygone, TypeOK
  <2>3. \A q \in Pid : /\ Past(scope[q]) /\ scope[q] \in Identity \cup {NoRecord}
                       /\ Past(parent[q]) /\ parent[q] \in Identity \cup {NoRecord}
                       /\ Past(service[q]) /\ service[q] \in Identity \cup {NoRecord}
    BY DEF Base, Bygone, TypeOK
  <2> QED
    BY <2>1, <2>2, <2>3, Births
<1>2. ASSUME NEW p \in Pid, pc[p] # "gone" PROVE Old(Own(p))
  <2>1. Past(Own(p)) /\ Own(p) \in Identity
    BY <1>2, OwnType DEF Base
  <2> QED
    BY <2>1, Births
<1>3. SUFFICES Goal
  BY DEF Bygone, Past
<1> USE DEF TypeOK, Goto, locals, history
<1> HIDE DEF Old
<1>4. ASSUME NEW p \in Pid, Die(p) \/ Unlock(p) PROVE Goal
  <2>1. Forget(p) /\ sharing' \subseteq sharing /\ left' = left /\ files' = files
    BY <1>4 DEF Die, Unlock
  <2> QED
    BY <1>1, <2>1 DEF Forget, Base
<1>5. ASSUME NEW p \in Pid, Lock(p) PROVE Goal
  BY <1>1, <1>2, <1>5 DEF Lock, Base
<1>6. ASSUME NEW p \in Pid, Open(p) PROVE Goal
  BY <1>1, <1>2, <1>6 DEF Open, Opened, Base
<1>7. ASSUME NEW p \in Pid, Close(p) PROVE Goal
  BY <1>1, <1>7 DEF Close, Base
<1>8. ASSUME NEW p \in Pid, NEW m \in Pid, Fork(m, p) PROVE Goal
  <2>1. Old(Own(m)) /\ Old([pid |-> p, created |-> born'[p]])
    <3>1. Old(Own(m))
      BY <1>2, <1>8 DEF Fork
    <3>2. born'[p] \in Nat
      BY DEF ProcTypeOK
    <3> QED
      BY <3>1, <3>2 DEF Old, PastOf
  <2> QED
    BY <1>1, <1>8, <2>1 DEF Fork, Base
<1>9. ASSUME NEW p \in Pid, Mark(p) \/ WriteTarget(p) PROVE Goal
  BY <1>1, <1>9 DEF Mark, WriteTarget, Base
<1>10. ASSUME NEW p \in Pid, Boot(p) PROVE Goal
  BY <1>1, <1>10 DEF Boot, Base, Name
<1>11. CASE UNCHANGED <<sharing, left, files, scope, parent, service>>
  BY <1>1, <1>11
<1>12. ASSUME NEW p \in Pid, Terminate(p) PROVE Goal
  BY <1>1, <1>2, <1>12 DEF Terminate, Base
<1> QED
  <2>1. \A p \in Pid : \/ Serve(p) \/ OpenFails(p) \/ Interrupt(p) \/ Watch(p) \/ Stopped(p)
                       \/ Finally(p) \/ CloseFails(p) \/ Verify(p) \/ Signal(p) \/ ReadTarget(p) \/ Unwind(p)
                       => UNCHANGED <<sharing, left, files, scope, parent, service>>
    BY DEF Serve, OpenFails, Interrupt, Watch, Stopped, Finally, CloseFails, Verify, Signal,
        ReadTarget, WriteTarget, Unwind
  <2> QED
    BY <1>4, <1>5, <1>6, <1>7, <1>8, <1>9, <1>10, <1>11, <1>12, <2>1 DEF Next, Master, Exit,
        Worker, vars

\* a process begins by its birth
LEMMA Beginning == ASSUME Base, [Next]_vars, NEW q \in Pid, pc[q] = "gone", pc'[q] # "gone"
                   PROVE  Birth(q)
BY Turn DEF Master, Exit, Worker, Serve, Fork, Die, Forget, Lock, Open, OpenFails, Interrupt,
            Watch, Terminate, Stopped, Finally, Close, CloseFails, Unlock, Boot, Verify, Mark,
            Signal, ReadTarget, WriteTarget, Unwind, Goto, WorkerPc, Base, TypeOK

\* what a step does to identities: those of the processes that have a state
\* stay, and a new one is in no record
LEMMA OwnStep == ASSUME Base, TypeOK', [Next]_vars, NEW p \in Pid
                 PROVE  /\ pc[p] # "gone" => Own(p)' = Own(p)
                        /\ pc[p] = "gone" /\ pc'[p] # "gone" =>
                              \A i \in Identity : Past(i) => i # Own(p)'
<1>1. CASE pc[p] # "gone"
  BY <1>1, Births DEF Own, SelfIdentity
<1>2. CASE pc[p] = "gone" /\ pc'[p] # "gone"
  <2>1. Birth(p)
    BY <1>2, Beginning
  <2> QED
    BY <1>2, <2>1 DEF Birth, Past, PastOf, Own, SelfIdentity, Base, TypeOK, ProcTypeOK, Identity
<1> QED
  BY <1>1, <1>2

\* a master at work stays in the scope it created
LEMMA ScopedStep == Base /\ TypeOK' /\ [Next]_vars => Scoped'
<1> SUFFICES ASSUME Base, TypeOK', [Next]_vars,
                    NEW q \in Pid, pc'[q] \in {"open", "serve", "stop", "close"}
             PROVE  scope'[q] = Own(q)'
  BY DEF Scoped
<1>1. pc[q] # "gone" /\ scope'[q] = Own(q)
  <2> USE DEF Base, TypeOK, Scoped, Goto, locals, MasterPc, WorkerPc, ExitPc
  <2>1. ASSUME Die(q) \/ Master(q) PROVE pc[q] # "gone" /\ scope'[q] = Own(q)
    BY <2>1 DEF Die, Forget, Master, Serve, Lock, Open, OpenFails, Interrupt, Watch, Terminate,
        Stopped
  <2>2. ASSUME Exit(q) \/ Worker(q) PROVE pc[q] # "gone" /\ scope'[q] = Own(q)
    BY <2>2 DEF Exit, Finally, IsCreator, Close, CloseFails, Unlock, Forget,
                Worker, Boot, Verify, Mark, Signal, ReadTarget, WriteTarget, Unwind, Fork
  <2> QED
    BY <2>1, <2>2, Turn
<1> QED
  BY <1>1, OwnStep

LEMMA BaseStep == Base /\ [Next]_vars => Base'
BY TypeStep, AliveStep, BygoneStep, ScopedStep DEF Base

\* ServiceOwnership: the types of every variable, for every set of PIDs and
\* every number of births.
THEOREM Typing == Spec => []TypeOK
<1>1. Base => TypeOK
  BY DEF Base
<1> QED
  BY InitBase, BaseStep, <1>1, PTL DEF Spec
-----------------------------------------------------------------------------
(* Layer 2: the lock.                                                        *)

\* the owner of the directory has the lock
Holding == \A p \in Pid : Owner(p) => Own(p) \in sharing
\* a forked worker is in the scope of another process
Forked == \A p \in Pid : pc[p] \in WorkerPc => scope[p] # Own(p)
Owners == Base /\ Holding /\ OneOwner /\ Forked

LEMMA InitOwners == Init => Owners
<1> SUFFICES ASSUME Init PROVE Owners
  OBVIOUS
<1>1. Base
  BY InitBase
<1> QED
  BY <1>1 DEF Init, ProcInit, Owners, Holding, OneOwner, Forked, Owner, Running, WorkerPc

\* who owns the directory after a step owned it before, unless it took the lock
LEMMA OwnersBefore == ASSUME Owners, Base', [Next]_vars, NEW q \in Pid, Owner(q)',
                             ~Lock(q)
                      PROVE  Owner(q) /\ Own(q)' = Own(q)
<1> USE DEF Base, TypeOK, Goto, locals
<1>0. status[q] = "running" <=> pc[q] # "gone"
  BY DEF Owners, Alive, Running
<1>1. pc'[q] # "gone" /\ scope'[q] = Own(q)' /\ Own(q)' \in Identity /\ status'[q] = "running"
  <2>1. pc'[q] # "gone"
    BY DEF Owner, Alive
  <2>2. scope'[q] = Own(q)' /\ scope'[q] # NoRecord /\ status'[q] = "running"
    BY DEF Owner, Own, SelfIdentity, ProcTypeOK, Identity, Running, Alive
  <2> QED
    BY <2>1, <2>2
<1>2. pc[q] # "gone" /\ scope'[q] = scope[q]
  <2>1. ASSUME NEW m \in Pid, Fork(m, q) PROVE FALSE
    <3>1. /\ pc[q] = "gone" /\ scope[q] = NoRecord
          /\ scope[m] \in Identity \cup {NoRecord} /\ Past(scope[m])
      BY <2>1 DEF Fork, Owners, Unscoped, Bygone
    <3>2. \A i \in Identity : Past(i) => i # Own(q)'
      BY <1>1, <3>1, OwnStep DEF Owners
    <3> QED
      BY <1>1, <2>1, <3>1, <3>2 DEF Fork
  <2>2. ASSUME Die(q) \/ Unlock(q) \/ Serve(q) PROVE FALSE
    BY <1>1, <2>2 DEF Die, Unlock, Forget, Serve, Unscoped, Owners
  <2>3. ASSUME \/ Open(q) \/ OpenFails(q) \/ Interrupt(q) \/ Watch(q) \/ Terminate(q)
               \/ Stopped(q) \/ Finally(q) \/ Close(q) \/ CloseFails(q)
               \/ Boot(q) \/ Verify(q) \/ Mark(q) \/ Signal(q) \/ ReadTarget(q) \/ WriteTarget(q) \/ Unwind(q)
        PROVE  pc[q] # "gone" /\ scope'[q] = scope[q]
    BY <2>3 DEF Open, OpenFails, Interrupt, Watch, Terminate, Stopped, Finally, Close,
                CloseFails, Boot, Verify, Mark, Signal, ReadTarget, WriteTarget, Unwind, WorkerPc
  <2>4. Owners => Base
    BY DEF Owners
  <2> QED
    BY <1>0, <1>1, <2>1, <2>2, <2>3, <2>4, Turn DEF Master, Exit, Worker
<1>3. Own(q)' = Own(q)
  BY <1>2, OwnStep DEF Owners
<1> QED
  BY <1>0, <1>1, <1>2, <1>3 DEF Owner, Running

LEMMA OwnersStep == Owners /\ [Next]_vars => Owners'
<1> SUFFICES ASSUME Owners, [Next]_vars PROVE Owners'
  OBVIOUS
<1>1. Base'
  BY BaseStep DEF Owners
<1>2. Holding' /\ OneOwner'
  <2>1. ASSUME NEW p \in Pid, Lock(p) PROVE Holding' /\ OneOwner'
    <3>1. \A q \in Pid : ~Owner(q)
      <4>1. \A q \in Pid : Owner(q) => IsLive(Own(q))
        BY OwnType DEF Owner, Owners, Base, Alive
      <4> QED
        BY <2>1, <4>1 DEF Lock, Locked, Owners, Holding
    <3>2. \A q \in Pid : Owner(q)' => q = p
      <4>1. \A q \in Pid \ {p} : ~Lock(q)
        BY <2>1 DEF Lock, Goto, Owners, Base, TypeOK
      <4> QED
        BY <1>1, <3>1, <4>1, OwnersBefore
    <3>3. Own(p)' \in sharing'
      BY <2>1 DEF Lock, Own, SelfIdentity
    <3> QED
      BY <3>2, <3>3 DEF Holding, OneOwner
  <2>2. ASSUME \A p \in Pid : ~Lock(p) PROVE Holding' /\ OneOwner'
    <3>1. \A q \in Pid : Owner(q)' => Owner(q) /\ Own(q)' = Own(q)
      BY <1>1, <2>2, OwnersBefore
    <3>2. OneOwner'
      BY <3>1 DEF OneOwner, Owners
    <3>3. \A q \in Pid : Owner(q)' => Own(q) \in sharing'
      <4>1. ASSUME NEW p \in Pid, Unlock(p) PROVE \A q \in Pid : Owner(q)' => Own(q) \in sharing'
        <5>1. CASE MayUnlock(p)
          <6>1. Owner(p) /\ ~Owner(p)'
            BY <4>1, <5>1 DEF Unlock, MayUnlock, Owner, End, Running, Owners, Base, TypeOK,
                ProcTypeOK
          <6> QED
            BY <3>1, <6>1 DEF Owners, OneOwner
        <5>2. CASE ~MayUnlock(p)
          BY <3>1, <4>1, <5>2 DEF Unlock, Owners, Holding
        <5> QED
          BY <5>1, <5>2
      <4>2. CASE sharing \subseteq sharing'
        BY <3>1, <4>2 DEF Owners, Holding
      <4>3. \A p \in Pid : Die(p) \/ Master(p) \/ Finally(p) \/ Close(p) \/ CloseFails(p) \/ Worker(p)
                           => sharing \subseteq sharing'
        BY <2>2 DEF Die, Master, Worker, Serve, Open, OpenFails, Interrupt, Watch, Terminate,
                    Stopped, Finally, Close, CloseFails, Fork, Boot, Verify, Mark, Signal,
                    ReadTarget, WriteTarget, Unwind
      <4> QED
        BY <4>1, <4>2, <4>3 DEF Next, Exit, vars
    <3> QED
      BY <3>1, <3>2, <3>3 DEF Holding
  <2> QED
    BY <2>1, <2>2
<1>3. Forked'
  <2> SUFFICES ASSUME NEW q \in Pid, pc'[q] \in WorkerPc, scope'[q] = Own(q)' PROVE FALSE
    BY DEF Forked
  <2>1. Owner(q)' /\ ~Lock(q)
    BY <1>1 DEF Owner, Base, Alive, WorkerPc, Lock, Goto, TypeOK, Owners
  <2>2. Owner(q)
    BY <1>1, <2>1, OwnersBefore
  <2>3. pc[q] \in WorkerPc
    <3>1. pc[q] # "gone"
      BY <2>2 DEF Owner, Alive, Owners, Base
    <3> USE DEF Goto, Owners, Base, TypeOK, WorkerPc
    <3>2. ASSUME Die(q) \/ Master(q) PROVE pc[q] \in WorkerPc
      BY <3>2 DEF Die, Forget, Master, Serve, Lock, Open, OpenFails, Interrupt, Watch, Terminate,
          Stopped
    <3>3. ASSUME Exit(q) \/ Worker(q) PROVE pc[q] \in WorkerPc
      BY <3>1, <3>3 DEF Exit, Finally, Close, CloseFails, Unlock, Forget,
                       Worker, Boot, Verify, Mark, Signal, ReadTarget, WriteTarget, Unwind, Fork
    <3> QED
      BY <3>2, <3>3, Turn
  <2> QED
    BY <2>2, <2>3 DEF Owners, Forked, Owner
<1> QED
  BY <1>1, <1>2, <1>3 DEF Owners

\* OneOwner: file_lock, with the creator's check in its release, gives the
\* directory to one start at a time, whatever forks, deaths and PID reuse do.
THEOREM Exclusion == Spec => []OneOwner
<1>1. Owners => OneOwner
  BY DEF Owners
<1> QED
  BY InitOwners, OwnersStep, <1>1, PTL DEF Spec
-----------------------------------------------------------------------------
(* The workers.  Those that are at work beside an undisturbed start are its  *)
(* own, so they serve it, and no start is stopped by a request meant for     *)
(* another one.                                                              *)

(* Layer 3: whose workers are at work.                                       *)

\* the workers beside an undisturbed owner are its own, ...
Untroubled(m) == Owner(m) /\ Own(m) \notin disturbed
Company == \A m, w \in Pid : Untroubled(m) /\ pc[w] \in WorkerPc => parent[w] = Own(m)
\* ... and serve it
Served == \A m, w \in Pid : Untroubled(m) /\ pc[w] \in AtService => service[w] = Own(m)
\* a master has no workers before it serves, nor when it leaves undisturbed
Before == {"lock", "open"}
Childless == \A p, w \in Pid :
    /\ pc[p] \in Before \/ (pc[p] \in ExitPc /\ Untroubled(p))
    /\ pc[w] \in WorkerPc
    => parent[w] # Own(p)
\* the record names an owner, or a process that is gone
RecordOwner == \A p \in Pid : Running(p) /\ files["runtime"] = Own(p) => scope[p] = Own(p)
\* nobody serves a process that has yet to take the lock
Unserved == \A q, w \in Pid : pc[q] = "lock" => service[w] # Own(q)
Workers == Company /\ Served /\ Childless /\ RecordOwner /\ Unserved
Team == Owners /\ Workers

LEMMA InitTeam == Init => Team
<1> SUFFICES ASSUME Init PROVE Team
  OBVIOUS
<1>1. Owners
  BY InitOwners
<1>2. \A p \in Pid : ~Running(p) /\ pc[p] = "gone"
  BY DEF Init, ProcInit, Running
<1>3. RecordOwner /\ Unserved
  BY <1>2 DEF RecordOwner, Unserved
<1>4. Company /\ Childless /\ Served
  BY <1>2 DEF Company, Childless, Served, WorkerPc, AtService
<1> QED
  BY <1>1, <1>3, <1>4 DEF Team, Workers

\* no step takes a disturbance back, or changes the platform
LEMMA Disturbs == ASSUME [Next]_vars
                  PROVE  disturbed \subseteq disturbed' /\ UNCHANGED platform
BY DEF Next, Master, Exit, Worker, vars, history, Die, Forget, Serve, Lock, Open, OpenFails,
       Interrupt, Watch, Terminate, Stopped, Finally, Close, CloseFails, Unlock, Fork, Boot,
       Verify, Mark, Signal, ReadTarget, WriteTarget, Unwind

\* a process is in the middle of a step of its own, or stays as it was
LEMMA Moved == ASSUME Owners, [Next]_vars, NEW q \in Pid, pc[q] # "gone", pc'[q] # "gone"
               PROVE  /\ Own(q)' = Own(q)
                      /\ Owner(q)' => Owner(q) \/ Lock(q)
<1>1. Base /\ Base' /\ TypeOK'
  BY OwnersStep DEF Owners, Base
<1> QED
  BY <1>1, OwnStep, OwnersBefore

\* an undisturbed owner was one before, unless it has just locked, beside nobody
LEMMA UntroubledBefore == ASSUME Owners, [Next]_vars, NEW m \in Pid, Untroubled(m)'
                          PROVE  \/ Lock(m) /\ Working = {}
                                 \/ ~Lock(m) /\ Untroubled(m) /\ Own(m)' = Own(m)
<1>1. Base' /\ Base
  BY OwnersStep DEF Owners
<1>2. CASE Lock(m)
  <2>1. Own(m)' = Own(m)
    BY <1>2 DEF Lock, Own, SelfIdentity
  <2> QED
    BY <1>2, <2>1 DEF Lock, Untroubled
<1>3. CASE ~Lock(m)
  <2>1. Owner(m) /\ Own(m)' = Own(m)
    BY <1>1, <1>3, OwnersBefore DEF Untroubled
  <2> QED
    BY <1>3, <2>1, Disturbs DEF Untroubled
<1> QED
  BY <1>2, <1>3

\* a process that locks leaves the others where they are
LEMMA LockAlone == ASSUME Owners, NEW m \in Pid, Lock(m), Working = {}, NEW w \in Pid
                   PROVE  pc'[w] \notin WorkerPc
BY DEF Lock, Goto, Working, WorkerPc, Owners, Base, TypeOK

\* what a process keeps from its birth to its death
LEMMA Keeps == ASSUME Owners, [Next]_vars, NEW q \in Pid, pc[q] # "gone", pc'[q] # "gone"
               PROVE  /\ Own(q)' = Own(q) /\ parent'[q] = parent[q]
                      /\ ~Lock(q) => scope'[q] = scope[q]
                      /\ ~Boot(q) => service'[q] = service[q]
<1>1. Own(q)' = Own(q)
  BY Moved
<1> USE DEF Owners, Base, TypeOK, Goto, locals
<1> DEFINE Goal == /\ parent'[q] = parent[q]
                   /\ ~Lock(q) => scope'[q] = scope[q]
                   /\ ~Boot(q) => service'[q] = service[q]
<1>2. ASSUME Die(q) \/ Unlock(q) \/ Serve(q) \/ \E m \in Pid : Fork(m, q) PROVE FALSE
  BY <1>2 DEF Die, Unlock, Forget, Serve, Fork
<1>3. ASSUME Lock(q) \/ Open(q) \/ OpenFails(q) \/ Interrupt(q) \/ Watch(q) \/ Terminate(q) \/ Stopped(q)
      PROVE  Goal
  BY <1>3 DEF Lock, Open, OpenFails, Interrupt, Watch, Terminate, Stopped
<1>4. ASSUME Finally(q) \/ Close(q) \/ CloseFails(q) PROVE Goal
  BY <1>4 DEF Finally, Close, CloseFails
<1>5. ASSUME Boot(q) \/ Verify(q) \/ Mark(q) \/ Signal(q)
               \/ ReadTarget(q) \/ WriteTarget(q) \/ Unwind(q) PROVE Goal
  BY <1>5 DEF Boot, Verify, Mark, Signal, ReadTarget, WriteTarget, Unwind
<1> QED
  BY <1>1, <1>2, <1>3, <1>4, <1>5, Turn DEF Master, Exit, Worker

\* a process that begins is a start, or the worker of one that serves
LEMMA Newcomer == ASSUME Owners, [Next]_vars, NEW q \in Pid, pc[q] = "gone", pc'[q] # "gone"
                  PROVE  /\ Own(q)' \in Identity
                         /\ \A i \in Identity : Past(i) => i # Own(q)'
                         /\ \/ Serve(q) /\ pc'[q] = "lock" /\ parent'[q] = NoRecord
                            \/ \E m \in Pid : /\ Fork(m, q) /\ pc'[q] = "boot" /\ parent'[q] = Own(m)
                                              /\ pc'[m] = "serve" /\ Own(m) = Own(m)'
<1>1. Base /\ TypeOK /\ Base' /\ TypeOK'
  BY OwnersStep DEF Owners, Base
<1>2. Own(q)' \in Identity
  <2>1. born'[q] \in 1..MaxBirths
    BY <1>1 DEF Base, Alive, Running, TypeOK, ProcTypeOK
  <2> QED
    BY <2>1 DEF Own, SelfIdentity, Identity
<1>3. \A i \in Identity : Past(i) => i # Own(q)'
  BY <1>1, OwnStep
<1>4. Serve(q) \/ \E m \in Pid : Fork(m, q)
  BY <1>1, Turn DEF Base, TypeOK, Goto, Die, Forget, Master, Exit, Worker, Lock, Open, OpenFails,
     Interrupt, Watch, Terminate, Stopped, Finally, Close, CloseFails, Unlock, Boot, Verify,
     Mark, Signal, ReadTarget, WriteTarget, Unwind, WorkerPc
<1>5. Serve(q) => pc'[q] = "lock" /\ parent'[q] = NoRecord
  BY <1>1 DEF Base, Unscoped, Serve, Goto, TypeOK, locals
<1>6. ASSUME NEW m \in Pid, Fork(m, q)
      PROVE  /\ pc'[q] = "boot" /\ parent'[q] = Own(m) /\ pc'[m] = "serve" /\ Own(m) = Own(m)'
  <2>1. pc[m] = "serve" /\ pc'[m] = "serve" /\ m # q
    BY <1>1, <1>6 DEF Fork, Goto, TypeOK
  <2> QED
    BY <1>1, <1>6, <2>1, Moved DEF Fork, Goto, TypeOK
<1> QED
  BY <1>2, <1>3, <1>4, <1>5, <1>6

LEMMA StaysWorker == ASSUME Owners, [Next]_vars, NEW w \in Pid, pc'[w] \in WorkerPc, pc[w] # "gone"
                     PROVE  /\ pc[w] \in WorkerPc
                            /\ Own(w)' = Own(w) /\ scope'[w] = scope[w] /\ parent'[w] = parent[w]
<1>1. pc[w] \in WorkerPc
  BY Turn DEF Owners, Base, TypeOK, Goto, Die, Forget, Master, Exit, Worker, Serve, Lock,
     Open, OpenFails, Interrupt, Watch, Terminate, Stopped, Finally, Close, CloseFails, Unlock,
     Fork, Boot, Verify, Mark, Signal, ReadTarget, WriteTarget, Unwind, WorkerPc
<1> QED
  BY <1>1, Keeps DEF Lock, Goto, WorkerPc

\* a worker that has started, or is about to mark, was there before
LEMMA AtRequest == ASSUME Team, [Next]_vars, NEW w \in Pid, pc'[w] \in AtService
                   PROVE  /\ pc[w] \in WorkerPc /\ scope'[w] = scope[w]
                          /\ ~Boot(w) => service'[w] = service[w] /\ pc[w] # "boot"
                          /\ pc'[w] = "marked" => pc[w] = "marked" \/ Mark(w)
<1> USE DEF Team, Owners, Base, TypeOK, Goto, WorkerPc, AtService
<1>1. ASSUME Die(w) \/ Master(w) PROVE pc'[w] = pc[w]
  BY <1>1 DEF Die, Forget, Master, Serve, Lock, Open, OpenFails, Interrupt, Watch, Terminate,
      Stopped
<1>2. ~Exit(w) /\ \A m \in Pid : ~Fork(m, w)
  BY DEF Exit, Finally, Close, CloseFails, Unlock, Forget, Fork
<1>3. ASSUME Boot(w) \/ Verify(w) \/ Mark(w) \/ Signal(w) \/ ReadTarget(w) \/ WriteTarget(w) \/ Unwind(w)
      PROVE  /\ pc[w] \in WorkerPc
             /\ ~Boot(w) => pc[w] # "boot"
             /\ pc'[w] = "marked" => Mark(w)
  BY <1>3 DEF Boot, Verify, Mark, Signal, ReadTarget, WriteTarget, Unwind
<1>4. pc[w] # "gone" /\ ~Lock(w)
  BY <1>1, <1>2, <1>3, Turn DEF Worker, Lock
<1>5. /\ ~Lock(w) => scope'[w] = scope[w]
      /\ ~Boot(w) => service'[w] = service[w]
  BY <1>4, Keeps
<1> QED
  BY <1>1, <1>2, <1>3, <1>4, <1>5, Turn DEF Worker

LEMMA CompanyStep == Team /\ [Next]_vars => Company'
<1> SUFFICES ASSUME Team, [Next]_vars, NEW m \in Pid, NEW w \in Pid,
                    Untroubled(m)', pc'[w] \in WorkerPc
             PROVE  parent'[w] = Own(m)'
  BY DEF Company
<1>1. Owners
  BY DEF Team
<1>2. ~Lock(m) /\ Untroubled(m) /\ Own(m)' = Own(m)
  BY <1>1, LockAlone, UntroubledBefore
<1>3. CASE pc[w] = "gone"
  <2>1. PICK x \in Pid : Fork(x, w) /\ parent'[w] = Own(x)
    BY <1>1, <1>3, Newcomer DEF WorkerPc
  <2>2. Owner(x)
    BY <1>1, <2>1 DEF Fork, Owner, Owners, Base, Alive, Scoped
  <2> QED
    BY <1>1, <1>2, <2>1, <2>2 DEF Untroubled, Owners, OneOwner
<1>4. CASE pc[w] # "gone"
  <2>1. pc[w] \in WorkerPc /\ parent'[w] = parent[w]
    BY <1>1, <1>4, StaysWorker
  <2> QED
    BY <1>2, <2>1 DEF Team, Workers, Company
<1> QED
  BY <1>3, <1>4

\* the record that a worker reads is of the one that owns the directory
LEMMA Reads == ASSUME Team, [Next]_vars, NEW w \in Pid, Boot(w)
               PROVE  /\ service'[w] = files["runtime"] /\ files["runtime"] \in Identity
                      /\ \E r \in Pid : Owner(r) /\ files["runtime"] = Own(r)
                      /\ UNCHANGED <<left, disturbed, files>>
<1>1. IsLive(files["runtime"]) /\ service'[w] = files["runtime"] /\ files["runtime"] \in Identity
  BY DEF Boot, Goto, IsLive, Team, Owners, Base, TypeOK, Name
<1> DEFINE r == files["runtime"].pid
<1>2. r \in Pid /\ files["runtime"] = Own(r) /\ Running(r)
  BY <1>1 DEF IsLive, Identity, Own, SelfIdentity
<1>3. Owner(r)
  BY <1>2 DEF Team, Workers, RecordOwner, Owner
<1> QED
  BY <1>1, <1>2, <1>3 DEF Boot, history

LEMMA ServedStep == Team /\ [Next]_vars => Served'
<1> SUFFICES ASSUME Team, [Next]_vars, NEW m \in Pid, NEW w \in Pid,
                    Untroubled(m)', pc'[w] \in AtService
             PROVE  service'[w] = Own(m)'
  BY DEF Served
<1>1. Owners /\ pc'[w] \in WorkerPc
  BY DEF Team, AtService, WorkerPc
<1>2. Untroubled(m) /\ Own(m)' = Own(m)
  BY <1>1, LockAlone, UntroubledBefore
<1>3. CASE Boot(w)
  <2>1. PICK r \in Pid : Owner(r) /\ service'[w] = Own(r)
    BY <1>3, Reads
  <2> QED
    BY <1>1, <1>2, <2>1 DEF Untroubled, Owners, OneOwner
<1>4. CASE ~Boot(w)
  <2>1. service'[w] = service[w] /\ pc[w] \in AtService
    BY <1>4, AtRequest DEF WorkerPc, AtService
  <2> QED
    BY <1>2, <2>1 DEF Team, Workers, Served
<1> QED
  BY <1>3, <1>4

LEMMA ChildlessStep == Team /\ [Next]_vars => Childless'
<1> SUFFICES ASSUME Team, [Next]_vars, NEW p \in Pid, NEW w \in Pid, pc'[w] \in WorkerPc,
                    pc'[p] \in Before \/ (pc'[p] \in ExitPc /\ Untroubled(p)')
             PROVE  parent'[w] # Own(p)'
  BY DEF Childless
<1>1. Owners /\ Owners' /\ pc'[p] # "gone" /\ pc'[p] # "serve" /\ pc'[w] # "gone"
  BY OwnersStep DEF Team, Before, ExitPc, WorkerPc
<1>0. \A m \in Pid : Own(m).pid = m /\ Own(p)'.pid = p
  BY DEF Own, SelfIdentity
<1>2. CASE pc[p] = "gone"
  <2>1. Own(p)' \in Identity /\ \A i \in Identity : Past(i) => i # Own(p)'
    BY <1>1, <1>2, Newcomer
  <2>2. CASE pc[w] = "gone"
    BY <1>0, <1>1, <2>1, <2>2, Newcomer, ProcessAssumption
  <2>3. CASE pc[w] # "gone"
    BY <1>1, <2>1, <2>3, Keeps, ProcessAssumption DEF Owners, Base, TypeOK, Bygone
  <2> QED
    BY <2>2, <2>3
<1>3. CASE pc[p] # "gone"
  <2>1. Own(p)' = Own(p) /\ Own(p) \in Identity
    BY <1>1, <1>3, Keeps, OwnType DEF Owners, Base
  <2>2. CASE pc[w] = "gone"
    <3>1. \/ parent'[w] = NoRecord
          \/ \E m \in Pid : parent'[w] = Own(m) /\ pc'[m] = "serve"
      BY <1>1, <2>2, Newcomer
    <3> QED
      BY <1>0, <1>1, <2>1, <3>1, ProcessAssumption
  <2>3. CASE pc[w] # "gone"
    <3>1. parent'[w] = parent[w] /\ pc[w] \in WorkerPc
      BY <1>1, <2>3, StaysWorker
    <3>2. pc[p] \in Before \/ (pc[p] \in ExitPc /\ Untroubled(p)) \/ Stopped(p)
      <4>1. pc'[p] \in ExitPc => Untroubled(p) /\ pc[p] \notin WorkerPc
        <5>1. ~(Lock(p) /\ pc'[p] \in ExitPc)
          BY <1>1 DEF Lock, Goto, Owners, Base, TypeOK, ExitPc
        <5>2. pc'[p] \in ExitPc => Untroubled(p)
          BY <1>1, <5>1, UntroubledBefore DEF Before, ExitPc
        <5> QED
          BY <1>1, <5>2 DEF Untroubled, Owners, Forked, Owner
      <4>2. ASSUME Die(p) \/ Master(p)
            PROVE  pc[p] \in Before \/ (pc[p] \in ExitPc /\ Untroubled(p)) \/ Stopped(p)
        BY <1>1, <1>3, <4>1, <4>2 DEF Die, Forget, Master, Serve, Lock, Open, OpenFails,
           Interrupt, Watch, Terminate, Goto, Owners, Base, TypeOK, Before, ExitPc
      <4>3. ASSUME Exit(p) \/ Worker(p)
            PROVE  pc[p] \in Before \/ (pc[p] \in ExitPc /\ Untroubled(p))
        BY <1>1, <1>3, <4>1, <4>3 DEF Exit, Finally, Close, CloseFails, Unlock, Forget, Goto,
           Worker, Boot, Verify, Mark, Signal, ReadTarget, WriteTarget, Unwind, Fork, WorkerPc,
           Owners, Base, TypeOK, Before, ExitPc
      <4>4. ASSUME pc'[p] = pc[p]
            PROVE  pc[p] \in Before \/ (pc[p] \in ExitPc /\ Untroubled(p))
        BY <4>1, <4>4
      <4>5. pc'[p] # "stop"
        BY DEF Before, ExitPc
      <4> QED
        BY <1>1, <4>2, <4>3, <4>4, <4>5, Turn DEF Owners
    <3>3. CASE Stopped(p)
      <4>1. pc'[p] = "finally" /\ Own(p)' \notin disturbed'
        BY <1>1, <3>3 DEF Stopped, Goto, Owners, Base, TypeOK, Before, Untroubled
      <4>2. \A x \in Working : parent[x] # Own(p)
        BY <2>1, <3>3, <4>1 DEF Stopped
      <4> QED
        BY <2>1, <3>1, <4>2 DEF Working
    <3>4. CASE pc[p] \in Before \/ (pc[p] \in ExitPc /\ Untroubled(p))
      BY <2>1, <3>1, <3>4 DEF Team, Workers, Childless
    <3> QED
      BY <3>2, <3>3, <3>4
  <2> QED
    BY <2>2, <2>3
<1> QED
  BY <1>2, <1>3

\* of the files that are no marker, a master at work writes each, with its own
\* name, and removes each in its exit; and a worker writes the verbosity target
\* with the name of the start that it serves
LEMMA Writers == ASSUME Base, [Next]_vars, NEW n \in Name \ Markers
                 PROVE  \/ files'[n] = files[n]
                        \/ \E p \in Pid : Open(p) /\ n = Opening[step[p]] /\ files'[n] = Own(p)
                        \/ \E p \in Pid : Close(p) /\ n = Closing[step[p]] /\ files'[n] = NoRecord
                        \/ \E p \in Pid : WriteTarget(p) /\ n = "control" /\ files'[n] = service[p]
<1> USE DEF Base, TypeOK
<1>1. ASSUME NEW p \in Pid, Open(p)
      PROVE  files'[n] = files[n] \/ (n = Opening[step[p]] /\ files'[n] = Own(p))
  BY <1>1 DEF Open, Opened
<1>2. ASSUME NEW p \in Pid, Close(p)
      PROVE  files'[n] = files[n] \/ (n = Closing[step[p]] /\ files'[n] = NoRecord)
  BY <1>2 DEF Close
<1>3. ASSUME NEW p \in Pid, Mark(p) \/ Terminate(p) PROVE files'[n] = files[n]
  BY <1>3 DEF Mark, Terminate, Markers
<1>4. ASSUME NEW p \in Pid, WriteTarget(p)
      PROVE  files'[n] = files[n] \/ (n = "control" /\ files'[n] = service[p])
  BY <1>4 DEF WriteTarget
<1>5. CASE UNCHANGED files
  BY <1>5
<1>6. \/ UNCHANGED files
      \/ \E p \in Pid : Open(p) \/ Close(p) \/ Mark(p) \/ Terminate(p) \/ WriteTarget(p)
  BY DEF Next, Master, Exit, Worker, vars, Die, Serve, Lock, OpenFails, Interrupt, Watch, Stopped,
         Finally, CloseFails, Unlock, Fork, Boot, Verify, Signal, ReadTarget, Unwind
<1> QED
  BY <1>1, <1>2, <1>3, <1>4, <1>5, <1>6

LEMMA RecordOwnerStep == Team /\ [Next]_vars => RecordOwner'
<1> SUFFICES ASSUME Team, [Next]_vars, NEW p \in Pid, Running(p)', files'["runtime"] = Own(p)'
             PROVE  scope'[p] = Own(p)'
  BY DEF RecordOwner
<1>1. Owners /\ Owners' /\ pc'[p] # "gone" /\ "runtime" \in Name \ Markers /\ Base
  BY OwnersStep DEF Team, Owners, Base, Alive, Name, Markers
<1>2. Own(p)' \in Identity
  BY <1>1, OwnType, Newcomer, Keeps DEF Owners, Base
<1>3. \/ files'["runtime"] = files["runtime"]
      \/ \E q \in Pid : Open(q) /\ files'["runtime"] = Own(q)
  BY <1>1, <1>2, Writers, ProcessAssumption
<1>4. CASE pc[p] = "gone"
  <2>1. files["runtime"] # Own(p)'
    BY <1>1, <1>4, Newcomer DEF Base, TypeOK, Bygone
  <2>2. \A q \in Pid : Own(q) = Own(p)' => q = p
    BY DEF Own, SelfIdentity
  <2> QED
    BY <1>3, <1>4, <2>1, <2>2 DEF Open
<1>5. CASE pc[p] # "gone"
  <2>1. Own(p)' = Own(p) /\ (~Lock(p) => scope'[p] = scope[p])
    BY <1>1, <1>5, Keeps
  <2>2. CASE Lock(p)
    BY <1>1, <2>1, <2>2 DEF Lock, Base, TypeOK
  <2>3. CASE ~Lock(p)
    <3>1. CASE files'["runtime"] = files["runtime"]
      BY <1>1, <1>5, <2>1, <2>3, <3>1 DEF Team, Workers, RecordOwner, Base, Alive
    <3>2. ASSUME NEW q \in Pid, Open(q), files'["runtime"] = Own(q) PROVE scope[p] = Own(p)
      <4>1. q = p
        BY <2>1, <3>2 DEF Own, SelfIdentity
      <4> QED
        BY <1>1, <3>2, <4>1 DEF Open, Base, Scoped
    <3> QED
      BY <1>3, <2>1, <2>3, <3>1, <3>2
  <2> QED
    BY <2>2, <2>3
<1> QED
  BY <1>4, <1>5


\* what a worker serves
LEMMA Services == ASSUME Base, [Next]_vars, NEW w \in Pid
                  PROVE  \/ service'[w] \in {service[w], NoRecord}
                         \/ Boot(w)
<1> USE DEF Base, TypeOK, locals
<1>1. ASSUME NEW p \in Pid, Die(p) \/ Unlock(p) PROVE service'[w] \in {service[w], NoRecord}
  BY <1>1 DEF Die, Unlock, Forget
<1>2. ASSUME NEW p \in Pid, p # w, Boot(p) PROVE service'[w] = service[w]
  BY <1>2 DEF Boot
<1>3. \/ UNCHANGED service
      \/ \E p \in Pid : Die(p) \/ Unlock(p) \/ Boot(p)
  BY DEF Next, Master, Exit, Worker, vars, Serve, Lock, Open, OpenFails, Interrupt, Watch,
         Terminate, Stopped, Finally, Close, CloseFails, Fork, Verify, Mark, Signal, ReadTarget,
         WriteTarget, Unwind
<1> QED
  BY <1>1, <1>2, <1>3

\* a process that is about to lock was so before, or is new
LEMMA AtLock == ASSUME Base, [Next]_vars, NEW q \in Pid, pc'[q] = "lock"
                PROVE  pc[q] = "lock" \/ (pc[q] = "gone" /\ Serve(q))
BY Turn DEF Base, TypeOK, Goto, Die, Forget, Master, Exit, Worker, Lock, Open, OpenFails,
   Interrupt, Watch, Terminate, Stopped, Finally, Close, CloseFails, Unlock, Fork, Boot, Verify,
   Mark, Signal, ReadTarget, WriteTarget, Unwind, Serve, WorkerPc

LEMMA UnservedStep == Team /\ [Next]_vars => Unserved'
<1> SUFFICES ASSUME Team, [Next]_vars, NEW q \in Pid, NEW w \in Pid, pc'[q] = "lock"
             PROVE  service'[w] # Own(q)'
  BY DEF Unserved
<1>1. Owners /\ Base /\ TypeOK
  BY DEF Team, Owners, Base
<1>2. CASE pc[q] = "lock"
  <2>1. Own(q)' = Own(q) /\ Own(q) \in Identity
    BY <1>1, <1>2, Moved, OwnType DEF Base
  <2>2. service[w] # Own(q)
    BY <1>2 DEF Team, Workers, Unserved
  <2>3. ASSUME Boot(w) PROVE service'[w] # Own(q)
    <3>1. PICK r \in Pid : Owner(r) /\ service'[w] = Own(r)
      BY <2>3, Reads
    <3>2. ~Owner(q)
      BY <1>1, <1>2, <2>1, ProcessAssumption DEF Owner, Base, Unscoped
    <3> QED
      BY <3>1, <3>2 DEF Own, SelfIdentity
  <2> QED
    BY <1>1, <2>1, <2>2, <2>3, Services, ProcessAssumption
<1>3. CASE pc[q] = "gone" /\ Serve(q)
  <2>1. Own(q)' \in Identity /\ \A i \in Identity : Past(i) => i # Own(q)'
    BY <1>1, <1>3, Newcomer
  <2>2. service'[w] = service[w] /\ Past(service[w]) /\ service[w] \in Identity \cup {NoRecord}
    BY <1>1, <1>3 DEF Serve, locals, Base, Bygone, TypeOK
  <2> QED
    BY <2>1, <2>2, ProcessAssumption
<1> QED
  BY <1>1, <1>2, <1>3, AtLock

LEMMA TeamStep == Team /\ [Next]_vars => Team'
BY OwnersStep, CompanyStep, ServedStep, ChildlessStep, RecordOwnerStep, UnservedStep DEF Team,
    Workers
-----------------------------------------------------------------------------
(* Layer 4: requests.                                                        *)

\* a marker that names a start that is to serve, or serves, is a request that a
\* worker accepted; and a worker sends signals on Linux alone, after such a one
Asked == /\ \A p \in Pid : pc[p] \in {"lock", "open", "serve"} /\ files["shutdown"] = Own(p)
                => Own(p) \in asked
         /\ \A w \in Pid : pc[w] = "marked" =>
                platform = "linux" /\ (IsLive(service[w]) => service[w] \in asked)
Requested == Team /\ Asked /\ StoppedByOwnRequest

LEMMA InitRequested == Init => Requested
<1> SUFFICES ASSUME Init PROVE Requested
  OBVIOUS
<1>1. Team
  BY InitTeam
<1>2. Asked /\ StoppedByOwnRequest
  BY DEF Init, Asked, StoppedByOwnRequest
<1> QED
  BY <1>1, <1>2 DEF Requested

\* a request is forgotten with the process that it is for
LEMMA Remembers == ASSUME [Next]_vars
                   PROVE  \/ asked \subseteq asked'
                          \/ \E x \in Pid : Forget(x) /\ asked' = asked \ {Own(x)} /\ End(x)
<1>1. ASSUME NEW x \in Pid, Die(x) \/ Unlock(x)
      PROVE  Forget(x) /\ asked' = asked \ {Own(x)} /\ End(x)
  BY <1>1 DEF Die, Unlock, Forget
<1>2. \/ asked \subseteq asked'
      \/ \E x \in Pid : Die(x) \/ Unlock(x)
  BY DEF Next, Master, Exit, Worker, vars, history, Serve, Lock, Open, OpenFails, Interrupt,
         Watch, Terminate, Stopped, Finally, Close, CloseFails, Fork, Boot, Verify, Mark, Signal,
         ReadTarget, WriteTarget, Unwind
<1> QED
  BY <1>1, <1>2

\* ... so not while that one runs
LEMMA Remembered == ASSUME Base, [Next]_vars, NEW q \in Pid, pc'[q] # "gone", Own(q) \in asked
                    PROVE  Own(q) \in asked'
<1>1. ASSUME NEW x \in Pid, Forget(x), asked' = asked \ {Own(x)} PROVE Own(q) \in asked'
  <2>1. x # q
    BY <1>1 DEF Forget, Base, TypeOK
  <2> QED
    BY <1>1, <2>1 DEF Own, SelfIdentity
<1> QED
  BY <1>1, Remembers

\* a process that a record names as live was there before
LEMMA WasLive == ASSUME Base, Base', [Next]_vars, NEW i \in Identity, Past(i), IsLive(i)'
                 PROVE  /\ i.pid \in Pid /\ Own(i.pid) = i /\ IsLive(i)
                        /\ pc[i.pid] # "gone" /\ pc'[i.pid] # "gone"
<1> DEFINE q == i.pid
<1>1. q \in Pid /\ born'[q] = i.created /\ Running(q)' /\ i = Own(q)'
  BY DEF IsLive, Identity, Own, SelfIdentity
<1>2. pc'[q] # "gone"
  BY <1>1 DEF Base, Alive
<1>3. pc[q] # "gone"
  BY <1>1, <1>2, OwnStep DEF Base
<1>4. Own(q)' = Own(q) /\ IsLive(Own(q))
  BY <1>1, <1>3, OwnStep, OwnType DEF Base
<1> QED
  BY <1>1, <1>2, <1>3, <1>4

LEMMA MarkerStep == ASSUME Requested, [Next]_vars, NEW p \in Pid,
                           pc'[p] \in {"lock", "open", "serve"}, files'["shutdown"] = Own(p)'
                    PROVE  Own(p)' \in asked'
<1>1. Owners /\ Base /\ TypeOK /\ Base'
  BY OwnersStep DEF Requested, Team, Owners, Base
<1>2. CASE pc[p] = "gone"
  <2>1. Serve(p) /\ Own(p)' \in Identity /\ \A i \in Identity : Past(i) => i # Own(p)'
    BY <1>1, <1>2, Newcomer
  <2>2. files'["shutdown"] = files["shutdown"] /\ Past(files["shutdown"])
        /\ files["shutdown"] \in Identity \cup {NoRecord}
    BY <1>1, <2>1 DEF Serve, Base, Bygone, TypeOK, Name
  <2> QED
    BY <2>1, <2>2, ProcessAssumption
<1>3. CASE pc[p] # "gone"
  <2>1. Own(p)' = Own(p) /\ Own(p) \in Identity /\ IsLive(Own(p))
    BY <1>1, <1>3, Moved, OwnType DEF Base
  <2>2. pc[p] \in {"lock", "open", "serve"}
    <3> USE <1>1 DEF Base, TypeOK, Goto, WorkerPc
    <3>1. ASSUME Die(p) \/ Master(p) PROVE pc[p] \in {"lock", "open", "serve"}
      BY <1>3, <3>1 DEF Die, Forget, Master, Serve, Lock, Open, OpenFails, Interrupt, Watch,
         Terminate, Stopped
    <3>2. ASSUME Exit(p) \/ Worker(p) PROVE FALSE
      BY <1>3, <3>2 DEF Exit, Finally, Close, CloseFails, Unlock, Forget, Worker, Boot, Verify,
         Mark, Signal, ReadTarget, WriteTarget, Unwind, Fork
    <3> QED
      BY <3>1, <3>2, Turn
  <2>3. files["shutdown"] = Own(p) => Own(p) \in asked'
    BY <1>1, <2>2, Remembered DEF Requested, Asked
  <2>4. ASSUME NEW w \in Pid, Mark(w) PROVE Own(p) \in asked'
    <3>1. service[w] = Own(p)
      BY <1>1, <2>1, <2>4 DEF Mark, Name, Base, TypeOK
    <3> QED
      BY <2>1, <2>4, <3>1 DEF Mark
  <2>5. ASSUME NEW x \in Pid, Open(x) \/ Close(x) \/ WriteTarget(x) PROVE files["shutdown"] = Own(p)
    BY <1>1, <2>1, <2>5, ProcessAssumption DEF Open, Opened, Markers, Close, WriteTarget, Name,
        Base, TypeOK
  <2>6. ASSUME NEW x \in Pid, Terminate(x) PROVE FALSE
    <3>1. Own(x) = Own(p) /\ pc[x] = "stop"
      BY <1>1, <2>1, <2>6 DEF Terminate, Name, Base, TypeOK
    <3> QED
      BY <2>2, <3>1 DEF Own, SelfIdentity
  <2>7. \/ UNCHANGED files
        \/ \E x \in Pid : Open(x) \/ Close(x) \/ Mark(x) \/ Terminate(x) \/ WriteTarget(x)
    BY DEF Next, Master, Exit, Worker, vars, Die, Serve, Lock, OpenFails, Interrupt, Watch,
           Stopped, Finally, CloseFails, Unlock, Fork, Boot, Verify, Signal, ReadTarget, Unwind
  <2> QED
    BY <2>1, <2>3, <2>4, <2>5, <2>6, <2>7
<1> QED
  BY <1>2, <1>3

LEMMA MarkedStep == ASSUME Requested, [Next]_vars, NEW w \in Pid, pc'[w] = "marked"
                    PROVE  platform' = "linux" /\ (IsLive(service[w])' => service'[w] \in asked')
<1>1. Team /\ Base /\ TypeOK /\ Base'
  BY OwnersStep DEF Requested, Team, Owners, Base
<1>2. ~Boot(w) /\ (pc[w] = "marked" \/ Mark(w)) /\ pc[w] \in AtService
  <2>1. ~Boot(w)
    BY <1>1 DEF Boot, Goto, Base, TypeOK
  <2> QED
    BY <1>1, <2>1, AtRequest DEF AtService, WorkerPc
<1>3. service'[w] = service[w] /\ service[w] \in Identity /\ Past(service[w])
  BY <1>1, <1>2, AtRequest DEF AtService, Base, Informed, Bygone, TypeOK
<1>4. platform' = "linux"
  BY <1>1, <1>2, Disturbs DEF Mark, Goto, Requested, Asked, Base, TypeOK
<1>5. ASSUME IsLive(service[w])' PROVE service[w] \in asked'
  <2> DEFINE q == service[w].pid
  <2>1. IsLive(service[w])' <=> (born'[q] = service[w].created /\ Running(q)' /\ service[w] # NoRecord)
    BY <1>3 DEF IsLive
  <2>2. q \in Pid /\ Own(q) = service[w] /\ IsLive(service[w]) /\ pc'[q] # "gone"
    <3>1. \A i \in Identity : Past(i) /\ born'[i.pid] = i.created /\ Running(i.pid)' =>
             i.pid \in Pid /\ Own(i.pid) = i /\ IsLive(i) /\ pc'[i.pid] # "gone"
      <4> SUFFICES ASSUME NEW i \in Identity, Past(i), born'[i.pid] = i.created, Running(i.pid)'
                   PROVE  i.pid \in Pid /\ Own(i.pid) = i /\ IsLive(i) /\ pc'[i.pid] # "gone"
        OBVIOUS
      <4>1. IsLive(i)'
        BY ProcessAssumption DEF IsLive
      <4> QED
        BY <1>1, <4>1, WasLive
    <3> QED
      BY <1>3, <1>5, <2>1, <3>1
  <2>3. CASE pc[w] = "marked"
    BY <1>1, <2>2, <2>3, Remembered DEF Requested, Asked
  <2>4. CASE Mark(w)
    BY <2>2, <2>4 DEF Mark
  <2> QED
    BY <1>2, <2>3, <2>4
<1> QED
  BY <1>3, <1>4, <1>5

LEMMA RequestStep == Requested /\ [Next]_vars => StoppedByOwnRequest'
<1> SUFFICES ASSUME Requested, [Next]_vars, NEW i \in told' \ asked'
             PROVE  platform = "linux" /\ i \in disturbed
  BY Disturbs DEF StoppedByOwnRequest
<1>1. Team /\ Owners /\ Base /\ TypeOK
  BY DEF Requested, Team, Owners, Base
<1>2. ASSUME i \in told \ asked PROVE platform = "linux" /\ i \in disturbed
  BY <1>2 DEF Requested, StoppedByOwnRequest
<1>3. ASSUME NEW x \in Pid, Die(x) \/ Unlock(x) PROVE i \in told \ asked
  BY <1>3 DEF Die, Unlock, Forget
<1>4. ASSUME NEW p \in Pid, Watch(p) PROVE i \in told \ asked
  <2>1. Own(p) \in asked
    BY <1>4 DEF Watch, ShutdownRequested, Goto, Requested, Asked
  <2> QED
    BY <1>4, <2>1 DEF Watch
<1>5. ASSUME NEW p \in Pid, Signal(p) PROVE i \in told \ asked \/ (platform = "linux" /\ i \in disturbed)
  <2> DEFINE m == service[p].pid
  <2>1. CASE pc[m] = "serve"
    <3>1. /\ m \in Pid /\ pc[p] = "marked" /\ platform = "linux"
          /\ told' = told \cup {Own(m)} /\ asked' = asked
      BY <1>1, <1>5, <2>1 DEF Signal, Informed, Identity, AtService, Base, TypeOK, Requested,
          Asked
    <3>2. ASSUME Own(m) \notin disturbed PROVE Own(m) \in asked
      <4>1. Untroubled(m)
        BY <1>1, <2>1, <3>1, <3>2 DEF Untroubled, Owner, Base, Scoped, Alive
      <4>2. service[p] = Own(m)
        BY <3>1, <4>1 DEF Requested, Team, Workers, Served, AtService
      <4>3. IsLive(Own(m))
        BY <1>1, <2>1, <3>1, OwnType DEF Base
      <4> QED
        BY <3>1, <4>2, <4>3 DEF Requested, Asked
    <3> QED
      BY <3>1, <3>2
  <2>2. CASE pc[m] # "serve"
    BY <1>5, <2>2 DEF Signal
  <2> QED
    BY <2>1, <2>2
<1>6. \/ told' = told /\ asked \subseteq asked'
      \/ \E p \in Pid : Die(p) \/ Unlock(p) \/ Watch(p) \/ Signal(p)
  BY DEF Next, Master, Exit, Worker, vars, history, Serve, Lock, Open, OpenFails, Interrupt,
         Terminate, Stopped, Finally, Close, CloseFails, Fork, Boot, Verify, Mark, ReadTarget,
         WriteTarget, Unwind
<1> QED
  BY <1>2, <1>3, <1>4, <1>5, <1>6

\* StoppedByOwnRequest: a master that a marker or a signal stops is one for
\* which a worker accepted a request.  On Windows the marker names it; on Linux
\* the signal goes to a bare PID, and is right because the workers that can send
\* it serve the start that runs, unless an earlier one has left its own running.
THEOREM OwnRequest == Spec => []StoppedByOwnRequest
<1>1. Requested => StoppedByOwnRequest
  BY DEF Requested
<1>2. Requested /\ [Next]_vars => Requested'
  BY TeamStep, MarkerStep, MarkedStep, RequestStep DEF Requested, Asked
<1> QED
  BY InitRequested, <1>2, <1>1, PTL DEF Spec
-----------------------------------------------------------------------------
(* The files.  The state directory of a start is its own, and it leaves      *)
(* nothing behind.                                                           *)

(* Layer 5: the files.                                                       *)

\* who has not entered a scope is at its first step, and is in no file
Reset == \A p \in Pid : pc[p] \in {"gone", "lock"} => step[p] = 1
Unwritten == \A p \in Pid : pc[p] = "lock" => \A n \in Name \ Markers : files[n] # Own(p)
\* a master writes its files in order, ...
Opens == \A p \in Pid : pc[p] = "open" => \A k \in 1..Len(Opening) :
            Opening[k] \in Lasting(Own(p)) => (files[Opening[k]] = Own(p) <=> k < step[p])
\* ... its record before its control and PID file ...
RecordFirst == \A p \in Pid : pc[p] = "finally" /\ Owner(p) /\ files["runtime"] # Own(p) =>
            \A n \in Lasting(Own(p)) \cap {"control", "pid"} : files[n] # Own(p)
\* ... and removes them in order
Cleans == \A p \in Pid : pc[p] = "close" => \A k \in 1..Len(Closing) :
            Closing[k] \in Lasting(Own(p)) /\ k < step[p] => files[Closing[k]] # Own(p)
\* who has completed its cleanup has only to unlock, and no worker serves it
\* unless it was left with some
Done == \A p \in Pid : Own(p) \in left => pc[p] \in {"gone", "unlock"}
Unleft == \A w \in Pid : pc[w] \in AtService => service[w] \notin left \ disturbed
Files == Reset /\ Unwritten /\ Opens /\ OwnState /\ RecordFirst /\ Cleans /\ Done /\ Unleft /\ NothingLeft
Directory == Team /\ Files

LEMMA InitDirectory == Init => Directory
<1> SUFFICES ASSUME Init PROVE Directory
  OBVIOUS
<1>1. Team
  BY InitTeam
<1>2. Files
  <2>1. \A n \in Name : files[n] = NoRecord
    BY DEF Init
  <2> QED
    BY <2>1 DEF Init, Files, Reset, Unwritten, Opens, OwnState, RecordFirst, Cleans, Done, Unleft,
       NothingLeft, AtService
<1> QED
  BY <1>1, <1>2 DEF Directory

\* of a process that stays, no file becomes lasting
LEMMA StillLasting == ASSUME [Next]_vars, NEW q \in Pid, Own(q)' = Own(q),
                             NEW n \in Lasting(Own(q))'
                      PROVE  n \in Lasting(Own(q)) /\ n \in Name \ Markers
BY Disturbs DEF Lasting

\* a worker writes the target of an undisturbed owner while that one serves, and
\* of nobody that has yet to lock
LEMMA Targets == ASSUME Team, NEW p \in Pid, WriteTarget(p), NEW q \in Pid
                 PROVE  /\ Untroubled(q) => service[p] = Own(q) /\ pc[q] \notin Before \cup ExitPc
                        /\ pc[q] = "lock" => service[p] # Own(q)
<1>1. pc[p] \in WorkerPc /\ pc[p] \in AtService
  BY DEF WriteTarget, Goto, WorkerPc, AtService
<1>2. Untroubled(q) => service[p] = Own(q) /\ parent[p] = Own(q)
  BY <1>1 DEF Team, Workers, Served, Company
<1>3. pc[q] \in Before \/ (pc[q] \in ExitPc /\ Untroubled(q)) => parent[p] # Own(q)
  BY <1>1 DEF Team, Workers, Childless
<1>4. pc[q] = "lock" => service[p] # Own(q)
  BY DEF Team, Workers, Unserved
<1> QED
  BY <1>2, <1>3, <1>4

\* the lasting files of an owner are changed by itself alone
LEMMA Undisturbed == ASSUME Directory, [Next]_vars, NEW q \in Pid, Owner(q), ~Open(q), ~Close(q),
                            pc[q] \in {"open", "serve", "stop"} \cup ExitPc,
                            NEW n \in Lasting(Own(q))
                     PROVE  files'[n] = files[n]
<1>1. Team /\ Owners /\ Base /\ n \in Name \ Markers
  BY DEF Directory, Team, Owners, Lasting
<1>2. \A p \in Pid : Open(p) \/ Close(p) => Owner(p)
  BY <1>1 DEF Open, Close, Base, Alive, Scoped, Owner
<1>3. ASSUME NEW p \in Pid, n = "control", WriteTarget(p), files'[n] = service[p]
      PROVE  files'[n] = files[n]
  <2>1. Untroubled(q)
    BY <1>3 DEF Untroubled, Lasting
  <2>2. service[p] = Own(q) /\ pc[q] \in {"serve", "stop"}
    BY <1>1, <1>3, <2>1, Targets DEF Before
  <2> QED
    BY <1>3, <2>2 DEF Directory, Files, OwnState
<1> QED
  BY <1>1, <1>2, <1>3, Writers DEF Owners, OneOwner

LEMMA ResetStep == Directory /\ [Next]_vars => Reset'
<1> SUFFICES ASSUME Directory, [Next]_vars, NEW q \in Pid, pc'[q] \in {"gone", "lock"}
             PROVE  step'[q] = 1
  BY DEF Reset
<1> USE DEF Directory, Team, Owners, Base, TypeOK, Goto, locals, WorkerPc
<1>1. pc[q] \in {"gone", "lock"} => step[q] = 1
  BY DEF Directory, Files, Reset
<1>2. ASSUME Die(q) \/ Unlock(q) \/ Serve(q) PROVE step'[q] = 1
  BY <1>1, <1>2 DEF Die, Unlock, Forget, Serve
<1>3. ASSUME Lock(q) \/ Open(q) \/ OpenFails(q) \/ Interrupt(q) \/ Watch(q) \/ Terminate(q) \/ Stopped(q)
      PROVE  FALSE
  BY <1>3 DEF Lock, Open, OpenFails, Interrupt, Watch, Terminate, Stopped
<1>4. ASSUME Finally(q) \/ Close(q) \/ CloseFails(q) PROVE FALSE
  BY <1>4 DEF Finally, Close, CloseFails
<1>5. ASSUME Worker(q) PROVE FALSE
  BY <1>5 DEF Worker, Fork, Boot, Verify, Mark, Signal, ReadTarget, WriteTarget, Unwind
<1> QED
  BY <1>1, <1>2, <1>3, <1>4, <1>5, Turn DEF Master, Exit

LEMMA UnwrittenStep == Directory /\ [Next]_vars => Unwritten'
<1> SUFFICES ASSUME Directory, [Next]_vars, NEW q \in Pid, pc'[q] = "lock", NEW n \in Name \ Markers
             PROVE  files'[n] # Own(q)'
  BY DEF Unwritten, Directory
<1>1. Team /\ Owners /\ Base /\ TypeOK
  BY DEF Directory, Team, Owners, Base
<1>2. CASE pc[q] = "gone" /\ Serve(q)
  <2>1. Own(q)' \in Identity /\ \A i \in Identity : Past(i) => i # Own(q)'
    BY <1>1, <1>2, Newcomer
  <2>2. files' = files /\ files[n] \in Identity \cup {NoRecord} /\ Past(files[n])
    BY <1>1, <1>2 DEF Serve, Base, TypeOK, Bygone
  <2> QED
    BY <2>1, <2>2, ProcessAssumption
<1>3. CASE pc[q] = "lock"
  <2>1. Own(q)' = Own(q) /\ Own(q) \in Identity /\ files[n] # Own(q)
    BY <1>1, <1>3, Moved, OwnType DEF Base, Directory, Files, Unwritten
  <2>2. \A p \in Pid : Open(p) => Own(p) # Own(q)
    BY <1>3 DEF Open, Own, SelfIdentity
  <2>3. \A p \in Pid : WriteTarget(p) => service[p] # Own(q)
    BY <1>1, <1>3, Targets
  <2> QED
    BY <1>1, <2>1, <2>2, <2>3, Writers, ProcessAssumption
<1> QED
  BY <1>1, <1>2, <1>3, AtLock

\* the master that is at work after a step
LEMMA AtWork == ASSUME Owners, [Next]_vars, NEW q \in Pid,
                       pc'[q] \in {"open", "serve", "stop", "close"}
                PROVE  /\ pc[q] # "gone" /\ Own(q)' = Own(q)
                       /\ \/ Lock(q) /\ pc'[q] = "open"
                          \/ Open(q)
                          \/ Close(q)
                          \/ Finally(q) /\ pc'[q] = "close"
                          \/ /\ Owner(q) /\ ~Open(q) /\ ~Close(q)
                             /\ \/ pc'[q] = pc[q] /\ step'[q] = step[q]
                                \/ pc[q] = "serve" /\ pc'[q] = "stop"
<1>1. Base /\ Base'
  BY OwnersStep DEF Owners
<1>2. \/ Lock(q) /\ pc'[q] = "open"
      \/ Open(q)
      \/ Close(q)
      \/ Finally(q) /\ pc'[q] = "close"
      \/ /\ ~Open(q) /\ ~Close(q)
         /\ \/ pc'[q] = pc[q] /\ step'[q] = step[q]
            \/ pc[q] = "serve" /\ pc'[q] = "stop"
  <2> USE DEF Base, TypeOK, Goto, WorkerPc, locals
  <2>1. ASSUME Die(q) \/ Serve(q) \/ OpenFails(q) \/ Terminate(q) \/ Stopped(q)
        PROVE  pc'[q] = pc[q] /\ step'[q] = step[q]
    BY <1>1, <2>1 DEF Die, Forget, Serve, OpenFails, Terminate, Stopped
  <2>2. ASSUME Interrupt(q) \/ Watch(q) PROVE pc[q] = "serve" /\ pc'[q] = "stop"
    BY <1>1, <2>2 DEF Interrupt, Watch
  <2>3. ASSUME CloseFails(q) \/ Unlock(q) \/ Worker(q) PROVE FALSE
    BY <1>1, <2>3 DEF CloseFails, Unlock, Forget, Worker, Boot, Verify, Mark, ReadTarget,
        WriteTarget, Unwind, Fork, Signal
  <2>4. Lock(q) => pc'[q] = "open"
    BY <1>1 DEF Lock
  <2>5. Finally(q) => pc'[q] \in {"close", "unlock"}
    BY <1>1 DEF Finally
  <2> QED
    BY <1>1, <2>1, <2>2, <2>3, <2>4, <2>5, Turn DEF Master, Exit
<1>3. pc[q] # "gone"
  BY <1>2 DEF Lock, Open, Close, Finally, Goto
<1>4. Owner(q) \/ Lock(q)
  <2>1. pc'[q] # "gone" /\ Running(q)' /\ scope'[q] = Own(q)'
    BY <1>1 DEF Base, Alive, Scoped
  <2> QED
    BY <1>1, <1>3, <2>1, Moved DEF Owner
<1> QED
  BY <1>1, <1>2, <1>3, <1>4, Moved DEF Lock, Goto, Open, Close

\* a master that opens or has opened its scope
LEMMA OpensStep == Directory /\ [Next]_vars => Opens' /\ OwnState'
<1> SUFFICES ASSUME Directory, [Next]_vars, NEW q \in Pid, pc'[q] \in {"open", "serve", "stop"}
             PROVE  /\ pc'[q] = "open" => \A k \in 1..5 :
                          Opening[k] \in Lasting(Own(q))' => (files'[Opening[k]] = Own(q)' <=> k < step'[q])
                    /\ pc'[q] \in {"serve", "stop"} => \A n \in Lasting(Own(q))' : files'[n] = Own(q)'
  BY DEF Opens, OwnState, Opening
<1>1. Team /\ Owners /\ Base /\ TypeOK /\ Own(q)' = Own(q)
  BY AtWork DEF Directory, Team, Owners, Base
<1> DEFINE Mine == Lasting(Own(q))
<1>0. \A n \in Lasting(Own(q))' : n \in Mine
  BY <1>1, StillLasting
<1>2. \A n \in Mine : n \in Name /\ n \notin Markers
  BY DEF Lasting
<1>3. \A n \in Mine : \E k \in 1..5 : n = Opening[k]
  BY DEF Opening, Lasting, Name
<1>4. pc[q] = "open" => \A k \in 1..5 : Opening[k] \in Mine => (files[Opening[k]] = Own(q) <=> k < step[q])
  BY DEF Directory, Files, Opens, Opening
<1>5. pc[q] \in {"serve", "stop"} => \A n \in Mine : files[n] = Own(q)
  BY DEF Directory, Files, OwnState
<1>6. CASE Lock(q) /\ pc'[q] = "open"
  <2>1. step'[q] = 1 /\ \A n \in Mine : files'[n] # Own(q)
    BY <1>2, <1>6 DEF Lock, Goto, Directory, Files, Reset, Unwritten
  <2> QED
    BY <1>0, <1>1, <1>2, <1>6, <2>1
<1>7. CASE Open(q)
  <2>1. step[q] \in 1..5 /\ files' = [files EXCEPT ![Opening[step[q]]] = Opened(Opening[step[q]], Own(q))]
    BY <1>1, <1>7 DEF Open, TypeOK, Opening
  <2>2. \A k \in 1..5 : Opening[k] \in Mine => (files'[Opening[k]] = Own(q) <=> k <= step[q])
    <3>1. \A k \in 1..5 : Opening[k] \in Mine /\ k = step[q] => files'[Opening[k]] = Own(q)
      BY <1>1, <1>2, <2>1 DEF Opened, TypeOK
    <3>2. \A j \in 1..5, k \in 1..5 : j # k => Opening[j] # Opening[k]
      BY DEF Opening
    <3>3. \A k \in 1..5 : Opening[k] \in Mine /\ k # step[q] => files'[Opening[k]] = files[Opening[k]]
      BY <1>1, <1>2, <2>1, <3>2 DEF TypeOK
    <3>4. \A k \in 1..5 : Opening[k] \in Mine => (files[Opening[k]] = Own(q) <=> k < step[q])
      BY <1>4, <1>7 DEF Open
    <3> QED
      BY <2>1, <3>1, <3>3, <3>4
  <2>3. CASE step[q] = 5
    <3>1. pc'[q] = "serve"
      BY <1>1, <1>7, <2>3 DEF Open, Opening, TypeOK
    <3> QED
      BY <1>0, <1>1, <1>3, <2>2, <2>3, <3>1
  <2>4. CASE step[q] # 5
    <3>1. pc'[q] = "open" /\ step'[q] = step[q] + 1
      BY <1>1, <1>7, <2>4 DEF Open, Opening, TypeOK
    <3> QED
      BY <1>0, <1>1, <2>1, <2>2, <3>1
  <2> QED
    BY <2>3, <2>4
<1>8. CASE /\ Owner(q) /\ ~Open(q) /\ ~Close(q)
           /\ \/ pc'[q] = pc[q] /\ step'[q] = step[q]
              \/ pc[q] = "serve" /\ pc'[q] = "stop"
  <2>1. \A n \in Mine : files'[n] = files[n]
    BY <1>1, <1>8, Undisturbed
  <2> QED
    BY <1>0, <1>1, <1>2, <1>4, <1>5, <1>8, <2>1
<1> QED
  <2>1. ~Close(q) /\ ~(Finally(q) /\ pc'[q] = "close")
    BY <1>1 DEF Close, TypeOK
  <2> QED
    BY <1>1, <1>6, <1>7, <1>8, <2>1, AtWork

LEMMA RecordStep == Directory /\ [Next]_vars => RecordFirst'
<1> SUFFICES ASSUME Directory, [Next]_vars, NEW q \in Pid, pc'[q] = "finally", Owner(q)'
             PROVE  files'["runtime"] # Own(q)' =>
                       \A n \in Lasting(Own(q))' \cap {"control", "pid"} : files'[n] # Own(q)'
  BY DEF RecordFirst
<1>1. Team /\ Owners /\ Base /\ TypeOK
  BY DEF Directory, Team, Owners, Base
<1>2. ~Lock(q) /\ Owner(q) /\ Own(q)' = Own(q) /\ pc[q] # "gone"
  <2>1. ~Lock(q)
    BY <1>1 DEF Lock, Goto, TypeOK
  <2>2. Base'
    BY <1>1, OwnersStep DEF Owners
  <2> QED
    BY <1>1, <2>1, <2>2, OwnersBefore DEF Owner, Base, Alive
<1> DEFINE Mine == Lasting(Own(q))
<1>0. \A n \in Lasting(Own(q))' : n \in Mine
  BY <1>2, StillLasting
<1>3. "runtime" \in Mine
  BY DEF Lasting, Name, Markers
<1>4. OpenFails(q) \/ Stopped(q) \/ pc[q] = "finally"
  <2>1. pc[q] \notin WorkerPc
    BY <1>2 DEF Directory, Team, Owners, Forked, Owner
  <2>2. ASSUME Die(q) \/ Master(q) PROVE OpenFails(q) \/ Stopped(q) \/ pc[q] = "finally"
    BY <1>1, <1>2, <2>2 DEF Die, Forget, Master, Serve, Open, Interrupt, Watch, Terminate, Goto,
        TypeOK
  <2>3. ASSUME Exit(q) \/ Worker(q) PROVE pc[q] = "finally"
    BY <1>1, <1>2, <2>1, <2>3 DEF Exit, Finally, Close, CloseFails, Unlock, Forget, Goto, TypeOK,
       Worker, Boot, Verify, Mark, Signal, ReadTarget, WriteTarget, Unwind, Fork, WorkerPc
  <2> QED
    BY <1>1, <2>2, <2>3, Turn
<1>5. \A n \in Mine : files'[n] = files[n]
  <2>1. ~Open(q) /\ ~Close(q)
    BY <1>1 DEF Open, Close, TypeOK
  <2>2. pc[q] \in {"open", "stop", "finally"}
    BY <1>4 DEF OpenFails, Stopped, Goto
  <2> QED
    BY <1>2, <2>1, <2>2, Undisturbed DEF ExitPc
<1>6. CASE OpenFails(q)
  <2>1. pc[q] = "open" /\ step[q] \in 1..5
    BY <1>1, <1>6 DEF OpenFails, Goto, TypeOK, Opening
  <2>2. \A k \in 3..5 : Opening[k] \in Mine => (files[Opening[k]] = Own(q) <=> k < step[q])
    BY <2>1 DEF Directory, Files, Opens, Opening
  <2>3. Opening[3] = "runtime" /\ Opening[4] = "control" /\ Opening[5] = "pid"
    BY DEF Opening
  <2> QED
    BY <1>0, <1>2, <1>3, <1>5, <2>1, <2>2, <2>3
<1>7. CASE Stopped(q)
  BY <1>0, <1>2, <1>3, <1>5, <1>7 DEF Stopped, Goto, Directory, Files, OwnState
<1>8. CASE pc[q] = "finally"
  BY <1>0, <1>2, <1>3, <1>5, <1>8 DEF Directory, Files, RecordFirst
<1> QED
  BY <1>4, <1>6, <1>7, <1>8

LEMMA CleansStep == Directory /\ [Next]_vars => Cleans'
<1> SUFFICES ASSUME Directory, [Next]_vars, NEW q \in Pid, pc'[q] = "close",
                    NEW k \in 1..5, k < step'[q], Closing[k] \in Lasting(Own(q))'
             PROVE  files'[Closing[k]] # Own(q)'
  BY DEF Cleans, Closing
<1>0. Team /\ Owners
  BY DEF Directory, Team
<1>1. Base /\ TypeOK /\ Own(q)' = Own(q) /\ pc[q] # "gone" /\ Own(q) \in Identity
  <2>1. Base /\ TypeOK /\ Own(q)' = Own(q) /\ pc[q] # "gone"
    BY <1>0, AtWork DEF Owners, Base
  <2> QED
    BY <2>1, OwnType DEF Base
<1>2. Closing[k] \in Lasting(Own(q)) /\ Closing[k] \in Name /\ Closing[k] # "shutdown"
  BY <1>1, StillLasting DEF Markers
<1>3. pc[q] = "close" /\ k < step[q] => files[Closing[k]] # Own(q)
  BY <1>2 DEF Directory, Files, Cleans, Closing
<1>4. CASE Finally(q)
  <2>1. step'[q] = 5 /\ files' = files /\ pc[q] = "finally" /\ scope[q] = Own(q) /\ files["runtime"] # Own(q)
    BY <1>1, <1>4 DEF Finally, IsCreator, IsOurs, Closing, TypeOK
  <2>2. \A n \in Lasting(Own(q)) \cap {"control", "pid"} : files[n] # Own(q)
    BY <1>1, <2>1 DEF Directory, Files, RecordFirst, Owner, Base, Alive
  <2>3. Closing[k] \in {"runtime", "control", "pid"}
    BY <1>2, <2>1 DEF Closing
  <2> QED
    BY <1>1, <1>2, <2>1, <2>2, <2>3
<1>5. CASE Close(q)
  <2>1. step[q] \in 1..5 /\ step'[q] = step[q] + 1 /\ files' = [files EXCEPT ![Closing[step[q]]] = NoRecord]
    BY <1>1, <1>5 DEF Close, TypeOK, Opening, Closing
  <2>2. CASE k = step[q]
    BY <1>1, <1>2, <2>1, <2>2, ProcessAssumption DEF TypeOK
  <2>3. CASE k < step[q]
    <3>1. Closing[k] # Closing[step[q]]
      BY <2>1, <2>3 DEF Closing
    <3> QED
      BY <1>1, <1>2, <1>3, <1>5, <2>1, <2>3, <3>1 DEF TypeOK, Close
  <2> QED
    BY <2>1, <2>2, <2>3
<1>6. CASE Owner(q) /\ ~Open(q) /\ ~Close(q) /\ pc'[q] = pc[q] /\ step'[q] = step[q]
  <2>1. files'[Closing[k]] = files[Closing[k]]
    BY <1>2, <1>6, Undisturbed DEF ExitPc
  <2> QED
    BY <1>1, <1>3, <1>6, <2>1
<1>7. ~Open(q)
  BY <1>1 DEF Open, TypeOK
<1> QED
  BY <1>0, <1>4, <1>5, <1>6, <1>7, AtWork

\* a start that completed its cleanup has nothing in the directory, and, if it
\* was not disturbed, nobody writes for it any more
LEMMA LeftStep == Directory /\ [Next]_vars => Done' /\ Unleft' /\ NothingLeft'
<1> SUFFICES ASSUME Directory, [Next]_vars PROVE Done' /\ Unleft' /\ NothingLeft'
  OBVIOUS
<1>1. Team /\ Owners /\ Base /\ TypeOK /\ Base' /\ TypeOK'
  BY OwnersStep DEF Directory, Team, Owners, Base
<1>2. \/ left' = left
      \/ \E p \in Pid : /\ Close(p) /\ step[p] = 5 /\ pc'[p] = "unlock"
                        /\ left' = left \cup {Own(p)}
  <2>1. ASSUME NEW p \in Pid, Close(p)
        PROVE  \/ left' = left
               \/ step[p] = 5 /\ pc'[p] = "unlock" /\ left' = left \cup {Own(p)}
    BY <1>1, <2>1 DEF Close, Closing, Base, Scoped, TypeOK
  <2>2. left' = left \/ \E p \in Pid : Close(p)
    BY DEF Next, Master, Exit, Worker, vars, Die, Serve, Lock, Open, OpenFails, Interrupt, Watch,
           Terminate, Stopped, Finally, CloseFails, Unlock, Fork, Boot, Verify, Mark, Signal,
           ReadTarget, WriteTarget, Unwind, history
  <2> QED
    BY <2>1, <2>2
<1>3. Done'
  <2> SUFFICES ASSUME NEW q \in Pid, Own(q)' \in left', pc'[q] # "gone" PROVE pc'[q] = "unlock"
    BY <1>1 DEF Done, Base, TypeOK
  <2>1. CASE pc[q] = "gone"
    <3>1. \A i \in left : i \in Identity /\ Past(i)
      BY <1>1 DEF Base, TypeOK, Bygone
    <3>2. Own(q)' \notin left
      BY <1>1, <2>1, <3>1, OwnStep
    <3>3. PICK p \in Pid : Close(p) /\ left' = left \cup {Own(p)}
      BY <1>2, <3>2
    <3>4. Own(p).pid = p /\ Own(q)'.pid = q
      BY DEF Own, SelfIdentity
    <3> QED
      BY <2>1, <3>2, <3>3, <3>4 DEF Close
  <2>2. CASE pc[q] # "gone"
    <3>1. Own(q)' = Own(q)
      BY <1>1, <2>2, OwnStep
    <3>2. CASE Own(q) \in left
      <4>1. pc[q] = "unlock"
        BY <2>2, <3>2 DEF Directory, Files, Done
      <4> QED
        BY <1>1, <4>1, Turn DEF Base, TypeOK, Goto, Die, Forget, Master, Exit, Worker, Lock,
           Open, OpenFails, Interrupt, Watch, Terminate, Stopped, Finally, Close, CloseFails,
           Unlock, Fork, Boot, Verify, Mark, Signal, ReadTarget, WriteTarget, Unwind, Serve,
           WorkerPc
    <3>3. CASE Own(q) \notin left
      <4>1. PICK p \in Pid : Close(p) /\ pc'[p] = "unlock" /\ left' = left \cup {Own(p)}
        BY <1>2, <3>1, <3>3
      <4>2. p = q
        BY <3>1, <3>3, <4>1 DEF Own, SelfIdentity
      <4> QED
        BY <4>1, <4>2
    <3> QED
      BY <3>2, <3>3
  <2> QED
    BY <2>1, <2>2
<1>4. Unleft'
  <2> SUFFICES ASSUME NEW w \in Pid, pc'[w] \in AtService,
                      service'[w] \in left', service'[w] \notin disturbed'
               PROVE  FALSE
    BY DEF Unleft
  <2>1. service'[w] \notin disturbed
    BY Disturbs
  <2>2. CASE Boot(w)
    <3>1. service'[w] = files["runtime"] /\ left' = left
      BY <1>1, <2>2, Reads
    <3>2. "runtime" \in Lasting(service'[w])
      BY DEF Lasting, Name, Markers
    <3>3. files["runtime"] # service'[w]
      BY <3>1, <3>2 DEF Directory, Files, NothingLeft
    <3> QED
      BY <3>1, <3>3
  <2>3. CASE ~Boot(w)
    <3>1. pc[w] \in WorkerPc /\ pc[w] \in AtService /\ service'[w] = service[w]
      BY <1>1, <2>3, AtRequest DEF WorkerPc, AtService
    <3>2. service[w] \notin left
      BY <2>1, <3>1 DEF Directory, Files, Unleft
    <3>3. PICK p \in Pid : Close(p) /\ service[w] = Own(p)
      BY <1>2, <3>1, <3>2
    <3>4. Untroubled(p) /\ pc[p] \in ExitPc
      BY <1>1, <2>1, <3>1, <3>3 DEF Close, ExitPc, Base, Scoped, Alive, Owner, Untroubled
    <3> QED
      BY <3>1, <3>4 DEF Directory, Team, Workers, Company, Childless
  <2> QED
    BY <2>2, <2>3
<1>5. NothingLeft'
  <2> SUFFICES ASSUME NEW i \in left', NEW n \in Lasting(i)'
               PROVE  files'[n] # i
    BY DEF NothingLeft
  <2>1. n \in Lasting(i) /\ n \in Name \ Markers /\ (n = "control" => i \notin disturbed)
    BY Disturbs DEF Lasting
  <2>2. i \in Identity /\ i # NoRecord
    BY <1>1, ProcessAssumption DEF TypeOK
  <2>3. CASE i \in left
    <3>1. files[n] # i
      BY <2>1, <2>3 DEF Directory, Files, NothingLeft
    <3>2. \A p \in Pid : Open(p) => Own(p) # i
      BY <2>3 DEF Directory, Files, Done, Open
    <3>3. n = "control" => \A p \in Pid : WriteTarget(p) => service[p] # i
      BY <2>1, <2>3 DEF WriteTarget, Goto, AtService, Directory, Files, Unleft
    <3> QED
      BY <1>1, <2>1, <2>2, <3>1, <3>2, <3>3, Writers
  <2>4. CASE i \notin left
    <3>1. PICK p \in Pid : Close(p) /\ step[p] = 5 /\ i = Own(p)
      BY <1>2, <2>4
    <3>2. files' = [files EXCEPT !["token"] = NoRecord]
      BY <3>1 DEF Close, Closing
    <3>3. n # "token" => files[n] # i
      <4>1. \A k \in 1..4 : Closing[k] \in Lasting(Own(p)) => files[Closing[k]] # Own(p)
        BY <3>1 DEF Directory, Files, Cleans, Close, Closing
      <4>2. \E k \in 1..5 : n = Closing[k]
        BY <2>1 DEF Closing, Name
      <4>3. Closing[5] = "token"
        BY DEF Closing
      <4> QED
        BY <2>1, <3>1, <4>1, <4>2, <4>3
    <3> QED
      BY <1>1, <2>1, <2>2, <3>2, <3>3 DEF TypeOK
  <2> QED
    BY <2>3, <2>4
<1> QED
  BY <1>3, <1>4, <1>5

LEMMA DirectoryStep == Directory /\ [Next]_vars => Directory'
BY TeamStep, ResetStep, UnwrittenStep, OpensStep, RecordStep, CleansStep, LeftStep DEF Directory,
    Files

\* OwnState: while a start serves, its record, token and PID file, and its
\* control unless workers of another start run beside it, are in the directory
\* and its own: what service_runtime wrote is undisturbed by other starts, by
\* forked workers on their way out, and by late requests and updates.
THEOREM StateIsOwn == Spec => []OwnState
<1>1. Directory => OwnState
  BY DEF Directory, Files
<1> QED
  BY InitDirectory, DirectoryStep, <1>1, PTL DEF Spec

\* NothingLeft: the finally block of service_runtime, once it completes, has
\* removed each file that the start wrote, though it tests only the record; and
\* no late update brings the control back, unless workers were left running.
THEOREM CleanExit == Spec => []NothingLeft
<1>1. Directory => NothingLeft
  BY DEF Directory, Files
<1> QED
  BY InitDirectory, DirectoryStep, <1>1, PTL DEF Spec
=============================================================================
