------------------------- MODULE WorkerLeaseProofs -------------------------
(* Theorems about WorkerLease, for every set of PIDs, number range and       *)
(* number of births.                                                         *)
EXTENDS WorkerLease, TLAPS

USE ProcessAssumption, LeaseAssumption

\* The inductive invariant: types, and the agreement of files, lock and
\* processes between the steps of every operation.
IInv == TypeOK /\ Agreement

LEMMA InitInv == Init => IInv
BY DEF Init, IInv, TypeOK, ProcTypeOK, ProcInit, Agreement, LockExclusive, LocalsAlive,
       NoFutureOwner, OwnersHaveFiles, LeaseHasNumber, LiveFilesHaveOwners, ChosenStaysFree, Uses, Occupies,
       IsLive, Running, Critical, Acquiring, Releasing, Cleaning, WorkerId, Identity

\* A running process has an identity: only a birth makes it run.
LEMMA SelfType == ASSUME TypeOK, LocalsAlive, NEW p \in Pid, pc[p] # "gone"
                  PROVE  /\ SelfIdentity(p) \in Identity
                         /\ IsLive(SelfIdentity(p))
<1>1. Running(p) /\ born[p] \in 1..MaxBirths
  BY DEF TypeOK, ProcTypeOK, LocalsAlive, Running
<1>2. SelfIdentity(p) \in Identity
  BY <1>1 DEF SelfIdentity, Identity
<1> QED
  BY <1>1, <1>2 DEF SelfIdentity, IsLive, Identity

LEMMA TypeStep == IInv /\ [Next]_vars => TypeOK'
<1> SUFFICES ASSUME IInv, [Next]_vars PROVE TypeOK'
  OBVIOUS
<1> USE DEF IInv, TypeOK, ProcTypeOK, Running, Critical, Acquiring, Releasing, Cleaning,
        Goto, local, procVars
<1>1. ASSUME NEW p \in Pid, Start(p) \/ Die(p) \/ Wait(p) PROVE TypeOK'
  <2>1. CASE Start(p)  BY <2>1 DEF Start, Birth
  <2>2. CASE Die(p)  BY <2>2 DEF Die, Death
  <2>3. CASE Wait(p)  BY <2>3 DEF Wait, Reap
  <2> QED  BY <1>1, <2>1, <2>2, <2>3
<1>2. ASSUME NEW p \in Pid, Lock(p) PROVE TypeOK'
  BY <1>2 DEF Lock, AfterLock
<1>3. ASSUME NEW p \in Pid, Unlock(p) PROVE TypeOK'
  BY <1>3 DEF Unlock, AfterUnlock
<1>4. ASSUME NEW p \in Pid, Pass(p) PROVE TypeOK'
  BY <1>4 DEF Pass
<1>5. ASSUME NEW p \in Pid, Choose(p) \/ Exhaust(p) PROVE TypeOK'
  BY <1>5 DEF Choose, Exhaust
<1>6. ASSUME NEW p \in Pid, Write(p) PROVE TypeOK'
  <2>1. SelfIdentity(p) \in Identity
    BY <1>6, SelfType DEF Write, Agreement
  <2>2. leases' \in [WorkerId -> Identity \cup {NoRecord}]
    BY <1>6, <2>1 DEF Write
  <2>3. pc' \in [Pid -> {"gone", "idle", "held", "failed", "released", "unreleased"}
                            \cup DOMAIN AfterLock \cup Critical]
    BY <1>6 DEF Write
  <2> QED
    BY <1>6, <2>2, <2>3 DEF Write
<1>7. ASSUME NEW p \in Pid, Compare(p) \/ Unlink(p) PROVE TypeOK'
  BY <1>7 DEF Compare, Unlink
<1>8. ASSUME NEW p \in Pid, Inspect(p) \/ Cleaned(p) PROVE TypeOK'
  BY <1>8 DEF Inspect, Cleaned
<1>9. ASSUME NEW p \in Pid, Release(p) \/ Clean(p) PROVE TypeOK'
  BY <1>9 DEF Release, Clean, AfterLock
<1>10. ASSUME NEW p \in Pid, NEW base \in 0..IdLimit, NEW count \in 0..IdLimit,
              Acquire(p, base, count)
       PROVE TypeOK'
  <2>1. /\ at' \in [Pid -> 0..IdLimit]
        /\ end' \in [Pid -> 0..IdLimit]
    BY <1>10 DEF Acquire, ValidRange
  <2>2. pc' \in [Pid -> {"gone", "idle", "held", "failed", "released", "unreleased"}
                            \cup DOMAIN AfterLock \cup Critical]
    BY <1>10 DEF Acquire, AfterLock
  <2> QED
    BY <1>10, <2>1, <2>2 DEF Acquire
<1>11. ASSUME NEW p \in Pid, Fails(p) PROVE TypeOK'
  BY <1>11 DEF Fails, AfterError
<1>12. CASE UNCHANGED vars
  BY <1>12 DEF vars
<1> QED
  BY <1>1, <1>2, <1>3, <1>4, <1>5, <1>6, <1>7, <1>8, <1>9, <1>10, <1>11, <1>12
     DEF Next, Work, Call

LEMMA AgreementStep == IInv /\ TypeOK' /\ [Next]_vars => Agreement'
<1> SUFFICES ASSUME IInv, TypeOK', [Next]_vars PROVE Agreement'
  OBVIOUS
<1> USE DEF IInv, TypeOK, ProcTypeOK, Agreement, LockExclusive, LocalsAlive, NoFutureOwner,
        OwnersHaveFiles, LeaseHasNumber, OwnFile, LiveFilesHaveOwners, ChosenStaysFree, Uses, Occupies, IsLive,
        Running, SelfIdentity, Critical, Acquiring, Releasing, Cleaning, Goto, local, procVars
<1>0. \A i \in WorkerId : leases[i] # NoRecord => leases[i].pid \in Pid
  BY DEF Identity
<1>1. ASSUME NEW p \in Pid, Start(p) PROVE Agreement'
  <2>1. /\ LockExclusive'
        /\ LocalsAlive'
        /\ OwnersHaveFiles'
        /\ LiveFilesHaveOwners'
        /\ ChosenStaysFree'
        /\ LeaseHasNumber'
    BY <1>0, <1>1 DEF Start, Birth
  <2>2. NoFutureOwner'
    <3> SUFFICES ASSUME NEW i \in WorkerId, leases[i] # NoRecord
                 PROVE  leases[i].created <= born'[leases[i].pid]
      BY <1>1 DEF Start
    <3>1. /\ leases[i].pid \in Pid
          /\ leases[i].created \in Nat
          /\ leases[i].created <= born[leases[i].pid]
      BY DEF Identity
    <3>2. born'[leases[i].pid] >= born[leases[i].pid]
      BY <1>1, <3>1 DEF Start, Birth
    <3> QED
      BY <3>1, <3>2
  <2> QED
    BY <2>1, <2>2
<1>2. ASSUME NEW p \in Pid, Die(p) PROVE Agreement'
  BY <1>0, <1>2 DEF Die, Death
<1>3. ASSUME NEW p \in Pid, Wait(p) PROVE Agreement'
  BY <1>0, <1>3 DEF Wait, Reap
<1>4. ASSUME NEW p \in Pid, Lock(p) PROVE Agreement'
  BY <1>0, <1>4 DEF Lock, AfterLock
<1>5. ASSUME NEW p \in Pid, Unlock(p) PROVE Agreement'
  BY <1>0, <1>5 DEF Unlock, AfterUnlock
<1>6. ASSUME NEW p \in Pid, Pass(p) PROVE Agreement'
  BY <1>0, <1>6 DEF Pass
<1>7. ASSUME NEW p \in Pid, Choose(p) PROVE Agreement'
  BY <1>0, <1>7 DEF Choose, WorkerId
<1>8. ASSUME NEW p \in Pid, Exhaust(p) PROVE Agreement'
  BY <1>0, <1>8 DEF Exhaust
<1>9. ASSUME NEW p \in Pid, Write(p) PROVE Agreement'
  <2>1. /\ LockExclusive'
        /\ LocalsAlive'
        /\ NoFutureOwner'
        /\ LiveFilesHaveOwners'
        /\ ChosenStaysFree'
        /\ LeaseHasNumber'
    BY <1>0, <1>9 DEF Write
  <2>2. OwnersHaveFiles'
    <3> SUFFICES ASSUME NEW q \in Pid, (Uses(q) \/ pc[q] = "unlink")' PROVE OwnFile(q)'
      BY DEF OwnersHaveFiles
    <3>1. CASE q = p
      BY <1>9, <3>1 DEF Write
    <3>2. CASE q # p
      <4>1. OwnFile(q) /\ at[q] \in WorkerId /\ IsLive(leases[at[q]])
        BY <1>9, <3>2, SelfType DEF Write
      <4>2. pc[p] = "write" => at[q] # at[p]
        BY <4>1
      <4> QED
        BY <1>9, <3>2, <4>1, <4>2 DEF Write
    <3> QED
      BY <3>1, <3>2
  <2> QED
    BY <2>1, <2>2
<1>10. ASSUME NEW p \in Pid, Compare(p) PROVE Agreement'
  <2>1. /\ LockExclusive'
        /\ LocalsAlive'
        /\ NoFutureOwner'
        /\ ChosenStaysFree'
        /\ LeaseHasNumber'
    BY <1>0, <1>10 DEF Compare
  <2>2. OwnersHaveFiles'
    <3> SUFFICES ASSUME NEW q \in Pid, (Uses(q) \/ pc[q] = "unlink")' PROVE OwnFile(q)'
      BY DEF OwnersHaveFiles
    <3>1. CASE q = p
      <4>1. leases[at[p]] = SelfIdentity(p)
        BY <1>10, <3>1 DEF Compare
      <4>2. at[p] \in WorkerId
        BY <1>10 DEF Compare
      <4> QED
        BY <1>10, <3>1, <4>1, <4>2 DEF Compare
    <3>2. CASE q # p
      BY <1>10, <3>2 DEF Compare
    <3> QED
      BY <3>1, <3>2
  <2>3. LiveFilesHaveOwners'
    <3> SUFFICES ASSUME NEW i \in WorkerId, IsLive(leases[i])
                 PROVE  Occupies(leases[i].pid)' /\ at[leases[i].pid] = i
      BY <1>10 DEF Compare
    <3>1. leases[i].pid # p \/ leases[i] = SelfIdentity(p)
      BY DEF Identity
    <3> QED
      BY <1>0, <1>10, <3>1 DEF Compare
  <2> QED
    BY <2>1, <2>2, <2>3
<1>11. ASSUME NEW p \in Pid, Unlink(p) PROVE Agreement'
  <2>1. /\ LockExclusive'
        /\ LocalsAlive'
        /\ NoFutureOwner'
        /\ LiveFilesHaveOwners'
        /\ ChosenStaysFree'
        /\ LeaseHasNumber'
    BY <1>0, <1>11 DEF Unlink
  <2>2. OwnersHaveFiles'
    <3> SUFFICES ASSUME NEW q \in Pid, (Uses(q) \/ pc[q] = "unlink")' PROVE OwnFile(q)'
      BY DEF OwnersHaveFiles
    <3>1. q # p /\ OwnFile(q) /\ at[q] \in WorkerId
      BY <1>11 DEF Unlink
    <3>2. OwnFile(p)
      BY <1>11 DEF Unlink
    <3>3. at[q] # at[p]
      BY <3>1, <3>2
    <3> QED
      BY <1>11, <3>1, <3>3 DEF Unlink
  <2> QED
    BY <2>1, <2>2
<1>12. ASSUME NEW p \in Pid, Inspect(p) PROVE Agreement'
  BY <1>0, <1>12 DEF Inspect
<1>13. ASSUME NEW p \in Pid, Cleaned(p) PROVE Agreement'
  BY <1>0, <1>13 DEF Cleaned
<1>14. ASSUME NEW p \in Pid, Release(p) \/ Clean(p) PROVE Agreement'
  BY <1>0, <1>14 DEF Release, Clean
<1>15. ASSUME NEW p \in Pid, NEW base \in 0..IdLimit, NEW count \in 0..IdLimit,
              Acquire(p, base, count)
       PROVE Agreement'
  BY <1>0, <1>15 DEF Acquire, ValidRange
<1>16. ASSUME NEW p \in Pid, Fails(p) PROVE Agreement'
  BY <1>0, <1>16 DEF Fails, AfterError
<1>17. CASE UNCHANGED vars
  BY <1>17 DEF vars
<1> QED
  BY <1>1, <1>2, <1>3, <1>4, <1>5, <1>6, <1>7, <1>8, <1>9, <1>10, <1>11, <1>12, <1>13,
     <1>14, <1>15, <1>16, <1>17 DEF Next, Work, Call

\* WorkerLease keeps its types and the agreement of files, lock and processes.
THEOREM Invariance == Spec => []IInv
<1>1. IInv /\ [Next]_vars => IInv'
  BY TypeStep, AgreementStep DEF IInv
<1> QED
  BY InitInv, <1>1, PTL DEF Spec

\* Type correctness of every reachable state.
THEOREM Typing == Spec => []TypeOK
<1>1. IInv => TypeOK
  BY DEF IInv
<1> QED
  BY Invariance, <1>1, PTL

\* Files, lock and processes agree in every reachable state, also after an OSError
\* that leaves a live process with a file it does not use.
THEOREM Agreeing == Spec => []Agreement
<1>1. IInv => Agreement
  BY DEF IInv
<1> QED
  BY Invariance, <1>1, PTL

LEMMA OneUser == IInv => UniqueNumber
<1> SUFFICES ASSUME IInv, NEW p \in Pid, NEW q \in Pid, Uses(p), Uses(q), at[p] = at[q]
             PROVE  p = q
  BY DEF UniqueNumber
<1>1. OwnFile(p) /\ OwnFile(q)
  BY DEF IInv, Agreement, OwnersHaveFiles
<1> QED
  BY <1>1 DEF OwnFile, SelfIdentity

\* No two workers of a service generate IDs with the same Snowflake number,
\* through any interleaving of acquire, release, cleanup, death and PID reuse.
THEOREM Uniqueness == Spec => []UniqueNumber
BY Invariance, OneUser, PTL

\* A scan passes over a number only while some running process has it, is giving
\* it back, or failed to.
THEOREM NoLeakedNumber == Spec => PassesOnlyOccupied
<1> DEFINE Step == \A p \in Pid : pc[p] = "scan" /\ pc'[p] = "scan" /\ at'[p] # at[p]
                      => \E q \in Pid : Occupies(q) /\ at[q] = at[p]
<1>1. IInv /\ [Next]_vars => [Step]_vars
  <2> SUFFICES ASSUME IInv, Next, NEW p \in Pid, pc[p] = "scan", pc'[p] = "scan",
                      at'[p] # at[p]
               PROVE  \E q \in Pid : Occupies(q) /\ at[q] = at[p]
    OBVIOUS
  <2> USE DEF IInv, TypeOK
  <2>1. Pass(p)
    <3>1. PICK q \in Pid : \/ Start(q) \/ Die(q) \/ Wait(q)
                           \/ Lock(q) \/ Work(q) \/ Fails(q) \/ Call(q)
      BY DEF Next
    <3>2. at' # at
      OBVIOUS
    <3>3. Die(q) \/ Pass(q) \/ \E base \in 0..IdLimit, count \in 0..IdLimit :
                                   Acquire(q, base, count)
      BY <3>1, <3>2 DEF Start, Wait, Lock, Work, Call, Unlock, Choose, Exhaust, Write, Compare,
                        Unlink, Inspect, Cleaned, Fails, Release, Clean, local
    <3>4. at'[p] # at[p] => q = p
      BY <3>3 DEF Die, Pass, Acquire
    <3> QED
      BY <3>3, <3>4 DEF Die, Acquire
  <2>2. at[p] \in WorkerId /\ IsLive(leases[at[p]])
    BY <2>1 DEF Pass, WorkerId
  <2>3. leases[at[p]].pid \in Pid
    BY <2>2 DEF IsLive, Identity
  <2> QED
    BY <2>2, <2>3 DEF Agreement, LiveFilesHaveOwners
<1> QED
  BY Invariance, <1>1, PTL DEF Spec, PassesOnlyOccupied

-----------------------------------------------------------------------------
LEMMA SameUsers == ASSUME \A q \in Pid : Uses(q)' <=> Uses(q),
                          \A q \in Pid : Uses(q) => at'[q] = at[q] /\ born'[q] = born[q]
                   PROVE  Users' = Users
BY DEF Users, SelfIdentity

\* The users of a number are none, or the one process that holds it.
LEMMA UserIsAlone == ASSUME IInv, NEW p \in Pid, Uses(p)
                     PROVE  /\ at[p] \in WorkerId
                            /\ Users[at[p]] = {SelfIdentity(p)}
<1>1. at[p] \in WorkerId
  BY DEF IInv, Agreement, LeaseHasNumber, Occupies
<1>2. \A q \in Pid : Uses(q) /\ at[q] = at[p] <=> q = p
  BY OneUser DEF UniqueNumber
<1> QED
  BY <1>1, <1>2 DEF Users

LEMMA EndingCeases == ASSUME IInv, NEW p \in Pid, Uses(p), ~Uses(p)',
                             \A q \in Pid \ {p} : Uses(q)' <=> Uses(q),
                             at' = [at EXCEPT ![p] = at'[p]], born' = born
                      PROVE  Pool!Cease(at[p], SelfIdentity(p))
<1>1. at[p] \in WorkerId /\ Users[at[p]] = {SelfIdentity(p)}
  BY UserIsAlone
<1>2. \A q \in Pid : q # p => at'[q] = at[q]
  BY DEF IInv, TypeOK
<1>3. ASSUME NEW i \in WorkerId PROVE Users'[i] = IF i = at[p] THEN {} ELSE Users[i]
  <2>1. \A q \in Pid : (Uses(q) /\ at[q] = i)' <=> Uses(q) /\ at[q] = i /\ i # at[p]
    BY <1>2, OneUser DEF UniqueNumber
  <2> QED
    BY <2>1 DEF Users, SelfIdentity
<1>4. Users' = [Users EXCEPT ![at[p]] = {}]
  BY <1>1, <1>3 DEF Users
<1> QED
  BY <1>1, <1>4 DEF Pool!Cease

LEMMA WriteClaims == ASSUME IInv, NEW p \in Pid, Write(p)
                     PROVE  Pool!Claim(at[p], SelfIdentity(p))
<1>1. at[p] \in WorkerId /\ ~IsLive(leases[at[p]]) /\ pc[p] = "write"
  BY DEF Write, Goto, IInv, Agreement, ChosenStaysFree
<1>2. ~Uses(p) /\ Uses(p)' /\ \A q \in Pid : q # p => (Uses(q)' <=> Uses(q))
  BY <1>1 DEF Write, Goto, Uses, IInv, TypeOK
<1>3. \A q \in Pid : Uses(q) => at[q] # at[p]
  <2> SUFFICES ASSUME NEW q \in Pid, Uses(q) PROVE at[q] # at[p]
    OBVIOUS
  <2>1. IsLive(leases[at[q]])
    BY SelfType DEF IInv, Agreement, OwnersHaveFiles, OwnFile, Uses
  <2> QED
    BY <1>1, <2>1
<1>4. Users[at[p]] = {}
  BY <1>1, <1>3 DEF Users
<1>5. \A j \in WorkerId : SelfIdentity(p) \notin Users[j]
  BY <1>2 DEF Users, SelfIdentity
<1>6. at' = at /\ born' = born
  BY DEF Write, local, procVars
<1>7. ASSUME NEW i \in WorkerId
      PROVE  Users'[i] = IF i = at[p] THEN {SelfIdentity(p)} ELSE Users[i]
  <2>1. \A q \in Pid : (Uses(q) /\ at[q] = i)'
                         <=> \/ Uses(q) /\ at[q] = i
                             \/ q = p /\ i = at[p]
    BY <1>2, <1>6
  <2>2. CASE i = at[p]
    BY <1>3, <1>6, <2>1, <2>2 DEF Users, SelfIdentity
  <2>3. CASE i # at[p]
    BY <1>6, <2>1, <2>3 DEF Users, SelfIdentity
  <2> QED
    BY <2>2, <2>3
<1>8. Users' = [Users EXCEPT ![at[p]] = {SelfIdentity(p)}]
  BY <1>1, <1>7 DEF Users
<1> QED
  BY <1>1, <1>4, <1>5, <1>8 DEF Pool!Claim

LEMMA PoolStep == IInv /\ [Next]_vars => [Pool!PoolNext]_Users
<1> SUFFICES ASSUME IInv, [Next]_vars PROVE Pool!PoolNext \/ Users' = Users
  OBVIOUS
<1> USE DEF IInv, TypeOK, ProcTypeOK
<1>1. ASSUME NEW p \in Pid, Uses(p), Die(p) \/ Release(p) \/ Fails(p)
      PROVE  Pool!PoolNext
  <2>1. at[p] \in WorkerId /\ SelfIdentity(p) \in Identity
    BY <1>1, UserIsAlone, SelfType DEF Agreement, Uses
  <2>2. /\ \A q \in Pid \ {p} : Uses(q)' <=> Uses(q)
        /\ ~Uses(p)'
        /\ at' = [at EXCEPT ![p] = at'[p]]
        /\ born' = born
    BY <1>1 DEF Die, Death, Release, Fails, AfterError, Uses, local, procVars
  <2>3. Pool!Cease(at[p], SelfIdentity(p))
    BY <1>1, <2>2, EndingCeases
  <2> QED
    BY <2>1, <2>3 DEF Pool!PoolNext
<1>2. ASSUME NEW p \in Pid, Write(p) PROVE Pool!PoolNext
  <2>1. at[p] \in WorkerId /\ SelfIdentity(p) \in Identity
    BY <1>2, SelfType DEF Write, Goto, Agreement, ChosenStaysFree
  <2> QED
    BY <1>2, <2>1, WriteClaims DEF Pool!PoolNext
<1>3. ASSUME NEW p \in Pid,
             \/ ~Uses(p) /\ (Start(p) \/ Die(p) \/ Release(p) \/ Fails(p))
             \/ Wait(p) \/ Lock(p) \/ Unlock(p) \/ Pass(p) \/ Choose(p) \/ Exhaust(p)
             \/ Compare(p) \/ Unlink(p) \/ Inspect(p) \/ Cleaned(p) \/ Clean(p)
             \/ \E base \in 0..IdLimit, count \in 0..IdLimit : Acquire(p, base, count)
      PROVE  Users' = Users
  <2>1. \A q \in Pid : Uses(q)' <=> Uses(q)
    BY <1>3 DEF Uses, Start, Die, Wait, Lock, AfterLock, Unlock, AfterUnlock, Pass, Choose,
                Exhaust, Compare, Unlink, Inspect, Cleaned, Fails, AfterError, Clean, Release,
                Acquire, Goto
  <2>2. \A q \in Pid : Uses(q) => at'[q] = at[q] /\ born'[q] = born[q]
    BY <1>3 DEF Uses, Start, Birth, Die, Death, Wait, Reap, Lock, AfterLock, Unlock, AfterUnlock,
                Pass, Choose, Exhaust, Compare, Unlink, Inspect, Cleaned, Fails, AfterError,
                Clean, Release, Acquire, Goto, local, procVars
  <2> QED
    BY <2>1, <2>2, SameUsers
<1>4. CASE UNCHANGED vars
  BY <1>4 DEF vars, Users, Uses, SelfIdentity
<1>5. ASSUME NEW p \in Pid, Start(p) PROVE ~Uses(p)
  BY <1>5 DEF Start, Goto, Uses
<1> QED
  BY <1>1, <1>2, <1>3, <1>4, <1>5 DEF Next, Work, Call

\* The lease files implement the abstract pool of numbers.
THEOREM Refinement == Spec => ImplementsPool
<1>1. Init => Pool!PoolInit
  BY DEF Init, Pool!PoolInit, Users, Uses
<1>2. IInv /\ [Next]_vars => [Pool!PoolNext]_Users
  BY PoolStep
<1> QED
  BY Invariance, <1>1, <1>2, PTL DEF Spec, ImplementsPool, Pool!PoolSpec
=============================================================================
