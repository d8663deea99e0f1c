------------------------ MODULE ServiceBridgeProofs ------------------------
(* Theorems about ServiceBridge, for every set of calls and every number of  *)
(* attempts.  LoopInv says what each handle of the loop's queue means for    *)
(* its call's task, and which of them run before which; with it the bridge   *)
(* implements AttemptBarrier.                                                *)
EXTENDS ServiceBridge, FiniteSetTheorems, TLAPS

(* The loop's queue: what is in it, in which order, and each handle once.    *)
Holds(q, h) == \E i \in DOMAIN q : q[i] = h
Precedes(q, g, h) == \A i, j \in DOMAIN q : q[i] = g /\ q[j] = h => i < j
Once(q) == \A i, j \in DOMAIN q : q[i] = q[j] => i = j

Queued(what, c) == Holds(ready, <<what, c>>)
Draining(what) == Holds(ready, <<what, NoCall>>)
Drains == {"create drain", "drain", "drained"}
\* a call whose task has not run its first step
Unregistered(c) == task[c] = "ready" /\ c \notin tasks

\* The handles of a call are those that its task has still to run.
Handles == /\ Once(ready)
           /\ \A c \in Call :
                /\ Queued("create", c) <=> task[c] = "submitted"
                /\ Queued("step", c) => task[c] = "ready"
                /\ Unregistered(c) => Queued("step", c)
                /\ Queued("cancel", c) => future[c] = "cancelled" /\ task[c] # "submitted"
                /\ Queued("settle", c) \/ Queued("completed", c) \/ Queued("gathered", c)
                      => task[c] = "done"
                /\ Queued("gathered", c) => c \in gathering

\* tasks has the calls that have begun, until completed() takes them out.
Registered == \A c \in Call :
                /\ c \in tasks => task[c] \in {"ready", "waiting", "done"}
                /\ task[c] = "waiting" => c \in tasks
                /\ task[c] = "new" <=> future[c] = "none"

\* Only a closing worker has a drain(), which is queued, waits or spins.
Turns == /\ worker # "closing" => gathering = {} /\ ~spinning /\ \A w \in Drains : ~Draining(w)
         /\ \A v, w \in Drains : Draining(v) /\ Draining(w) => v = w
         /\ (\E w \in Drains : Draining(w)) => gathering = {}

\* First in, first out: drain() comes after the first step of every call, and a
\* call is cancelled after its first step.
InTurn == \A c \in Call :
    /\ Precedes(ready, <<"create", c>>, <<"create drain", NoCall>>)
    /\ c \notin tasks => Precedes(ready, <<"step", c>>, <<"cancel", c>>)
    /\ Draining("drain") =>
         /\ task[c] # "submitted"
         /\ Unregistered(c) => Precedes(ready, <<"step", c>>, <<"drain", NoCall>>)
         /\ Precedes(ready, <<"cancel", c>>, <<"drain", NoCall>>)
    /\ gathering # {} \/ Draining("drained") =>
         task[c] # "submitted" /\ ~Unregistered(c) /\ ~Queued("cancel", c)

\* An attempt has ended, or is about to, when no call is active.
Ended == worker = "closed" \/ Draining("drained") => \A c \in Call : ~Pending(c)

\* A queued cancellation finds a call that has not been cancelled, and a pending call
\* was cancelled by its submitter or by drain().
Cancelling == /\ CancelledOnce
              /\ \A c \in Call : /\ Queued("cancel", c) => cancels[c] = 0 \/ task[c] = "done"
                                 /\ cancels[c] > 0 /\ Pending(c) => \/ future[c] = "cancelled"
                                                                    \/ worker = "closing"

\* All of it holds in every state; CancelledOnce and AttemptBarrier follow.
LoopInv == /\ TypeOK /\ IsFiniteSet(tasks) /\ Handles /\ Registered /\ Turns /\ InTurn
           /\ Ended /\ Cancelling
-----------------------------------------------------------------------------
\* What a step does to the queue: it takes some handles out and adds others
\* behind the rest.
Becomes(q, r, gone, added) ==
    /\ r \in Seq(Handle)
    /\ Once(r)
    /\ \A h \in Handle : Holds(r, h) <=> (Holds(q, h) /\ h \notin gone) \/ h \in added
    /\ \A g, h \in Handle : g \notin added /\ (Precedes(q, g, h) \/ h \in added)
                               => Precedes(r, g, h)
    /\ \A g, h \in Handle : ~Holds(r, g) \/ ~Holds(r, h) => Precedes(r, g, h)
Became(gone, added) == Becomes(ready, ready', gone, added)

LEMMA Absent == ASSUME NEW q, NEW g, NEW h, ~Holds(q, g) \/ ~Holds(q, h)
                PROVE  Precedes(q, g, h)
BY DEF Holds, Precedes

\* A queue with other handles behind it, and without its oldest.
LEMMA Joined == ASSUME NEW S, NEW p \in Seq(S), NEW q \in Seq(S), Once(p), Once(q),
                       \A h \in S : ~(Holds(p, h) /\ Holds(q, h))
                PROVE  /\ p \o q \in Seq(S)
                       /\ Once(p \o q)
                       /\ \A h \in S : Holds(p \o q, h) <=> Holds(p, h) \/ Holds(q, h)
                       /\ \A g, h \in S : Precedes(p, g, h) /\ ~Holds(q, g)
                                             => Precedes(p \o q, g, h)
                       /\ \A g, h \in S : ~Holds(q, g) /\ Holds(q, h) => Precedes(p \o q, g, h)
<1> DEFINE r == p \o q
<1>1. /\ r \in Seq(S) /\ Len(r) = Len(p) + Len(q) /\ DOMAIN r = 1..(Len(p) + Len(q))
      /\ \A i \in 1..Len(p) : r[i] = p[i]
      /\ \A i \in 1..Len(q) : r[Len(p) + i] = q[i]
  OBVIOUS
<1>2. \A i \in DOMAIN r : \/ i \in DOMAIN p /\ r[i] = p[i]
                          \/ i > Len(p) /\ i - Len(p) \in DOMAIN q /\ r[i] = q[i - Len(p)]
  BY <1>1
<1>3. \A i \in DOMAIN p : i \in DOMAIN r /\ i \in Nat /\ i <= Len(p) /\ r[i] = p[i] /\ p[i] \in S
  BY <1>1
<1>4. \A i \in DOMAIN q : Len(p) + i \in DOMAIN r /\ r[Len(p) + i] = q[i] /\ q[i] \in S
  BY <1>1
<1>5. \A h \in S : Holds(r, h) <=> Holds(p, h) \/ Holds(q, h)
  BY <1>2, <1>3, <1>4 DEF Holds
<1>6. Once(r)
  <2> SUFFICES ASSUME NEW i \in DOMAIN r, NEW j \in DOMAIN r, r[i] = r[j] PROVE i = j
    BY DEF Once
  <2>1. CASE i \in DOMAIN p /\ j \in DOMAIN p
    BY <1>3, <2>1 DEF Once
  <2>2. CASE i > Len(p) /\ j > Len(p)
    <3>1. /\ i - Len(p) \in DOMAIN q /\ r[i] = q[i - Len(p)]
          /\ j - Len(p) \in DOMAIN q /\ r[j] = q[j - Len(p)]
      BY <1>2, <1>3, <2>2
    <3>2. i - Len(p) = j - Len(p)
      BY <3>1 DEF Once
    <3> QED
      BY <1>1, <3>2
  <2>3. \A k, l \in DOMAIN r : k \in DOMAIN p /\ l > Len(p) => r[k] # r[l]
    <3> SUFFICES ASSUME NEW k \in DOMAIN p, NEW l \in DOMAIN r, l > Len(p), r[k] = r[l]
                 PROVE  FALSE
      OBVIOUS
    <3>1. Holds(p, r[k]) /\ r[k] \in S
      BY <1>3 DEF Holds
    <3>2. l \notin DOMAIN p
      BY <1>1, <1>3
    <3>3. l - Len(p) \in DOMAIN q /\ r[l] = q[l - Len(p)]
      BY <1>2, <3>2
    <3>4. Holds(q, r[l])
      BY <3>3 DEF Holds
    <3> QED
      BY <3>1, <3>4
  <2> QED
    BY <1>2, <2>1, <2>2, <2>3
<1>7. ASSUME NEW g \in S, NEW h \in S, ~Holds(q, g), Precedes(p, g, h) \/ Holds(q, h)
      PROVE  Precedes(r, g, h)
  <2> SUFFICES ASSUME NEW i \in DOMAIN r, NEW j \in DOMAIN r, r[i] = g, r[j] = h PROVE i < j
    BY DEF Precedes
  <2>1. i \in DOMAIN p /\ p[i] = g /\ i \in Nat /\ i <= Len(p)
    BY <1>2, <1>3, <1>7 DEF Holds
  <2>2. CASE j > Len(p)
    BY <1>1, <2>1, <2>2
  <2>3. CASE j \in DOMAIN p
    <3>1. p[j] = h /\ ~Holds(q, h)
      BY <1>3, <2>3 DEF Holds
    <3> QED
      BY <1>7, <2>1, <2>3, <3>1 DEF Precedes
  <2> QED
    BY <1>2, <2>2, <2>3
<1> QED
  BY <1>1, <1>5, <1>6, <1>7

LEMMA Popped == ASSUME NEW S, NEW q \in Seq(S), q # <<>>, Once(q)
                PROVE  /\ Tail(q) \in Seq(S) /\ Once(Tail(q)) /\ Head(q) \in S /\ Holds(q, Head(q))
                       /\ \A h \in S : Holds(Tail(q), h) <=> Holds(q, h) /\ h # Head(q)
                       /\ \A g, h \in S : Precedes(q, g, h) => Precedes(Tail(q), g, h)
                       /\ \A g \in S : Precedes(q, g, Head(q)) => ~Holds(q, g)
<1> DEFINE t == Tail(q)
<1>1. /\ t \in Seq(S) /\ Head(q) = q[1] /\ Head(q) \in S
      /\ Len(q) \in Nat /\ Len(q) > 0 /\ DOMAIN q = 1..Len(q) /\ DOMAIN t = 1..(Len(q) - 1)
      /\ \A i \in DOMAIN t : t[i] = q[i + 1] /\ i \in Nat /\ i + 1 \in DOMAIN q
  OBVIOUS
<1>2. \A i \in DOMAIN q : i = 1 \/ (i > 1 /\ i - 1 \in DOMAIN t /\ q[i] = t[i - 1])
  BY <1>1
<1>3. \A h \in S : Holds(t, h) <=> Holds(q, h) /\ h # Head(q)
  <2> TAKE h \in S
  <2>1. ASSUME NEW i \in DOMAIN t, t[i] = h PROVE Holds(q, h) /\ h # Head(q)
    <3>1. q[i + 1] = h /\ i + 1 \in DOMAIN q /\ i + 1 # 1 /\ 1 \in DOMAIN q
      BY <1>1, <2>1
    <3> QED
      BY <1>1, <3>1 DEF Holds, Once
  <2>2. ASSUME NEW i \in DOMAIN q, q[i] = h, h # Head(q) PROVE Holds(t, h)
    BY <1>1, <1>2, <2>2 DEF Holds
  <2> QED
    BY <2>1, <2>2 DEF Holds
<1>4. Once(t)
  <2> SUFFICES ASSUME NEW i \in DOMAIN t, NEW j \in DOMAIN t, t[i] = t[j] PROVE i = j
    BY DEF Once
  <2>1. i + 1 = j + 1
    BY <1>1 DEF Once
  <2> QED
    BY <1>1, <2>1
<1>5. ASSUME NEW g \in S, NEW h \in S, Precedes(q, g, h) PROVE Precedes(t, g, h)
  <2> SUFFICES ASSUME NEW i \in DOMAIN t, NEW j \in DOMAIN t, t[i] = g, t[j] = h PROVE i < j
    BY DEF Precedes
  <2>1. i + 1 < j + 1
    BY <1>1, <1>5 DEF Precedes
  <2> QED
    BY <1>1, <2>1
<1>6. ASSUME NEW g \in S, Precedes(q, g, Head(q)) PROVE ~Holds(q, g)
  <2> SUFFICES ASSUME NEW i \in DOMAIN q, q[i] = g PROVE FALSE
    BY DEF Holds
  <2>1. i < 1
    BY <1>1, <1>6 DEF Precedes
  <2> QED
    BY <1>1, <2>1
<1>7. Holds(q, Head(q))
  BY <1>1 DEF Holds
<1> QED
  BY <1>1, <1>3, <1>4, <1>5, <1>6, <1>7

\* The steps of the loop: the oldest handle is taken, or none is, and others are added.
LEMMA Taken == ASSUME NEW q \in Seq(Handle), q # <<>>, Once(q)
               PROVE  Becomes(q, Tail(q), {Head(q)}, {})
BY Popped, Absent DEF Becomes

LEMMA Kept == ASSUME NEW q \in Seq(Handle), Once(q)
              PROVE  Becomes(q, q, {}, {})
BY Absent DEF Becomes

LEMMA Added == ASSUME NEW q, NEW r, NEW gone, NEW added, Becomes(q, r, gone, added),
                      NEW s \in Seq(Handle), Once(s), NEW new,
                      \A h \in Handle : Holds(s, h) <=> h \in new,
                      \A h \in Handle : h \in new => ~Holds(r, h)
               PROVE  Becomes(q, r \o s, gone, added \cup new)
<1>1. r \in Seq(Handle) /\ Once(r)
  BY DEF Becomes
<1>2. \A h \in Handle : ~(Holds(r, h) /\ Holds(s, h))
  OBVIOUS
<1> DEFINE t == r \o s
<1>3. /\ t \in Seq(Handle)
      /\ Once(t)
      /\ \A h \in Handle : Holds(t, h) <=> Holds(r, h) \/ Holds(s, h)
      /\ \A g, h \in Handle : Precedes(r, g, h) /\ ~Holds(s, g) => Precedes(t, g, h)
      /\ \A g, h \in Handle : ~Holds(s, g) /\ Holds(s, h) => Precedes(t, g, h)
  BY <1>1, <1>2, Joined
<1>4. \A g, h \in Handle : ~Holds(t, g) \/ ~Holds(t, h) => Precedes(t, g, h)
  BY Absent
<1> HIDE DEF t
<1>5. Becomes(q, t, gone, added \cup new)
  BY <1>3, <1>4 DEF Becomes
<1> QED
  BY <1>5 DEF t

\* one handle, or none
LEMMA Single == ASSUME NEW e \in Handle
                PROVE  /\ <<e>> \in Seq(Handle) /\ Once(<<e>>)
                       /\ \A h \in Handle : Holds(<<e>>, h) <=> h \in {e}
BY DEF Once, Holds

LEMMA Appended == ASSUME NEW q, NEW r, NEW gone, NEW added, Becomes(q, r, gone, added),
                         NEW e \in Handle, ~Holds(r, e)
                  PROVE  Becomes(q, r \o <<e>>, gone, added \cup {e})
<1> DEFINE s == <<e>>
<1>1. s \in Seq(Handle) /\ Once(s) /\ \A h \in Handle : Holds(s, h) <=> h \in {e}
  BY Single
<1> HIDE DEF s
<1>2. Becomes(q, r \o s, gone, added \cup {e})
  BY <1>1, Added
<1> QED
  BY <1>2 DEF s

LEMMA Optional == ASSUME NEW q, NEW r, NEW gone, NEW added, Becomes(q, r, gone, added),
                         NEW e \in Handle, ~Holds(r, e), NEW cond
                  PROVE  Becomes(q, r \o (IF cond THEN <<e>> ELSE <<>>), gone,
                                 added \cup (IF cond THEN {e} ELSE {}))
<1>1. CASE cond
  BY <1>1, Appended
<1>2. CASE ~cond
  <2>1. r \o <<>> = r
    BY DEF Becomes
  <2>2. added \cup {} = added
    OBVIOUS
  <2> QED
    BY <1>2, <2>1, <2>2
<1> QED
  BY <1>1, <1>2

\* The handle that runs: nothing is queued before it.
Oldest(h) == /\ Holds(ready, h)
             /\ \A d \in Call :
                   /\ Precedes(ready, <<"create", d>>, h) => ~Holds(ready, <<"create", d>>)
                   /\ Precedes(ready, <<"step", d>>, h) => ~Holds(ready, <<"step", d>>)
                   /\ Precedes(ready, <<"cancel", d>>, h) => ~Holds(ready, <<"cancel", d>>)

LEMMA HandleKinds ==
    /\ \A d \in Call : /\ <<"create", d>> \in Handle /\ <<"step", d>> \in Handle
                       /\ <<"cancel", d>> \in Handle /\ <<"settle", d>> \in Handle
                       /\ <<"completed", d>> \in Handle /\ <<"gathered", d>> \in Handle
    /\ <<"create drain", NoCall>> \in Handle
    /\ <<"drain", NoCall>> \in Handle /\ <<"drained", NoCall>> \in Handle
BY DEF Handle

\* What runs was the oldest.
LEMMA First == ASSUME TypeOK, Handles, NEW what, NEW c, Runs(what, c)
               PROVE  /\ <<what, c>> \in Handle
                      /\ Oldest(<<what, c>>)
                      /\ Becomes(ready, Tail(ready), {<<what, c>>}, {})
                      /\ ready # <<>> /\ ready \in Seq(Handle)
<1>1. ready \in Seq(Handle) /\ Once(ready) /\ ready # <<>> /\ Head(ready) = <<what, c>>
  BY DEF TypeOK, Handles, Runs
<1>2. /\ <<what, c>> \in Handle /\ Holds(ready, <<what, c>>)
      /\ \A g \in Handle : Precedes(ready, g, <<what, c>>) => ~Holds(ready, g)
  BY <1>1, Popped
<1>3. Oldest(<<what, c>>)
  BY <1>2, HandleKinds DEF Oldest
<1> QED
  BY <1>1, <1>2, <1>3, Taken

\* What a step does to the queue, handle by handle.
CallHandles == {"create", "step", "cancel", "settle", "completed", "gathered"}
Behind(added, g, h) == (\/ g \notin added /\ (Precedes(ready, g, h) \/ h \in added)
                        \/ ~Holds(ready', g) \/ ~Holds(ready', h))
                           => Precedes(ready', g, h)
Moved(gone, added, h) == Holds(ready', h) <=> (Holds(ready, h) /\ h \notin gone) \/ h \in added
Effect(gone, added) ==
    /\ Once(ready')
    /\ \A d \in Call :
          /\ Moved(gone, added, <<"create", d>>)
          /\ Moved(gone, added, <<"step", d>>)
          /\ Moved(gone, added, <<"cancel", d>>)
          /\ Moved(gone, added, <<"settle", d>>)
          /\ Moved(gone, added, <<"completed", d>>)
          /\ Moved(gone, added, <<"gathered", d>>)
          /\ Behind(added, <<"create", d>>, <<"create drain", NoCall>>)
          /\ Behind(added, <<"step", d>>, <<"cancel", d>>)
          /\ Behind(added, <<"step", d>>, <<"drain", NoCall>>)
          /\ Behind(added, <<"cancel", d>>, <<"drain", NoCall>>)
    /\ Moved(gone, added, <<"create drain", NoCall>>)
    /\ Moved(gone, added, <<"drain", NoCall>>)
    /\ Moved(gone, added, <<"drained", NoCall>>)

\* a handle behind all the others, or behind all but the one that runs
LEMMA Pushed == ASSUME TypeOK, Handles, NEW e \in Handle, ~Holds(ready, e)
                PROVE  Becomes(ready, Append(ready, e), {}, {e})
<1>1. Becomes(ready, ready, {}, {}) /\ ready \in Seq(Handle)
  BY Kept DEF TypeOK, Handles
<1>2. Becomes(ready, ready \o <<e>>, {}, {} \cup {e})
  BY <1>1, Appended
<1>3. ready \o <<e>> = Append(ready, e) /\ {} \cup {e} = {e}
  BY <1>1
<1> QED
  BY <1>2, <1>3

LEMMA Replaced == ASSUME TypeOK, Handles, NEW what, NEW c, Runs(what, c),
                         NEW e \in Handle, ~Holds(ready, e)
                  PROVE  Becomes(ready, Append(Tail(ready), e), {<<what, c>>}, {e})
<1> DEFINE t == Tail(ready)
<1>1. Becomes(ready, t, {<<what, c>>}, {})
  BY First
<1>2. t \in Seq(Handle) /\ ~Holds(t, e)
  BY <1>1 DEF Becomes
<1> HIDE DEF t
<1>3. Becomes(ready, t \o <<e>>, {<<what, c>>}, {} \cup {e})
  BY <1>1, <1>2, Appended
<1>4. t \o <<e>> = Append(t, e) /\ {} \cup {e} = {e}
  BY <1>2
<1> QED
  BY <1>3, <1>4 DEF t

LEMMA Effects == ASSUME NEW gone, NEW added, Became(gone, added)
                 PROVE  ready' \in Seq(Handle) /\ Effect(gone, added)
<1>2. \A h \in Handle : Moved(gone, added, h)
  BY DEF Became, Becomes, Moved
<1>3. \A g, h \in Handle : Behind(added, g, h)
  BY DEF Became, Becomes, Behind
<1> QED
  BY HandleKinds, <1>2, <1>3 DEF Effect, Became, Becomes
-----------------------------------------------------------------------------
\* Each action keeps the invariant: first what it does to the queue, then each part.
USE BridgeAssumption DEF Queued, Draining, Moved, Behind, callVars, drainVars

LEMMA SubmitStep == ASSUME LoopInv, NEW c \in Call, Submit(c) PROVE LoopInv'
<1>1. Became({}, {<<"create", c>>})
  BY Kept, Pushed, Replaced, First, HandleKinds
  DEF Became, LoopInv, TypeOK, Handles, Turns, Drains, Submit
<1>2. ready' \in Seq(Handle) /\ Effect({}, {<<"create", c>>})
  BY <1>1, Effects
<1>3. TypeOK' /\ IsFiniteSet(tasks)'
  BY <1>2 DEF LoopInv, TypeOK, Submit
<1>4. Handles'
  BY <1>2 DEF LoopInv, TypeOK, Handles, Unregistered, Registered, Oldest, Submit, Effect
<1>5. Registered'
  BY <1>2 DEF LoopInv, TypeOK, Registered, Handles, Oldest, Submit, Effect
<1>6. Turns'
  BY <1>2 DEF LoopInv, Turns, Drains, Oldest, Submit, Effect
<1>7. InTurn'
  BY <1>2 DEF LoopInv, TypeOK, InTurn, Handles, Drains, Unregistered, Turns, Registered, Oldest,
              Submit, Effect
<1>8. Ended'
  BY <1>2 DEF LoopInv, TypeOK, Ended, Pending, Turns, Drains, Handles, Oldest, Submit, Effect
<1>9. Cancelling'
  BY <1>2 DEF LoopInv, TypeOK, Cancelling, CancelledOnce, Ended, Pending, Handles, Registered,
              InTurn, Oldest, Submit, Effect
<1> QED
  BY <1>3, <1>4, <1>5, <1>6, <1>7, <1>8, <1>9 DEF LoopInv

LEMMA CancelFutureStep == ASSUME LoopInv, NEW c \in Call, CancelFuture(c) PROVE LoopInv'
<1>1. Became({}, IF task[c] = "submitted" THEN {} ELSE {<<"cancel", c>>})
  BY Kept, Pushed, Replaced, First, HandleKinds
  DEF Became, LoopInv, TypeOK, Handles, Turns, Drains, CancelFuture
<1>2. ready' \in Seq(Handle) /\ Effect({}, IF task[c] = "submitted" THEN {} ELSE {<<"cancel", c>>})
  BY <1>1, Effects
<1>3. TypeOK' /\ IsFiniteSet(tasks)'
  BY <1>2 DEF LoopInv, TypeOK, CancelFuture
<1>4. Handles'
  BY <1>2 DEF LoopInv, TypeOK, Handles, Unregistered, Registered, Oldest, CancelFuture, Effect
<1>5. Registered'
  BY <1>2 DEF LoopInv, TypeOK, Registered, Handles, Oldest, CancelFuture, Effect
<1>6. Turns'
  BY <1>2 DEF LoopInv, Turns, Drains, Oldest, CancelFuture, Effect
<1>7. InTurn'
  BY <1>2 DEF LoopInv, TypeOK, InTurn, Handles, Drains, Unregistered, Turns, Registered, Oldest,
              CancelFuture, Effect
<1>8. Ended'
  BY <1>2 DEF LoopInv, TypeOK, Ended, Pending, Turns, Drains, Handles, Oldest, CancelFuture, Effect
<1>0. cancels[c] = 0 \/ task[c] = "done"
  <2>1. ~(cancels[c] > 0 /\ Pending(c)) /\ cancels[c] \in Nat
    BY DEF LoopInv, TypeOK, Cancelling, CancelFuture
  <2>2. Pending(c) \/ task[c] = "done"
    BY DEF LoopInv, Registered, Pending, CancelFuture
  <2> QED
    BY <2>1, <2>2
<1>9. Cancelling'
  BY <1>0, <1>2 DEF LoopInv, TypeOK, Cancelling, CancelledOnce, Ended, Pending, Handles,
                    Registered, InTurn, Oldest, CancelFuture, Effect
<1> QED
  BY <1>3, <1>4, <1>5, <1>6, <1>7, <1>8, <1>9 DEF LoopInv

LEMMA CloseAttemptStep == ASSUME LoopInv, CloseAttempt PROVE LoopInv'
<1>1. Became({}, {<<"create drain", NoCall>>})
  BY Kept, Pushed, Replaced, First, HandleKinds
  DEF Became, LoopInv, TypeOK, Handles, Turns, Drains, CloseAttempt
<1>2. ready' \in Seq(Handle) /\ Effect({}, {<<"create drain", NoCall>>})
  BY <1>1, Effects
<1>3. TypeOK' /\ IsFiniteSet(tasks)'
  BY <1>2 DEF LoopInv, TypeOK, CloseAttempt
<1>4. Handles'
  BY <1>2 DEF LoopInv, TypeOK, Handles, Unregistered, Registered, Oldest, CloseAttempt, Effect
<1>5. Registered'
  BY <1>2 DEF LoopInv, TypeOK, Registered, Handles, Oldest, CloseAttempt, Effect
<1>6. Turns'
  BY <1>2 DEF LoopInv, Turns, Drains, Oldest, CloseAttempt, Effect
<1>7. InTurn'
  BY <1>2 DEF LoopInv, TypeOK, InTurn, Handles, Drains, Unregistered, Turns, Registered, Oldest,
              CloseAttempt, Effect
<1>8. Ended'
  BY <1>2 DEF LoopInv, TypeOK, Ended, Pending, Turns, Drains, Handles, Oldest, CloseAttempt, Effect
<1>9. Cancelling'
  BY <1>2 DEF LoopInv, TypeOK, Cancelling, CancelledOnce, Ended, Pending, Handles, Registered,
              InTurn, Oldest, CloseAttempt, Effect
<1> QED
  BY <1>3, <1>4, <1>5, <1>6, <1>7, <1>8, <1>9 DEF LoopInv

LEMMA RestartStep == ASSUME LoopInv, Restart PROVE LoopInv'
<1>1. Became({}, {})
  BY Kept, Pushed, Replaced, First, HandleKinds
  DEF Became, LoopInv, TypeOK, Handles, Turns, Drains, Restart
<1>2. ready' \in Seq(Handle) /\ Effect({}, {})
  BY <1>1, Effects
<1>3. TypeOK' /\ IsFiniteSet(tasks)'
  BY DEF LoopInv, TypeOK, Restart
<1>4. Handles'
  BY <1>2 DEF LoopInv, TypeOK, Handles, Unregistered, Registered, Oldest, Restart, Effect
<1>5. Registered'
  BY <1>2 DEF LoopInv, TypeOK, Registered, Handles, Oldest, Restart, Effect
<1>6. Turns'
  BY <1>2 DEF LoopInv, Turns, Drains, Oldest, Restart, Effect
<1>7. InTurn'
  BY <1>2 DEF LoopInv, TypeOK, InTurn, Handles, Drains, Unregistered, Turns, Registered, Oldest,
              Restart, Effect
<1>8. Ended'
  BY <1>2 DEF LoopInv, TypeOK, Ended, Pending, Turns, Drains, Handles, Oldest, Restart, Effect
<1>9. Cancelling'
  BY <1>2 DEF LoopInv, TypeOK, Cancelling, CancelledOnce, Ended, Pending, Handles, Registered,
              InTurn, Oldest, Restart, Effect
<1> QED
  BY <1>3, <1>4, <1>5, <1>6, <1>7, <1>8, <1>9 DEF LoopInv

LEMMA WakeStep == ASSUME LoopInv, NEW c \in Call, Wake(c) PROVE LoopInv'
<1>1. Became({}, {<<"step", c>>})
  BY Kept, Pushed, Replaced, First, HandleKinds
  DEF Became, LoopInv, TypeOK, Handles, Turns, Drains, Wake
<1>2. ready' \in Seq(Handle) /\ Effect({}, {<<"step", c>>})
  BY <1>1, Effects
<1>3. TypeOK' /\ IsFiniteSet(tasks)'
  BY <1>2 DEF LoopInv, TypeOK, Wake
<1>4. Handles'
  BY <1>2 DEF LoopInv, TypeOK, Handles, Unregistered, Registered, Oldest, Wake, Effect
<1>5. Registered'
  BY <1>2 DEF LoopInv, TypeOK, Registered, Handles, Oldest, Wake, Effect
<1>6. Turns'
  BY <1>2 DEF LoopInv, Turns, Drains, Oldest, Wake, Effect
<1>7. InTurn'
  BY <1>2 DEF LoopInv, TypeOK, InTurn, Handles, Drains, Unregistered, Turns, Registered, Oldest,
              Wake, Effect
<1>8. Ended'
  BY <1>2 DEF LoopInv, TypeOK, Ended, Pending, Turns, Drains, Handles, Oldest, Wake, Effect
<1>9. Cancelling'
  BY <1>2 DEF LoopInv, TypeOK, Cancelling, CancelledOnce, Ended, Pending, Handles, Registered,
              InTurn, Oldest, Wake, Effect
<1> QED
  BY <1>3, <1>4, <1>5, <1>6, <1>7, <1>8, <1>9 DEF LoopInv

LEMMA SettleStep == ASSUME LoopInv, NEW c \in Call, Settle(c) PROVE LoopInv'
<1>1. Became({<<"settle", c>>}, {})
  BY Kept, Pushed, Replaced, First, HandleKinds
  DEF Became, LoopInv, TypeOK, Handles, Turns, Drains, Settle
<1>2. ready' \in Seq(Handle) /\ Effect({<<"settle", c>>}, {}) /\ Oldest(<<"settle", c>>)
  BY <1>1, Effects, First DEF LoopInv, Settle
<1>3. TypeOK' /\ IsFiniteSet(tasks)'
  BY <1>2 DEF LoopInv, TypeOK, Settle
<1>4. Handles'
  BY <1>2 DEF LoopInv, TypeOK, Handles, Unregistered, Registered, Oldest, Settle, Effect
<1>5. Registered'
  BY <1>2 DEF LoopInv, TypeOK, Registered, Handles, Oldest, Settle, Effect
<1>6. Turns'
  BY <1>2 DEF LoopInv, Turns, Drains, Oldest, Settle, Effect
<1>7. InTurn'
  BY <1>2 DEF LoopInv, TypeOK, InTurn, Handles, Drains, Unregistered, Turns, Registered, Oldest,
              Settle, Effect
<1>8. Ended'
  BY <1>2 DEF LoopInv, TypeOK, Ended, Pending, Turns, Drains, Handles, Oldest, Settle, Effect
<1>9. Cancelling'
  BY <1>2 DEF LoopInv, TypeOK, Cancelling, CancelledOnce, Ended, Pending, Handles, Registered,
              InTurn, Oldest, Settle, Effect
<1> QED
  BY <1>3, <1>4, <1>5, <1>6, <1>7, <1>8, <1>9 DEF LoopInv

LEMMA CompletedStep == ASSUME LoopInv, NEW c \in Call, Completed(c) PROVE LoopInv'
<1>1. Became({<<"completed", c>>}, {})
  BY Kept, Pushed, Replaced, First, HandleKinds
  DEF Became, LoopInv, TypeOK, Handles, Turns, Drains, Completed
<1>2. ready' \in Seq(Handle) /\ Effect({<<"completed", c>>}, {}) /\ Oldest(<<"completed", c>>)
  BY <1>1, Effects, First DEF LoopInv, Completed
<1>3. TypeOK' /\ IsFiniteSet(tasks)'
  BY <1>2, FS_Subset DEF LoopInv, TypeOK, Completed
<1>4. Handles'
  BY <1>2, FS_Subset DEF LoopInv, TypeOK, Handles, Unregistered, Registered, Oldest, Completed,
                         Effect
<1>5. Registered'
  BY <1>2, FS_Subset DEF LoopInv, TypeOK, Registered, Handles, Oldest, Completed, Effect
<1>6. Turns'
  BY <1>2, FS_Subset DEF LoopInv, Turns, Drains, Oldest, Completed, Effect
<1>7. InTurn'
  BY <1>2, FS_Subset DEF LoopInv, TypeOK, InTurn, Handles, Drains, Unregistered, Turns, Registered,
                         Oldest, Completed, Effect
<1>8. Ended'
  BY <1>2, FS_Subset DEF LoopInv, TypeOK, Ended, Pending, Turns, Drains, Handles, Oldest,
                         Completed, Effect
<1>9. Cancelling'
  BY <1>2, FS_Subset DEF LoopInv, TypeOK, Cancelling, CancelledOnce, Ended, Pending, Handles,
                         Registered, InTurn, Oldest, Completed, Effect
<1> QED
  BY <1>3, <1>4, <1>5, <1>6, <1>7, <1>8, <1>9 DEF LoopInv

LEMMA CreateDrainStep == ASSUME LoopInv, CreateDrain PROVE LoopInv'
<1>1. Became({<<"create drain", NoCall>>}, {<<"drain", NoCall>>})
  <2>1. /\ TypeOK /\ Handles /\ Runs("create drain", NoCall)
        /\ ~Holds(ready, <<"drain", NoCall>>) /\ <<"drain", NoCall>> \in Handle
    BY First, HandleKinds DEF LoopInv, CreateDrain, Oldest, Turns, Drains
  <2> QED
    BY <2>1, Replaced DEF Became, CreateDrain
<1>2. /\ ready' \in Seq(Handle) /\ Oldest(<<"create drain", NoCall>>)
      /\ Effect({<<"create drain", NoCall>>}, {<<"drain", NoCall>>})
  BY <1>1, Effects, First DEF LoopInv, CreateDrain
<1>3. TypeOK' /\ IsFiniteSet(tasks)'
  BY <1>2 DEF LoopInv, TypeOK, CreateDrain
<1>4. Handles'
  BY <1>2 DEF LoopInv, TypeOK, Handles, Unregistered, Registered, Oldest, CreateDrain, Effect
<1>5. Registered'
  BY <1>2 DEF LoopInv, TypeOK, Registered, Handles, Oldest, CreateDrain, Effect
<1>6. Turns'
  BY <1>2 DEF LoopInv, Turns, Drains, Oldest, CreateDrain, Effect
<1>7. InTurn'
  BY <1>2 DEF LoopInv, TypeOK, InTurn, Handles, Drains, Unregistered, Turns, Registered, Oldest,
              CreateDrain, Effect
<1>8. Ended'
  BY <1>2 DEF LoopInv, TypeOK, Ended, Pending, Turns, Drains, Handles, Oldest, CreateDrain, Effect
<1>9. Cancelling'
  BY <1>2 DEF LoopInv, TypeOK, Cancelling, CancelledOnce, Ended, Pending, Handles, Registered,
              InTurn, Oldest, CreateDrain, Effect
<1> QED
  BY <1>3, <1>4, <1>5, <1>6, <1>7, <1>8, <1>9 DEF LoopInv

LEMMA DrainedStep == ASSUME LoopInv, Drained PROVE LoopInv'
<1>1. Became({<<"drained", NoCall>>}, {})
  BY Kept, Pushed, Replaced, First, HandleKinds
  DEF Became, LoopInv, TypeOK, Handles, Turns, Drains, Drained
<1>2. ready' \in Seq(Handle) /\ Effect({<<"drained", NoCall>>}, {}) /\ Oldest(<<"drained", NoCall>>)
  BY <1>1, Effects, First DEF LoopInv, Drained
<1>3. TypeOK' /\ IsFiniteSet(tasks)'
  BY <1>2 DEF LoopInv, TypeOK, Drained
<1>4. Handles'
  BY <1>2 DEF LoopInv, TypeOK, Handles, Unregistered, Registered, Oldest, Drained, Effect
<1>5. Registered'
  BY <1>2 DEF LoopInv, TypeOK, Registered, Handles, Oldest, Drained, Effect
<1>6. Turns'
  BY <1>2 DEF LoopInv, Turns, Drains, Oldest, Runs, Drained, Effect
<1>7. InTurn'
  BY <1>2 DEF LoopInv, TypeOK, InTurn, Handles, Drains, Unregistered, Turns, Registered, Oldest,
              Drained, Effect
<1>8. Ended'
  BY <1>2 DEF LoopInv, TypeOK, Ended, Pending, Turns, Drains, Handles, Oldest, Drained, Effect
<1>9. Cancelling'
  BY <1>2 DEF LoopInv, TypeOK, Cancelling, CancelledOnce, Ended, Pending, Handles, Registered,
              InTurn, Oldest, Drained, Effect
<1> QED
  BY <1>3, <1>4, <1>5, <1>6, <1>7, <1>8, <1>9 DEF LoopInv

LEMMA CreateStep == ASSUME LoopInv, NEW c \in Call, Create(c) PROVE LoopInv'
<1> DEFINE cancel == IF future[c] = "cancelled" THEN {<<"cancel", c>>} ELSE {}
           first == Tail(ready) \o <<<<"step", c>>>>
           rest == IF future[c] = "cancelled" THEN <<<<"cancel", c>>>> ELSE <<>>
<1>1. /\ Became({<<"create", c>>}, {<<"step", c>>} \cup cancel)
      /\ Precedes(ready', <<"step", c>>, <<"cancel", c>>)
  <2>1. /\ <<"step", c>> \in Handle /\ ~Holds(ready, <<"step", c>>)
        /\ <<"cancel", c>> \in Handle /\ ~Holds(ready, <<"cancel", c>>)
        /\ Runs("create", c) /\ TypeOK /\ Handles
    BY HandleKinds, First DEF LoopInv, Handles, Create, Oldest
  <2>2. Becomes(ready, Tail(ready), {<<"create", c>>}, {})
    BY <2>1, First
  <2>3. Becomes(ready, first, {<<"create", c>>}, {} \cup {<<"step", c>>})
    <3>1. ~Holds(Tail(ready), <<"step", c>>)
      BY <2>1, <2>2 DEF Becomes
    <3> QED
      BY <2>1, <2>2, <3>1, Appended
  <2> HIDE DEF first
  <2>4. ~Holds(first, <<"cancel", c>>) /\ Becomes(first, first, {}, {})
    BY <2>1, <2>3 DEF Becomes
  <2>5. /\ Becomes(ready, first \o rest, {<<"create", c>>}, ({} \cup {<<"step", c>>}) \cup cancel)
        /\ Becomes(first, first \o rest, {}, {} \cup cancel)
    BY <2>1, <2>3, <2>4, Optional
  <2>6. ready' = first \o rest
    BY DEF Create, first
  <2> HIDE DEF rest
  <2>7. Precedes(ready', <<"step", c>>, <<"cancel", c>>)
    BY <2>1, <2>5, <2>6 DEF Becomes
  <2>8. ({} \cup {<<"step", c>>}) \cup cancel = {<<"step", c>>} \cup cancel
    OBVIOUS
  <2> HIDE DEF cancel
  <2> QED
    BY <2>5, <2>6, <2>7 DEF Became
<1>2. /\ ready' \in Seq(Handle) /\ Effect({<<"create", c>>}, {<<"step", c>>} \cup cancel)
      /\ Precedes(ready', <<"step", c>>, <<"cancel", c>>) /\ Oldest(<<"create", c>>)
  BY <1>1, Effects, First DEF LoopInv, Create
<1>3. TypeOK' /\ IsFiniteSet(tasks)'
  BY <1>2 DEF LoopInv, TypeOK, Create
<1>4. Handles'
  BY <1>2 DEF LoopInv, TypeOK, Handles, Unregistered, Registered, Oldest, Create, Effect
<1>5. Registered'
  BY <1>2 DEF LoopInv, TypeOK, Registered, Handles, Oldest, Create, Effect
<1>6. Turns'
  BY <1>2 DEF LoopInv, Turns, Drains, Oldest, Create, Effect
<1>7. InTurn'
  BY <1>2 DEF LoopInv, TypeOK, InTurn, Handles, Drains, Unregistered, Turns, Registered, Oldest,
              Create, Effect
<1>8. Ended'
  BY <1>2 DEF LoopInv, TypeOK, Ended, Pending, Turns, Drains, Handles, Oldest, Create, Effect
<1>0. cancels[c] = 0
  <2>1. task[c] = "submitted"
    BY <1>2 DEF LoopInv, Handles, Oldest
  <2>2. ~(cancels[c] > 0) /\ cancels[c] \in Nat
    BY <2>1 DEF LoopInv, TypeOK, Registered, Cancelling, CancelledOnce
  <2> QED
    BY <2>2
<1>9. Cancelling'
  BY <1>0, <1>2 DEF LoopInv, TypeOK, Cancelling, CancelledOnce, Ended, Pending, Handles,
                    Registered, InTurn, Oldest, Create, Effect
<1> QED
  BY <1>3, <1>4, <1>5, <1>6, <1>7, <1>8, <1>9 DEF LoopInv

LEMMA GatheredStep == ASSUME LoopInv, NEW c \in Call, Gathered(c) PROVE LoopInv'
<1> DEFINE drain == IF gathering = {c} THEN {<<"drain", NoCall>>} ELSE {}
<1>1. Became({<<"gathered", c>>}, drain)
  <2>1. /\ TypeOK /\ Handles /\ Runs("gathered", c) /\ c \in gathering
        /\ ~Holds(ready, <<"drain", NoCall>>) /\ <<"drain", NoCall>> \in Handle
    BY First, HandleKinds DEF LoopInv, Gathered, Oldest, Turns, Drains, Handles
  <2>2. Becomes(ready, Tail(ready), {<<"gathered", c>>}, {})
    BY <2>1, First
  <2>3. Becomes(ready, Tail(ready) \o (IF gathering = {c} THEN <<<<"drain", NoCall>>>> ELSE <<>>),
                {<<"gathered", c>>}, {} \cup drain)
    <3>1. ~Holds(Tail(ready), <<"drain", NoCall>>)
      BY <2>1, <2>2 DEF Becomes
    <3> QED
      BY <2>1, <2>2, <3>1, Optional
  <2>4. {} \cup drain = drain
    OBVIOUS
  <2> QED
    BY <2>3 DEF Became, Gathered
<1>2. /\ ready' \in Seq(Handle) /\ Effect({<<"gathered", c>>}, drain)
      /\ Oldest(<<"gathered", c>>)
  BY <1>1, Effects, First DEF LoopInv, Gathered
<1>3. TypeOK' /\ IsFiniteSet(tasks)'
  BY <1>2 DEF LoopInv, TypeOK, Gathered
<1>4. Handles'
  BY <1>2 DEF LoopInv, TypeOK, Handles, Unregistered, Registered, Oldest, Gathered, Effect
<1>5. Registered'
  BY <1>2 DEF LoopInv, TypeOK, Registered, Handles, Oldest, Gathered, Effect
<1>6. Turns'
  BY <1>2 DEF LoopInv, Turns, Drains, Oldest, Gathered, Effect
<1>7. InTurn'
  BY <1>2 DEF LoopInv, TypeOK, InTurn, Handles, Drains, Unregistered, Turns, Registered, Oldest,
              Gathered, Effect
<1>8. Ended'
  BY <1>2 DEF LoopInv, TypeOK, Ended, Pending, Turns, Drains, Handles, Oldest, Gathered, Effect
<1>9. Cancelling'
  BY <1>2 DEF LoopInv, TypeOK, Cancelling, CancelledOnce, Ended, Pending, Handles, Registered,
              InTurn, Oldest, Gathered, Effect
<1> QED
  BY <1>3, <1>4, <1>5, <1>6, <1>7, <1>8, <1>9 DEF LoopInv

\* The steps of the tasks that a cancellation finds waiting.
LEMMA Walked == ASSUME NEW W \in SUBSET Call, IsFiniteSet(W), NEW order \in SetToSeqs(W)
                PROVE  /\ Steps(order) \in Seq(Handle)
                       /\ Once(Steps(order))
                       /\ \A h \in Handle : Holds(Steps(order), h)
                                               <=> h \in {<<"step", d>> : d \in W}
<1> DEFINE n == Cardinality(W)
<1>1. n \in Nat /\ IsFiniteSet(1..n) /\ Cardinality(1..n) = n
  BY FS_CardinalityType, FS_Interval
<1>2. order \in [1..n -> W] /\ \A i, j \in 1..n : i # j => order[i] # order[j]
  BY DEF SetToSeqs
<1>3. order \in Injection(1..n, W)
  BY <1>2 DEF Injection, IsInjective
<1>4. order \in Surjection(1..n, W)
  BY <1>1, <1>3, FS_Injection
<1>5. \A d \in W : \E i \in 1..n : order[i] = d
  BY <1>4 DEF Surjection
<1> DEFINE s == Steps(order)
<1>6. DOMAIN s = 1..n /\ \A i \in 1..n : s[i] = <<"step", order[i]>>
  BY <1>2 DEF Steps
<1>7. s = [i \in 1..n |-> <<"step", order[i]>>]
  BY <1>2 DEF Steps
<1>8. \A i \in 1..n : <<"step", order[i]>> \in Handle
  BY <1>2, HandleKinds
<1>9. s \in Seq(Handle)
  BY <1>1, <1>7, <1>8
<1>10. Once(s)
  BY <1>2, <1>6 DEF Once
<1>11. \A h \in Handle : Holds(s, h) <=> h \in {<<"step", d>> : d \in W}
  <2> TAKE h \in Handle
  <2>1. ASSUME NEW i \in 1..n, s[i] = h PROVE h \in {<<"step", d>> : d \in W}
    BY <1>2, <1>6, <2>1
  <2>2. ASSUME NEW d \in W, h = <<"step", d>> PROVE \E i \in 1..n : s[i] = h
    BY <1>5, <1>6, <2>2
  <2> QED
    BY <1>6, <2>1, <2>2 DEF Holds
<1> QED
  BY <1>9, <1>10, <1>11

LEMMA Walkable == ASSUME NEW W, IsFiniteSet(W) PROVE SetToSeq(W) \in SetToSeqs(W)
<1> DEFINE n == Cardinality(W)
<1>1. PICK f \in [1..n -> W] : IsInjective(f)
  BY FS_CardinalityType DEF ExistsBijection, Bijection, Injection
<1>2. SetToSeq(W) \in [1..n -> W] /\ IsInjective(SetToSeq(W))
  BY <1>1 DEF SetToSeq
<1> QED
  BY <1>2 DEF SetToSeqs, IsInjective

LEMMA CancelStep == ASSUME LoopInv, NEW c \in Call, Cancel(c) PROVE LoopInv'
<1> DEFINE W == Waiting({c})
           steps == {<<"step", d>> : d \in W}
<1>1. Became({<<"cancel", c>>}, steps)
  <2>1. /\ TypeOK /\ Handles /\ Runs("cancel", c)
        /\ W \in SUBSET Call /\ IsFiniteSet(W)
        /\ \A d \in W : task[d] = "waiting" /\ ~Holds(ready, <<"step", d>>)
    BY FS_Singleton, FS_Subset DEF LoopInv, Cancel, Waiting, Handles
  <2>2. Becomes(ready, Tail(ready), {<<"cancel", c>>}, {})
    BY <2>1, First
  <2> DEFINE s == Steps(SetToSeq(W))
  <2>3. s \in Seq(Handle) /\ Once(s) /\ \A h \in Handle : Holds(s, h) <=> h \in steps
    BY <2>1, Walked, Walkable
  <2>4. \A h \in Handle : h \in steps => ~Holds(Tail(ready), h)
    BY <2>1, <2>2 DEF Becomes
  <2>5. ready' = Tail(ready) \o s
    BY DEF Cancel
  <2> HIDE DEF s, steps
  <2>6. Becomes(ready, Tail(ready) \o s, {<<"cancel", c>>}, {} \cup steps)
    BY <2>2, <2>3, <2>4, Added
  <2>7. {} \cup steps = steps
    OBVIOUS
  <2> QED
    BY <2>5, <2>6 DEF Became
<1>2. /\ ready' \in Seq(Handle) /\ Effect({<<"cancel", c>>}, steps)
      /\ Oldest(<<"cancel", c>>)
  BY <1>1, Effects, First DEF LoopInv, Cancel
<1>a. /\ ready' \in Seq(Handle) /\ Effect({<<"cancel", c>>}, steps)
      /\ \A d \in Call : <<"step", d>> \in steps <=> d = c /\ task[c] = "waiting"
      /\ \A d : /\ <<"create", d>> \notin steps /\ <<"cancel", d>> \notin steps
               /\ <<"settle", d>> \notin steps /\ <<"completed", d>> \notin steps
               /\ <<"gathered", d>> \notin steps /\ <<"create drain", d>> \notin steps
               /\ <<"drain", d>> \notin steps /\ <<"drained", d>> \notin steps
      /\ Oldest(<<"cancel", c>>)
  BY <1>2 DEF Waiting
<1>b. /\ cancels' = [d \in Call |-> IF d = c /\ Pending(c) THEN cancels[d] + 1 ELSE cancels[d]]
      /\ thrown' \in [Call -> BOOLEAN]
      /\ task' = [d \in Call |-> IF d = c /\ task[c] = "waiting" THEN "ready" ELSE task[d]]
      /\ UNCHANGED <<cleaning, future, drainVars, worker, attempt>>
  BY DEF Cancel, CancelTasks, Waiting
<1> HIDE DEF steps, W
<1>3. TypeOK' /\ IsFiniteSet(tasks)'
  <2>1. /\ cancels' \in [Call -> Nat]
        /\ task' \in [Call -> {"new", "submitted", "ready", "waiting", "done"}]
    BY <1>b DEF LoopInv, TypeOK
  <2> QED
    BY <1>a, <1>b, <2>1 DEF LoopInv, TypeOK
<1>4. Handles'
  BY <1>a, <1>b DEF LoopInv, TypeOK, Handles, Unregistered, Registered, Oldest, Effect
<1>5. Registered'
  BY <1>a, <1>b DEF LoopInv, TypeOK, Registered, Handles, Oldest, Effect
<1>6. Turns'
  BY <1>a, <1>b DEF LoopInv, Turns, Drains, Oldest, Effect
<1>7. InTurn'
  BY <1>a, <1>b DEF LoopInv, TypeOK, InTurn, Handles, Drains, Unregistered, Turns, Registered,
                    Oldest, Effect
<1>8. Ended'
  BY <1>a, <1>b DEF LoopInv, TypeOK, Ended, Pending, Turns, Drains, Handles, Oldest, Effect
<1>9. Cancelling'
  <2>1. /\ cancels[c] \in Nat /\ (cancels[c] = 0 \/ task[c] = "done")
        /\ c \notin tasks => task[c] # "ready" /\ task[c] # "waiting"
        /\ future[c] = "cancelled" /\ task[c] # "submitted"
    BY <1>a DEF LoopInv, TypeOK, Handles, Registered, Cancelling, InTurn, Unregistered, Oldest
  <2>2. /\ cancels'[c] <= 1 /\ (cancels'[c] > 0 => c \in tasks \/ task[c] = "done")
        /\ (task[c] = "done" => task'[c] = "done") /\ tasks' = tasks
        /\ \A d \in Call \ {c} : cancels'[d] = cancels[d]
    BY <1>b, <2>1 DEF LoopInv, TypeOK, Cancelling, CancelledOnce, Pending
  <2>3. CancelledOnce'
    <3> USE DEF CancelledOnce
    <3> TAKE d \in Call
    <3>1. CASE d = c
      BY <2>2, <3>1
    <3>2. CASE d # c
      BY <1>b, <3>2 DEF LoopInv, Cancelling
    <3> QED
      BY <3>1, <3>2
  <2> QED
    BY <1>a, <1>b, <2>1, <2>2, <2>3 DEF LoopInv, TypeOK, Cancelling, Pending, Handles, Once, Effect
<1> QED
  BY <1>3, <1>4, <1>5, <1>6, <1>7, <1>8, <1>9 DEF LoopInv

\* When drain() has its turn it knows every call whose task is still pending.
LEMMA AllKnown == ASSUME LoopInv, Runs("drain", NoCall)
                  PROVE  /\ worker = "closing" /\ gathering = {}
                         /\ Holds(ready, <<"drain", NoCall>>)
                         /\ ~Holds(ready, <<"drained", NoCall>>)
                         /\ ~Holds(ready, <<"create drain", NoCall>>)
                         /\ \A c \in Call : /\ task[c] # "submitted" /\ ~Unregistered(c)
                                            /\ ~Holds(ready, <<"cancel", c>>)
                                            /\ Pending(c) => c \in tasks
<1>1. TypeOK /\ Handles /\ Oldest(<<"drain", NoCall>>)
  BY First DEF LoopInv
<1>2. /\ worker = "closing" /\ gathering = {}
      /\ Holds(ready, <<"drain", NoCall>>)
      /\ ~Holds(ready, <<"drained", NoCall>>)
      /\ ~Holds(ready, <<"create drain", NoCall>>)
  BY <1>1 DEF LoopInv, Turns, Drains, Oldest
<1>3. ASSUME NEW c \in Call
      PROVE  task[c] # "submitted" /\ ~Unregistered(c) /\ ~Holds(ready, <<"cancel", c>>)
  BY <1>1, <1>2 DEF LoopInv, InTurn, Oldest, Handles
<1>4. ASSUME NEW c \in Call, Pending(c) PROVE c \in tasks
  BY <1>3, <1>4 DEF LoopInv, TypeOK, Registered, Pending, Unregistered
<1> QED
  BY <1>2, <1>3, <1>4

LEMMA DrainNobodyStep == ASSUME LoopInv, Drain, tasks = {} PROVE LoopInv'
<1>1. Became({<<"drain", NoCall>>}, {<<"drained", NoCall>>})
  <2>1. /\ TypeOK /\ Handles /\ Runs("drain", NoCall)
        /\ <<"drained", NoCall>> \in Handle /\ ~Holds(ready, <<"drained", NoCall>>)
        /\ ready' = Append(Tail(ready), <<"drained", NoCall>>)
    BY AllKnown, HandleKinds DEF LoopInv, Drain
  <2> QED
    BY <2>1, Replaced DEF Became
<1>2. /\ ready' \in Seq(Handle) /\ Effect({<<"drain", NoCall>>}, {<<"drained", NoCall>>})
      /\ \A c \in Call : ~Pending(c) /\ ~Holds(ready, <<"cancel", c>>)
      /\ worker = "closing" /\ gathering = {}
      /\ ~Holds(ready, <<"create drain", NoCall>>)
      /\ UNCHANGED <<callVars, drainVars, worker, attempt>>
  BY <1>1, Effects, AllKnown DEF LoopInv, Drain
<1>3. TypeOK' /\ IsFiniteSet(tasks)'
  BY <1>2 DEF LoopInv, TypeOK, Pending
<1>4. Handles'
  BY <1>2 DEF LoopInv, TypeOK, Handles, Unregistered, Registered, Oldest, Pending, Effect
<1>5. Registered'
  BY <1>2 DEF LoopInv, TypeOK, Registered, Handles, Oldest, Pending, Effect
<1>6. Turns'
  BY <1>2 DEF LoopInv, Turns, Drains, Oldest, Pending, Effect
<1>7. InTurn'
  BY <1>2 DEF LoopInv, TypeOK, InTurn, Handles, Drains, Unregistered, Turns, Registered, Oldest,
              Pending, Effect
<1>8. Ended'
  BY <1>2 DEF LoopInv, TypeOK, Ended, Pending, Turns, Drains, Handles, Oldest, Effect
<1>9. Cancelling'
  BY <1>2 DEF LoopInv, TypeOK, Cancelling, CancelledOnce, Ended, Pending, Handles, Registered,
              InTurn, Oldest, Effect
<1> QED
  BY <1>3, <1>4, <1>5, <1>6, <1>7, <1>8, <1>9 DEF LoopInv

LEMMA DrainTasksStep == ASSUME LoopInv, Drain, tasks # {} PROVE LoopInv'
<1> DEFINE W == Waiting(Uncancelled)
           steps == {<<"step", d>> : d \in W}
           drain == IF spinning' THEN {} ELSE {<<"drain", NoCall>>}
<1>1. /\ TypeOK /\ Handles /\ Runs("drain", NoCall)
      /\ CancelTasks(Uncancelled)
      /\ gathering' = {c \in tasks : Pending(c)} /\ spinning' = (gathering' = {})
      /\ UNCHANGED <<cleaning, future, tasks, worker, attempt>>
  BY DEF LoopInv, Drain
<1>2. /\ W \in SUBSET Call /\ W \subseteq tasks /\ IsFiniteSet(W)
      /\ \A d \in W : task[d] = "waiting" /\ ~Holds(ready, <<"step", d>>)
      /\ spinning' => W = {}
  <2>1. W \subseteq tasks /\ tasks \subseteq Call /\ IsFiniteSet(tasks)
    BY DEF LoopInv, TypeOK, Waiting, Uncancelled
  <2>2. \A d \in W : task[d] = "waiting" /\ ~Holds(ready, <<"step", d>>)
    BY <2>1 DEF LoopInv, Handles, Waiting
  <2>3. spinning' => W = {}
    BY <1>1, <2>1, <2>2 DEF Pending
  <2> QED
    BY <2>1, <2>2, <2>3, FS_Subset
<1>3. Became(drain, steps)
  <2>1. PICK order \in SetToSeqs(W) :
            ready' = (IF spinning' THEN ready ELSE Tail(ready)) \o Steps(order)
    BY DEF Drain
  <2> DEFINE s == Steps(order)
             t == IF spinning' THEN ready ELSE Tail(ready)
  <2>2. s \in Seq(Handle) /\ Once(s) /\ \A h \in Handle : Holds(s, h) <=> h \in steps
    BY <1>2, Walked
  <2>3. Becomes(ready, t, drain, {})
    <3>1. Becomes(ready, ready, {}, {}) /\ Becomes(ready, Tail(ready), {<<"drain", NoCall>>}, {})
      BY <1>1, First, Kept DEF Handles
    <3> QED
      BY <3>1
  <2>4. \A h \in Handle : h \in steps => ~Holds(t, h)
    BY <1>2, <2>3 DEF Becomes
  <2>5. ready' = t \o s
    BY <2>1
  <2> HIDE DEF s, steps, t, drain
  <2>6. Becomes(ready, t \o s, drain, {} \cup steps)
    BY <2>2, <2>3, <2>4, Added
  <2>7. {} \cup steps = steps
    OBVIOUS
  <2> QED
    BY <2>5, <2>6 DEF Became
<1>4. /\ ready' \in Seq(Handle) /\ Effect(drain, steps)
      /\ \A d \in Call : <<"step", d>> \in steps <=> d \in W
      /\ \A d : /\ <<"create", d>> \notin steps /\ <<"cancel", d>> \notin steps
                /\ <<"settle", d>> \notin steps /\ <<"completed", d>> \notin steps
                /\ <<"gathered", d>> \notin steps /\ <<"create drain", d>> \notin steps
                /\ <<"drain", d>> \notin steps /\ <<"drained", d>> \notin steps
      /\ \A d \in Call : /\ <<"create", d>> \notin drain /\ <<"cancel", d>> \notin drain
                         /\ <<"settle", d>> \notin drain /\ <<"completed", d>> \notin drain
                         /\ <<"gathered", d>> \notin drain /\ <<"step", d>> \notin drain
      /\ <<"drained", NoCall>> \notin drain /\ <<"create drain", NoCall>> \notin drain
      /\ <<"drain", NoCall>> \in drain <=> ~spinning'
  BY <1>3, Effects
<1>5. /\ cancels' = [c \in Call |-> IF c \in tasks /\ cancels[c] = 0 /\ Pending(c)
                                    THEN cancels[c] + 1 ELSE cancels[c]]
      /\ thrown' \in [Call -> BOOLEAN]
      /\ task' = [c \in Call |-> IF c \in W THEN "ready" ELSE task[c]]
  BY <1>1 DEF CancelTasks, Uncancelled
<1>6. /\ worker = "closing" /\ gathering = {}
      /\ Holds(ready, <<"drain", NoCall>>)
      /\ ~Holds(ready, <<"drained", NoCall>>)
      /\ ~Holds(ready, <<"create drain", NoCall>>)
      /\ \A c \in Call : /\ task[c] # "submitted" /\ ~Unregistered(c)
                         /\ ~Holds(ready, <<"cancel", c>>)
                         /\ Pending(c) => c \in tasks
  BY <1>1, AllKnown
<1> HIDE DEF steps, W, drain
<1>7. TypeOK' /\ IsFiniteSet(tasks)'
  <2>1. /\ cancels' \in [Call -> Nat]
        /\ task' \in [Call -> {"new", "submitted", "ready", "waiting", "done"}]
    BY <1>5 DEF LoopInv, TypeOK
  <2>2. gathering' \subseteq Call /\ spinning' \in BOOLEAN
    BY <1>1 DEF TypeOK
  <2> QED
    BY <1>1, <1>4, <1>5, <2>1, <2>2 DEF LoopInv, TypeOK
<1>8. Handles'
  BY <1>1, <1>2, <1>4, <1>5, <1>6 DEF LoopInv, TypeOK, Handles, Unregistered, Registered, Oldest,
                                      Effect
<1>9. Registered'
  BY <1>1, <1>2, <1>4, <1>5, <1>6 DEF LoopInv, TypeOK, Registered, Handles, Oldest, Effect
<1>10. Turns'
  BY <1>1, <1>2, <1>4, <1>5, <1>6 DEF LoopInv, Turns, Drains, Oldest, Effect
<1>11. InTurn'
  BY <1>1, <1>2, <1>4, <1>5, <1>6 DEF LoopInv, TypeOK, InTurn, Handles, Drains, Unregistered,
                                      Turns, Registered, Oldest, Effect
<1>12. Ended'
  BY <1>1, <1>2, <1>4, <1>5, <1>6 DEF LoopInv, TypeOK, Ended, Pending, Turns, Drains, Handles,
                                      Oldest, Effect
<1>13. Cancelling'
  <2>1. ASSUME NEW c \in Call
        PROVE  cancels'[c] <= 1 /\ (cancels'[c] > 0 => c \in tasks' \/ task'[c] = "done")
    <3>1. /\ cancels[c] \in Nat /\ cancels[c] <= 1
          /\ (cancels[c] > 0 => c \in tasks \/ task[c] = "done")
      BY DEF LoopInv, TypeOK, Cancelling, CancelledOnce
    <3>2. task[c] = "done" => task'[c] = "done"
      BY <1>2, <1>5
    <3> QED
      BY <1>1, <1>5, <3>1, <3>2
  <2>2. ASSUME NEW c \in Call PROVE ~Holds(ready', <<"cancel", c>>)
    BY <1>4, <1>6 DEF Effect
  <2> QED
    BY <1>1, <1>6, <2>1, <2>2 DEF Cancelling, CancelledOnce
<1> QED
  BY <1>7, <1>8, <1>9, <1>10, <1>11, <1>12, <1>13 DEF LoopInv

\* The done callbacks of a call, as handles.
Called(c) == {<<"settle", c>>} \cup (IF c \in tasks' THEN {<<"completed", c>>} ELSE {})
                               \cup (IF c \in gathering THEN {<<"gathered", c>>} ELSE {})

\* The callbacks of a task that ends are queued once each, and nothing else is.
LEMMA CallbackHandles ==
    ASSUME NEW c \in Call
    PROVE  /\ Callbacks(c) \in Seq(Handle) /\ Once(Callbacks(c))
           /\ \A h \in Handle : Holds(Callbacks(c), h) <=> h \in Called(c)
<1> DEFINE completed == IF c \in tasks' THEN <<<<"completed", c>>>> ELSE <<>>
           gathered == IF c \in gathering THEN <<<<"gathered", c>>>> ELSE <<>>
           settle == <<<<"settle", c>>>>
           a == {<<"settle", c>>}
           b == a \cup (IF c \in tasks' THEN {<<"completed", c>>} ELSE {})
<1>1. /\ <<"settle", c>> \in Handle /\ <<"completed", c>> \in Handle /\ <<"gathered", c>> \in Handle
  BY HandleKinds
<1>2. settle \in Seq(Handle) /\ Once(settle) /\ \A h \in Handle : Holds(settle, h) <=> h \in a
  BY <1>1, Single
<1> HIDE DEF settle
<1>3. Becomes(settle, settle, {}, {})
  BY <1>2, Kept
<1>4. ~Holds(settle, <<"completed", c>>) /\ ~Holds(settle, <<"gathered", c>>)
  BY <1>1, <1>2
<1>5. Becomes(settle, settle \o completed, {},
              {} \cup (IF c \in tasks' THEN {<<"completed", c>>} ELSE {}))
  BY <1>1, <1>3, <1>4, Optional
<1> DEFINE two == settle \o completed
<1> HIDE DEF completed, two
<1>6. ~Holds(two, <<"gathered", c>>)
  BY <1>1, <1>4, <1>5 DEF Becomes, two
<1>7. Becomes(settle, two \o gathered, {},
              ({} \cup (IF c \in tasks' THEN {<<"completed", c>>} ELSE {}))
                 \cup (IF c \in gathering THEN {<<"gathered", c>>} ELSE {}))
  BY <1>1, <1>5, <1>6, Optional DEF two
<1> DEFINE all == two \o gathered
<1> HIDE DEF gathered, all
<1>8. /\ all \in Seq(Handle) /\ Once(all)
      /\ \A h \in Handle : Holds(all, h) <=> h \in Called(c)
  BY <1>2, <1>7 DEF Becomes, Called, all
<1>9. Callbacks(c) = all
  BY DEF Callbacks, all, two, settle, completed, gathered
<1> QED
  BY <1>8, <1>9

\* A step of a task issues no call or one call d, and ends the task or lets it wait.
StepOf(c, d, issues, ends) ==
    /\ issues => MaySubmit(c) /\ task[d] = "new"
    /\ Started(c) \/ ends
    /\ tasks' = IF Started(c) THEN tasks \cup {c} ELSE tasks
    /\ task' = [e \in Call |-> IF e = c THEN (IF ends THEN "done" ELSE "waiting")
                               ELSE IF issues /\ e = d THEN "submitted" ELSE task[e]]
    /\ future' = [e \in Call |-> IF issues /\ e = d THEN "pending" ELSE future[e]]
    /\ ready' = (Tail(ready) \o (IF issues THEN <<<<"create", d>>>> ELSE <<>>))
                   \o (IF ends THEN Callbacks(c) ELSE <<>>)

LEMMA StepShape == ASSUME LoopInv, NEW c \in Call, Step(c)
                   PROVE  \E d \in Call, issues, ends \in BOOLEAN : StepOf(c, d, issues, ends)
<1>1. PICK subs \in {<<>>} \cup {<<d>> : d \in {e \in Call : MaySubmit(c) /\ task[e] = "new"}},
           ends \in IF Started(c) /\ ~cleaning[c] THEN BOOLEAN ELSE {TRUE} :
          /\ task' = [d \in Call |-> CASE d = c -> IF ends THEN "done" ELSE "waiting"
                                       [] d \in ToSet(subs) -> "submitted"
                                       [] OTHER -> task[d]]
          /\ future' = [d \in Call |-> IF d \in ToSet(subs) THEN "pending" ELSE future[d]]
          /\ ready' = Tail(ready) \o [i \in DOMAIN subs |-> <<"create", subs[i]>>]
                         \o IF ends THEN Callbacks(c) ELSE <<>>
  BY DEF Step
<1>2. ends \in BOOLEAN /\ (Started(c) \/ ends)
  BY <1>1
<1>3. tasks' = IF Started(c) THEN tasks \cup {c} ELSE tasks
  BY DEF Step
<1>4. CASE subs = <<>>
  <2>1. ToSet(subs) = {} /\ [i \in DOMAIN subs |-> <<"create", subs[i]>>] = <<>>
    BY <1>4 DEF ToSet
  <2>2. StepOf(c, c, FALSE, ends)
    BY <1>1, <1>3, <2>1 DEF StepOf
  <2> QED
    BY <1>2, <2>2
<1>5. CASE subs # <<>>
  <2>1. PICK d \in Call : subs = <<d>> /\ MaySubmit(c) /\ task[d] = "new"
    BY <1>1, <1>5
  <2>0. d # c
    BY <2>1, First DEF LoopInv, Step, Handles, Oldest
  <2>2. ToSet(subs) = {d} /\ [i \in DOMAIN subs |-> <<"create", subs[i]>>] = <<<<"create", d>>>>
    BY <2>1 DEF ToSet
  <2>3. task' = [e \in Call |-> IF e = c THEN (IF ends THEN "done" ELSE "waiting")
                                ELSE IF TRUE /\ e = d THEN "submitted" ELSE task[e]]
    <3>1. task' = [e \in Call |-> CASE e = c -> IF ends THEN "done" ELSE "waiting"
                                    [] e \in {d} -> "submitted"
                                    [] OTHER -> task[e]]
      BY <1>1, <2>2
    <3>2. ASSUME NEW e \in Call
          PROVE  (CASE e = c -> IF ends THEN "done" ELSE "waiting"
                    [] e \in {d} -> "submitted"
                    [] OTHER -> task[e])
                 = IF e = c THEN (IF ends THEN "done" ELSE "waiting")
                   ELSE IF TRUE /\ e = d THEN "submitted" ELSE task[e]
      <4>1. CASE e = c
        BY <2>0, <4>1
      <4>2. CASE e # c /\ e = d
        BY <4>2
      <4>3. CASE e # c /\ e # d
        BY <4>3
      <4> QED
        BY <4>1, <4>2, <4>3
    <3> QED
      BY <3>1, <3>2
  <2>4. future' = [e \in Call |-> IF TRUE /\ e = d THEN "pending" ELSE future[e]]
    BY <1>1, <2>2
  <2>5. ready' = (Tail(ready) \o (IF TRUE THEN <<<<"create", d>>>> ELSE <<>>))
                    \o (IF ends THEN Callbacks(c) ELSE <<>>)
    BY <1>1, <2>2
  <2>6. StepOf(c, d, TRUE, ends)
    BY <1>3, <2>1, <2>3, <2>4, <2>5 DEF StepOf
  <2> QED
    BY <1>2, <2>6
<1> QED
  BY <1>4, <1>5

\* A step of a task queues the call that it issues, and its callbacks when it ends.
LEMMA StepEffect ==
    ASSUME LoopInv, NEW c \in Call, Runs("step", c), NEW d \in Call,
           NEW issues \in BOOLEAN, NEW ends \in BOOLEAN, StepOf(c, d, issues, ends)
    PROVE  Became({<<"step", c>>}, (IF issues THEN {<<"create", d>>} ELSE {})
                                      \cup (IF ends THEN Called(c) ELSE {}))
<1> DEFINE creates == IF issues THEN {<<"create", d>>} ELSE {}
           first == Tail(ready) \o (IF issues THEN <<<<"create", d>>>> ELSE <<>>)
           calls == IF ends THEN Called(c) ELSE {}
           rest == IF ends THEN Callbacks(c) ELSE <<>>
<1>1. /\ TypeOK /\ Handles /\ <<"create", d>> \in Handle
      /\ Oldest(<<"step", c>>) /\ task[c] = "ready"
      /\ ~Holds(ready, <<"settle", c>>) /\ ~Holds(ready, <<"completed", c>>)
      /\ ~Holds(ready, <<"gathered", c>>)
  BY First, HandleKinds DEF LoopInv, Handles, Oldest
<1>2. Becomes(ready, Tail(ready), {<<"step", c>>}, {})
  BY <1>1, First
<1>3. Becomes(ready, first, {<<"step", c>>}, creates)
  <2>1. CASE issues
    <3>1. ~Holds(ready, <<"create", d>>)
      BY <1>1, <2>1 DEF StepOf, Handles
    <3>2. ~Holds(Tail(ready), <<"create", d>>)
      BY <1>1, <1>2, <3>1 DEF Becomes
    <3>3. Becomes(ready, Tail(ready) \o <<<<"create", d>>>>,
                  {<<"step", c>>}, {} \cup {<<"create", d>>})
      BY <1>1, <1>2, <3>2, Appended
    <3>4. {} \cup {<<"create", d>>} = creates
      BY <2>1
    <3> QED
      BY <2>1, <3>3, <3>4
  <2>2. CASE ~issues
    <3>1. first = Tail(ready) /\ creates = {}
      BY <2>2
    <3> QED
      BY <1>2, <3>1
  <2> QED
    BY <2>1, <2>2
<1>4. \A h \in Called(c) : ~Holds(ready, h) /\ h \notin creates
  BY <1>1 DEF Called
<1> HIDE DEF first, creates
<1>5. CASE ends
  <2>1. \A h \in Handle : h \in Called(c) => ~Holds(first, h)
    BY <1>3, <1>4 DEF Becomes
  <2>2. Becomes(ready, first \o Callbacks(c), {<<"step", c>>}, creates \cup Called(c))
    BY <1>3, <2>1, CallbackHandles, Added
  <2>3. calls = Called(c) /\ rest = Callbacks(c)
    BY <1>5
  <2>4. Becomes(ready, first \o rest, {<<"step", c>>}, creates \cup calls)
    BY <2>2, <2>3
  <2> QED
    BY <2>4 DEF Became, StepOf, first, creates
<1>6. CASE ~ends
  <2>1. first \o rest = first /\ creates \cup calls = creates
    BY <1>6
  <2>2. Becomes(ready, first \o rest, {<<"step", c>>}, creates \cup calls)
    BY <1>3, <2>1
  <2> QED
    BY <2>2 DEF Became, StepOf, first, creates
<1> QED
  BY <1>5, <1>6

LEMMA StepStep == ASSUME LoopInv, NEW c \in Call, Step(c) PROVE LoopInv'
<1>1. PICK d \in Call, issues, ends \in BOOLEAN : StepOf(c, d, issues, ends)
  BY StepShape
<1> DEFINE added == (IF issues THEN {<<"create", d>>} ELSE {})
                       \cup (IF ends THEN Called(c) ELSE {})
<1>2. /\ ready' \in Seq(Handle) /\ Effect({<<"step", c>>}, added) /\ Oldest(<<"step", c>>)
  BY <1>1, StepEffect, Effects, First DEF LoopInv, Step
<1>3. \A e \in Call : /\ <<"create", e>> \in added <=> issues /\ e = d
                      /\ <<"step", e>> \notin added /\ <<"cancel", e>> \notin added
                      /\ <<"settle", e>> \in added => ends /\ e = c
                      /\ <<"completed", e>> \in added => ends /\ e = c
                      /\ <<"gathered", e>> \in added => ends /\ e = c /\ c \in gathering
  BY DEF Called
<1>4. \A e : /\ <<"create drain", e>> \notin added /\ <<"drain", e>> \notin added
             /\ <<"drained", e>> \notin added
  BY DEF Called
<1>5. /\ issues => worker = "running" /\ task[d] = "new" /\ d # c
      /\ task[c] = "ready"
      /\ \/ c \in tasks' /\ tasks' = tasks \cup {c}
         \/ c \notin tasks /\ tasks' = tasks /\ ends
      /\ task' = [e \in Call |-> IF e = c THEN (IF ends THEN "done" ELSE "waiting")
                                 ELSE IF issues /\ e = d THEN "submitted" ELSE task[e]]
      /\ future' = [e \in Call |-> IF issues /\ e = d THEN "pending" ELSE future[e]]
      /\ UNCHANGED <<cancels, gathering, spinning, worker, attempt>>
  BY <1>1, <1>2 DEF StepOf, MaySubmit, Step, LoopInv, Handles, Oldest
<1>6. thrown' \in [Call -> BOOLEAN] /\ cleaning' \in [Call -> BOOLEAN]
  BY DEF Step, LoopInv, TypeOK
<1> HIDE DEF added
<1>7. TypeOK' /\ IsFiniteSet(tasks)'
  <2>1. /\ task' \in [Call -> {"new", "submitted", "ready", "waiting", "done"}]
        /\ future' \in [Call -> {"none", "pending", "cancelled", "done"}]
    BY <1>5 DEF LoopInv, TypeOK
  <2>2. tasks' \subseteq Call
    BY <1>5 DEF LoopInv, TypeOK
  <2>3. IsFiniteSet(tasks')
    BY <1>5, FS_AddElement DEF LoopInv
  <2> QED
    BY <1>2, <1>5, <1>6, <2>3 DEF LoopInv, TypeOK
<1>a. /\ \A e \in Call : task'[e] = IF e = c THEN (IF ends THEN "done" ELSE "waiting")
                                   ELSE IF issues /\ e = d THEN "submitted" ELSE task[e]
      /\ \A e \in Call : future'[e] = IF issues /\ e = d THEN "pending" ELSE future[e]
      /\ \A e \in Call \ {c} : e \in tasks' <=> e \in tasks
      /\ ~ends => c \in tasks'
  BY <1>5
<1>8. Handles'
  <2> SUFFICES ASSUME NEW e \in Call
               PROVE  /\ Queued("create", e)' <=> task'[e] = "submitted"
                      /\ Queued("step", e)' => task'[e] = "ready"
                      /\ Unregistered(e)' => Queued("step", e)'
                      /\ Queued("cancel", e)' => future'[e] = "cancelled" /\ task'[e] # "submitted"
                      /\ Queued("settle", e)' \/ Queued("completed", e)' \/ Queued("gathered", e)'
                            => task'[e] = "done"
                      /\ Queued("gathered", e)' => e \in gathering'
    BY <1>2 DEF Handles, Effect
  <2>1. CASE e = c
    BY <1>2, <1>3, <1>5, <1>a, <2>1 DEF LoopInv, Handles, Unregistered, Oldest, Effect
  <2>2. CASE e # c /\ issues /\ e = d
    BY <1>2, <1>3, <1>5, <1>a, <2>2 DEF LoopInv, Handles, Registered, Unregistered, Effect
  <2>3. CASE e # c /\ ~(issues /\ e = d)
    BY <1>2, <1>3, <1>5, <1>a, <2>3 DEF LoopInv, Handles, Unregistered, Effect
  <2> QED
    BY <2>1, <2>2, <2>3
<1>9. Registered'
  <2> SUFFICES ASSUME NEW e \in Call
               PROVE  /\ e \in tasks' => task'[e] \in {"ready", "waiting", "done"}
                      /\ task'[e] = "waiting" => e \in tasks'
                      /\ task'[e] = "new" <=> future'[e] = "none"
    BY DEF Registered
  <2>1. CASE e = c
    BY <1>5 DEF LoopInv, Registered
  <2>2. CASE e # c
    BY <1>5 DEF LoopInv, Registered
  <2> QED
    BY <2>1, <2>2
<1>10. Turns'
  BY <1>2, <1>3, <1>4, <1>5, <1>6 DEF LoopInv, Turns, Drains, Oldest, Effect
<1>11. InTurn'
  BY <1>2, <1>3, <1>4, <1>5, <1>6 DEF LoopInv, TypeOK, InTurn, Handles, Drains, Unregistered,
                                      Turns, Registered, Oldest, Effect
<1>12. Ended'
  BY <1>2, <1>3, <1>4, <1>5, <1>6 DEF LoopInv, TypeOK, Ended, Pending, Turns, Drains, Handles,
                                      Oldest, Effect
<1>13. Cancelling'
  BY <1>2, <1>3, <1>4, <1>5, <1>6 DEF LoopInv, TypeOK, Cancelling, CancelledOnce, Ended, Pending,
                                      Handles, Registered, InTurn, Oldest, Effect
<1> QED
  BY <1>7, <1>8, <1>9, <1>10, <1>11, <1>12, <1>13 DEF LoopInv
HIDE BridgeAssumption DEF Queued, Draining, Moved, Behind, callVars, drainVars
-----------------------------------------------------------------------------
LEMMA Initially == ASSUME Init PROVE LoopInv
<1>1. /\ \A h : ~Holds(<<>>, h)
      /\ Once(<<>>) /\ \A g, h : Precedes(<<>>, g, h)
  BY DEF Holds, Once, Precedes
<1>2. TypeOK
  <2>1. <<>> \in Seq(Handle) /\ 1 \in 1..MaxAttempts
    BY BridgeAssumption
  <2> QED
    BY <2>1 DEF Init, TypeOK
<1>3. IsFiniteSet(tasks)
  BY FS_EmptySet DEF Init
<1>4. Handles /\ Registered /\ Turns
  BY <1>1 DEF Init, Handles, Registered, Turns, Queued, Draining, Unregistered
<1>5. InTurn
  BY <1>1 DEF Init, InTurn, Draining, Unregistered, Queued
<1>6. Ended /\ Cancelling
  BY <1>1 DEF Init, Ended, Cancelling, CancelledOnce, Draining, Queued, Pending
<1> QED
  BY <1>2, <1>3, <1>4, <1>5, <1>6 DEF LoopInv

LEMMA NextStep == ASSUME LoopInv, [Next]_vars PROVE LoopInv'
<1>1. ASSUME UNCHANGED vars PROVE LoopInv'
  <2>1. UNCHANGED <<ready, task, cancels, thrown, cleaning, future, tasks, gathering, spinning,
                    worker, attempt>>
    BY <1>1 DEF vars, callVars, drainVars
  <2> QED
    BY <2>1 DEF LoopInv, TypeOK, Handles, Registered, Turns, InTurn, Ended, Cancelling,
                CancelledOnce, Queued, Draining, Unregistered, Pending
<1>2. ASSUME NEW c \in Call, \/ Create(c) \/ Cancel(c) \/ Step(c)
                             \/ Settle(c) \/ Completed(c) \/ Gathered(c)
      PROVE  LoopInv'
  BY <1>2, CreateStep, CancelStep, StepStep, SettleStep, CompletedStep, GatheredStep
<1>3. ASSUME NEW c \in Call, Submit(c) \/ CancelFuture(c) \/ Wake(c) PROVE LoopInv'
  BY <1>3, SubmitStep, CancelFutureStep, WakeStep
<1>4. ASSUME CreateDrain \/ Drain \/ Drained \/ CloseAttempt \/ Restart PROVE LoopInv'
  BY <1>4, CreateDrainStep, DrainNobodyStep, DrainTasksStep, DrainedStep, CloseAttemptStep,
     RestartStep
<1> QED
  BY <1>1, <1>2, <1>3, <1>4 DEF Next, LoopStep

\* The queue of the loop and what it says of every call (LoopInv) hold in every state.
THEOREM LoopInvariant == Spec => []LoopInv
<1>1. Init => LoopInv
  BY Initially
<1>2. LoopInv /\ [Next]_vars => LoopInv'
  BY NextStep
<1> QED
  BY <1>1, <1>2, PTL DEF Spec

\* The variables of the bridge have their types: each handle is one that the loop
\* can run (bridge.py 26-79).
THEOREM BridgeTyping == Spec => []TypeOK
<1>1. LoopInv => TypeOK
  BY DEF LoopInv
<1> QED
  BY <1>1, LoopInvariant, PTL

\* No cleanup is interrupted by a second cancellation, and no call is cancelled before
\* drain() knows it (bridge.py 40-43 and 61-72).
THEOREM CancelledAtMostOnce == Spec => []CancelledOnce
<1>1. LoopInv => CancelledOnce
  BY DEF LoopInv, Cancelling
<1> QED
  BY <1>1, LoopInvariant, PTL
-----------------------------------------------------------------------------
\* The bridge refines AttemptBarrier: a step of it is one of the barrier's or stutters.
Active == {c \in Call : Pending(c)}

LEMMA SameActive == ASSUME task' = task PROVE Active' = Active
BY DEF Active, Pending

LEMMA BarrierStarts == ASSUME Init PROVE Barrier!BarrierInit
BY DEF Init, Barrier!BarrierInit, Pending

\* A step that leaves the pending calls and the worker's being open as they are.
LEMMA Stutters == ASSUME Active' = Active, (worker # "closed")' = (worker # "closed")
                  PROVE  [Barrier!BarrierNext]_<<worker # "closed", {c \in Call : Pending(c)}>>
BY DEF Active

LEMMA StepRefines ==
    ASSUME LoopInv, NEW c \in Call, Step(c)
    PROVE  [Barrier!BarrierNext]_<<worker # "closed", {e \in Call : Pending(e)}>>
<1>1. PICK d \in Call, issues, ends \in BOOLEAN : StepOf(c, d, issues, ends)
  BY StepShape
<1>2. task[c] = "ready"
  BY First DEF LoopInv, Step, Oldest, Handles, Queued
<1>3. /\ \A e \in Call : task'[e] = IF e = c THEN (IF ends THEN "done" ELSE "waiting")
                                    ELSE IF issues /\ e = d THEN "submitted" ELSE task[e]
      /\ issues => worker = "running" /\ task[d] = "new"
      /\ worker' = worker
  BY <1>1 DEF StepOf, MaySubmit, Step
<1>4. c \in Active /\ (issues => d \notin Active /\ d # c)
  BY <1>2, <1>3 DEF Active, Pending
<1>5. CASE ends /\ issues
  <2>1. Active' = (Active \ {c}) \cup {d}
    BY <1>3, <1>4, <1>5 DEF Active, Pending
  <2>2. Barrier!Relay(c, d)
    BY <1>3, <1>4, <1>5, <2>1 DEF Barrier!Relay, Active
  <2> QED
    BY <1>4, <1>5, <2>2 DEF Barrier!BarrierNext, Active
<1>6. CASE ends /\ ~issues
  <2>1. Active' = Active \ {c}
    BY <1>3, <1>4, <1>6 DEF Active, Pending
  <2>2. Barrier!Settle(c)
    BY <1>3, <1>4, <2>1 DEF Barrier!Settle, Active
  <2> QED
    BY <2>2 DEF Barrier!BarrierNext
<1>7. CASE ~ends /\ issues
  <2>1. Active' = Active \cup {d}
    BY <1>2, <1>3, <1>4, <1>7 DEF Active, Pending
  <2>2. Barrier!Submit(d)
    BY <1>3, <1>4, <1>7, <2>1 DEF Barrier!Submit, Active
  <2> QED
    BY <2>2 DEF Barrier!BarrierNext
<1>8. CASE ~ends /\ ~issues
  <2>1. Active' = Active
    BY <1>2, <1>3, <1>4, <1>8 DEF Active, Pending
  <2> QED
    BY <1>3, <2>1, Stutters
<1> QED
  BY <1>5, <1>6, <1>7, <1>8

LEMMA NextRefines ==
    ASSUME LoopInv, [Next]_vars
    PROVE  [Barrier!BarrierNext]_<<worker # "closed", {c \in Call : Pending(c)}>>
<1>1. ASSUME NEW c \in Call, Submit(c) PROVE Barrier!Submit(c)
  BY <1>1 DEF Submit, Pending, Barrier!Submit, LoopInv, TypeOK
<1>2. ASSUME Drained PROVE Barrier!End
  <2>1. \A c \in Call : ~Pending(c)
    BY <1>2, First DEF LoopInv, Drained, Ended, Draining, Oldest
  <2>2. worker # "closed"
    BY <1>2, First DEF LoopInv, Drained, Turns, Drains, Draining, Oldest
  <2>3. \A c \in Call : Pending(c)' <=> Pending(c)
    BY <1>2 DEF Drained, callVars, Pending
  <2> QED
    BY <1>2, <2>1, <2>2, <2>3 DEF Drained, Barrier!End
<1>3. ASSUME Restart PROVE Barrier!Begin
  BY <1>3 DEF Restart, callVars, Pending, Barrier!Begin
<1>4. ASSUME NEW c \in Call, CancelFuture(c) \/ Settle(c) \/ Completed(c) \/ Gathered(c)
      PROVE  task' = task /\ worker' = worker
  BY <1>4 DEF CancelFuture, Settle, Completed, Gathered, callVars
<1>5. ASSUME NEW c \in Call, Wake(c) \/ Create(c) \/ Cancel(c)
      PROVE  Active' = Active /\ worker' = worker
  <2>1. CASE Wake(c)
    BY <2>1 DEF Wake, Active, Pending, LoopInv, TypeOK
  <2>2. CASE Create(c)
    BY <2>2, First DEF Create, Active, Pending, LoopInv, TypeOK, Handles, Queued, Oldest
  <2>3. CASE Cancel(c)
    BY <2>3 DEF Cancel, CancelTasks, Waiting, Active, Pending, LoopInv, TypeOK
  <2> QED
    BY <1>5, <2>1, <2>2, <2>3
<1>6. ASSUME Drain PROVE Active' = Active /\ worker' = worker
  BY <1>6 DEF Drain, CancelTasks, Waiting, Active, Pending, LoopInv, TypeOK
<1>7. ASSUME CloseAttempt PROVE task' = task /\ (worker # "closed")' = (worker # "closed")
  BY <1>7 DEF CloseAttempt, callVars
<1>8. ASSUME CreateDrain PROVE task' = task /\ worker' = worker
  BY <1>8 DEF CreateDrain, callVars
<1>9. ASSUME UNCHANGED vars PROVE task' = task /\ worker' = worker
  BY <1>9 DEF vars, callVars
<1>10. CASE \E c \in Call : Submit(c)
  BY <1>1, <1>10 DEF Barrier!BarrierNext
<1>11. CASE Drained \/ Restart
  BY <1>2, <1>3, <1>11 DEF Barrier!BarrierNext
<1>12. CASE \E c \in Call : Step(c)
  BY <1>12, StepRefines
<1>13. CASE \/ UNCHANGED vars \/ CreateDrain \/ CloseAttempt \/ Drain
            \/ \E c \in Call : \/ CancelFuture(c) \/ Settle(c) \/ Completed(c) \/ Gathered(c)
                               \/ Wake(c) \/ Create(c) \/ Cancel(c)
  <2>1. Active' = Active /\ (worker # "closed")' = (worker # "closed")
    BY <1>4, <1>5, <1>6, <1>7, <1>8, <1>9, <1>13, SameActive
  <2> QED
    BY <2>1, Stutters
<1> QED
  BY <1>10, <1>11, <1>12, <1>13 DEF Next, LoopStep

\* No call outlives its attempt, in whatever order the loop runs what is ready
\* (bridge.py 26-79, docs/background-workers.md 66-68): the bridge is an AttemptBarrier.
THEOREM BarrierKept == Spec => ImplementsBarrier
<1>1. Init => Barrier!BarrierInit
  BY BarrierStarts
<1>2. LoopInv /\ [Next]_vars
         => [Barrier!BarrierNext]_<<worker # "closed", {c \in Call : Pending(c)}>>
  BY NextRefines
<1> QED
  BY <1>1, <1>2, LoopInvariant, PTL DEF Spec, ImplementsBarrier, Barrier!BarrierSpec
=============================================================================
