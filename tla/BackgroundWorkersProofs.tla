---------------------- MODULE BackgroundWorkersProofs ----------------------
(* The background work of one API worker, seen from its threads and from the *)
(* lifespan: BackgroundThread is one thread and its stop(), WorkerLifespan   *)
(* starts the threads and retires them.  For every set of calls and workers, *)
(* and every number of attempts, stops and cancellations.                    *)
EXTENDS BackgroundThread, WorkerLifespan, TLAPS

(* The thread.                                                               *)

USE ThreadAssumption

Past == {"ready", "top", "begin", "enter", "call", "drain", "exit", "delay", "restart"}
             \cup Entry

\* What the thread's place in run() says about the rest of its state.
References == /\ taskRef <=> pc = "awaiting"
              /\ pc \in Past \ {"ready"} => readyFuture = "ok"
              /\ pc \in Past => loopRef
              /\ unwinding \/ handles > 0 => pc = "awaiting"
Results == /\ pc \in {"new", "init", "loop", "ready"} => readyFuture = "pending"
           /\ readyFuture = "error" => pc = "end"
           /\ pc \in {"close", "report"} /\ readyFuture = "pending" => raised
           /\ done => pc = "end"
           /\ pc = "end" => readyFuture # "pending"
           /\ status = "running" => \/ pc \in {"enter", "call"} \cup Entry
                                    \/ raised /\ pc # "end"
           /\ status = "running" => readyFuture = "ok"
Counts == /\ event <=> stops > 0
          /\ handles + (IF stopper = "cancel" THEN 1 ELSE 0) <= stops + 1
          /\ pc \in {"new", "init", "loop", "ready", "top", "begin", "restart"}
                => attempt < MaxAttempts
Calling == active # {} => pc \in {"sync", "awaiting", "drain"}

ThreadInv == TypeOK /\ References /\ Results /\ Counts /\ Calling /\ StopReachesEntry

-----------------------------------------------------------------------------
LEMMA ThreadInitially == Init => ThreadInv
<1> SUFFICES ASSUME Init PROVE ThreadInv
  OBVIOUS
<1>1. TypeOK
  <2>1. /\ raised \in BOOLEAN /\ done \in BOOLEAN /\ event \in BOOLEAN
        /\ loopRef \in BOOLEAN /\ taskRef \in BOOLEAN /\ unwinding \in BOOLEAN
        /\ autoRestart \in BOOLEAN
    BY DEF Init
  <2>2. /\ pc \in {"new", "init", "loop", "ready", "top", "begin", "enter", "call", "drain",
                   "exit", "delay", "restart", "close", "report", "end"} \cup Entry
        /\ status \in {"starting", "running", "completed", "stopped", "failed", "restarting"}
        /\ readyFuture \in {"pending", "ok", "error"}
        /\ attempt \in 0..MaxAttempts /\ stops \in 0..MaxStops
        /\ handles \in 0..(MaxStops + 1)
        /\ stopper \in {"idle", "cancel"}
        /\ active \subseteq Call
    BY DEF Init
  <2> QED
    BY <2>1, <2>2 DEF TypeOK
<1>2. References /\ Results /\ Counts /\ Calling /\ StopReachesEntry
  BY DEF Init, Entry, References, Past, Results, Counts, Calling, StopReachesEntry
<1> QED
  BY <1>1, <1>2 DEF ThreadInv

LEMMA ThreadNextStep == ThreadInv /\ [Next]_vars => ThreadInv'
<1> SUFFICES ASSUME ThreadInv, [Next]_vars PROVE ThreadInv'
  OBVIOUS
<1> USE DEF ThreadInv, TypeOK, Entry, References, Past, Results, Counts, Calling, StopReachesEntry,
        Goto, Raise, stopVars, entryVars, resultVars, apiVars
<1>1. CASE Launch
  BY <1>1 DEF Launch
<1>2. CASE Initialize
  <2>1. TypeOK'
    BY <1>2 DEF Initialize
  <2>2. (References /\ Results)'
    BY <1>2 DEF Initialize
  <2>3. (Counts /\ Calling /\ StopReachesEntry)'
    BY <1>2 DEF Initialize
  <2> QED
    BY <2>1, <2>2, <2>3
<1>3. CASE SetLoop
  BY <1>3 DEF SetLoop
<1>4. CASE SetReady
  BY <1>4 DEF SetReady
<1>5. CASE TestStop
  BY <1>5 DEF TestStop
<1>6. CASE Begin
  BY <1>6 DEF Begin
<1>7. CASE EnterScope
  <2>1. TypeOK'
    BY <1>7 DEF EnterScope
  <2>2. (References /\ Results)'
    BY <1>7 DEF EnterScope
  <2>3. (Counts /\ Calling /\ StopReachesEntry)'
    BY <1>7 DEF EnterScope
  <2> QED
    BY <2>1, <2>2, <2>3
<1>8. CASE CallEntry
  BY <1>8 DEF CallEntry
<1>9. CASE AwaitEntry
  BY <1>9 DEF AwaitEntry
<1>10. CASE DeliverCancel
  BY <1>10 DEF DeliverCancel
<1>11. CASE EndEntry
  <2>1. TypeOK'
    <3>1. /\ raised' \in BOOLEAN /\ done' \in BOOLEAN /\ event' \in BOOLEAN
          /\ loopRef' \in BOOLEAN /\ taskRef' \in BOOLEAN /\ unwinding' \in BOOLEAN
          /\ autoRestart' \in BOOLEAN
      BY <1>11 DEF EndEntry
    <3>2. /\ pc' \in {"new", "init", "loop", "ready", "top", "begin", "enter", "call", "drain",
                     "exit", "delay", "restart", "close", "report", "end"} \cup Entry
          /\ status' \in {"starting", "running", "completed", "stopped", "failed", "restarting"}
          /\ readyFuture' \in {"pending", "ok", "error"}
          /\ attempt' \in 0..MaxAttempts /\ stops' \in 0..MaxStops
          /\ handles' \in 0..(MaxStops + 1)
          /\ stopper' \in {"idle", "cancel"}
          /\ active' \subseteq Call
      BY <1>11 DEF EndEntry
    <3> QED
      BY <3>1, <3>2
  <2>2. (References /\ Results)'
    BY <1>11 DEF EndEntry
  <2>3. (Counts /\ Calling /\ StopReachesEntry)'
    BY <1>11 DEF EndEntry
  <2> QED
    BY <2>1, <2>2, <2>3
<1>12. CASE CloseAttempt
  BY <1>12 DEF CloseAttempt
<1>13. CASE ExitScope
  <2>1. TypeOK'
    BY <1>13 DEF ExitScope
  <2>2. (References /\ Results)'
    BY <1>13 DEF ExitScope
  <2>3. (Counts /\ Calling /\ StopReachesEntry)'
    BY <1>13 DEF ExitScope
  <2> QED
    BY <2>1, <2>2, <2>3
<1>14. CASE Delay
  BY <1>14 DEF Delay
<1>15. CASE Restart
  BY <1>15 DEF Restart
<1>16. CASE Close
  <2> pc = "close" /\ pc' = "report" /\ UNCHANGED <<resultVars, apiVars, entryVars>>
    BY <1>16 DEF Close
  <2>1. TypeOK'
    <3>1. raised' \in BOOLEAN /\ loopRef' \in BOOLEAN
      BY <1>16, Zenon DEF Close
    <3> QED
      BY <3>1
  <2>2. References'
    BY <1>16, SMTT(30) DEF Close
  <2>3. Results'
    BY <1>16 DEF Close
  <2>4. (Counts /\ Calling /\ StopReachesEntry)'
    BY <1>16 DEF Close
  <2> QED
    BY <2>1, <2>2, <2>3, <2>4
<1>17. CASE Report
  <2>1. TypeOK'
    BY <1>17 DEF Report
  <2>2. Results'
    BY <1>17 DEF Report
  <2> QED
    BY <1>17, <2>1, <2>2 DEF Report
<1>18. CASE SetEvent
  BY <1>18 DEF SetEvent
<1>19. CASE CancelEntry
  BY <1>19 DEF CancelEntry
<1>20. ASSUME NEW c \in Call, SubmitCall(c) \/ SettleCall(c) PROVE ThreadInv'
  BY <1>20 DEF SubmitCall, SettleCall
<1>21. CASE UNCHANGED vars
  BY <1>21 DEF vars
<1> QED
  BY <1>1, <1>2, <1>3, <1>4, <1>5, <1>6, <1>7, <1>8, <1>9, <1>10,
     <1>11, <1>12, <1>13, <1>14, <1>15, <1>16, <1>17, <1>18, <1>19, <1>20, <1>21
  DEF Next, ThreadStep

LEMMA ThreadInvariance == Spec => []ThreadInv
BY ThreadInitially, ThreadNextStep, PTL DEF Spec

\* Type correctness, the handles on the thread's loop bounded by the stops.
THEOREM ThreadTyping == Spec => []TypeOK
<1>1. ThreadInv => TypeOK
  BY DEF ThreadInv
<1> QED
  BY ThreadInvariance, <1>1, PTL

\* However stop() and await_entry() interleave, and however often stop() is
\* called, a running asynchronous entry has been or will be cancelled.
THEOREM NoMissedCancel == Spec => []StopReachesEntry
<1>1. ThreadInv => StopReachesEntry
  BY DEF ThreadInv
<1> QED
  BY ThreadInvariance, <1>1, PTL

\* A finished thread leaves no active call, has answered start(), and is not
\* reported running.
THEOREM Honesty == Spec => []HonestEnd
<1>1. ThreadInv => HonestEnd
  BY DEF ThreadInv, Results, Calling, HonestEnd, Entry
<1> QED
  BY ThreadInvariance, <1>1, PTL

\* No attempt begins while a call of an earlier one is active.
THEOREM SettledFirst == Spec => SettledBeforeAttempt
<1>1. ThreadInv /\ [Next]_vars => [attempt' # attempt => active = {}]_vars
  <2> SUFFICES ASSUME ThreadInv, Next, attempt' # attempt PROVE active = {}
    OBVIOUS
  <2>1. Begin
    BY DEF Next, ThreadStep, Launch, Initialize, SetLoop, SetReady, TestStop, EnterScope,
           CallEntry, AwaitEntry, DeliverCancel, EndEntry, CloseAttempt, ExitScope, Delay,
           Restart, Close, Report, SetEvent, CancelEntry, SubmitCall, SettleCall, resultVars
  <2> QED
    BY <2>1 DEF Begin, Goto, ThreadInv, Calling
<1> QED
  BY ThreadInvariance, <1>1, PTL DEF Spec, SettledBeforeAttempt
-----------------------------------------------------------------------------
(* What the thread needs of the bridge is no more than the bridge promises.  *)
InAttempt == pc \notin {"exit", "delay", "restart", "close", "report", "end"}
Relied == INSTANCE AttemptBarrier WITH open <- InAttempt

\* The thread behaves as AttemptBarrier says, which is all that it takes from
\* ServiceBridge: a call is submitted in an attempt, and an attempt ends, by
\* close_attempt() or by a failure outside of it, when no call is active
\* (thread.py 165-207).
THEOREM ThreadBarrier == Spec => Relied!BarrierSpec
<1>1. Init => Relied!BarrierInit
  BY DEF Init, Relied!BarrierInit, InAttempt
<1>2. ThreadInv /\ [Next]_vars => [Relied!BarrierNext]_<<InAttempt, active>>
  <2> SUFFICES ASSUME ThreadInv, [Next]_vars
               PROVE  [Relied!BarrierNext]_<<InAttempt, active>>
    OBVIOUS
  <2> USE DEF InAttempt, Goto, Raise, apiVars, stopVars
  <2>1. ASSUME NEW c \in Call, SubmitCall(c) PROVE Relied!Submit(c)
    BY <2>1 DEF SubmitCall, Relied!Submit
  <2>2. ASSUME NEW c \in Call, SettleCall(c) PROVE Relied!Settle(c)
    BY <2>2 DEF SettleCall, Relied!Settle
  <2>3. ASSUME CloseAttempt PROVE Relied!End
    BY <2>3 DEF CloseAttempt, Relied!End
  <2>4. ASSUME \/ Initialize \/ TestStop \/ EnterScope
        PROVE  Relied!End \/ UNCHANGED <<InAttempt, active>>
    BY <2>4 DEF Initialize, TestStop, EnterScope, Relied!End, ThreadInv,
                Calling
  <2>5. ASSUME Restart PROVE Relied!Begin
    BY <2>5 DEF Restart, Relied!Begin
  <2>6. ASSUME \/ Launch \/ SetLoop \/ SetReady \/ Begin
               \/ CallEntry \/ AwaitEntry \/ DeliverCancel \/ EndEntry
        PROVE  UNCHANGED <<InAttempt, active>>
    BY <2>6 DEF Launch, SetLoop, SetReady, Begin, CallEntry,
                AwaitEntry, DeliverCancel, EndEntry
  <2>7. ASSUME \/ ExitScope \/ Delay \/ Close \/ Report
               \/ SetEvent \/ CancelEntry \/ UNCHANGED vars
        PROVE  UNCHANGED <<InAttempt, active>>
    BY <2>7 DEF ExitScope, Delay, Close, Report, SetEvent,
                CancelEntry, vars
  <2> QED
    BY <2>1, <2>2, <2>3, <2>4, <2>5, <2>6, <2>7
    DEF Next, ThreadStep, Relied!BarrierNext
<1> QED
  BY ThreadInvariance, <1>1, <1>2, PTL DEF Spec, Relied!BarrierSpec
-----------------------------------------------------------------------------
(* The lifespan of a worker ends in order: threads and journal before       *)
(* business resources, the sampler's publication before the worker's file.   *)

Before == {"enter", "prepare", "sampling", "business", "journal"}
Serving == {"ready", "serve"}
After == {"teardown", "unsample", "out"}

\* The sampler and its publication, at each place of the lifespan.
Sampled == /\ Publishing => sampler = "publishing"
           /\ sampler = "publishing" => publication # "none"
           /\ stirred => Sampling
           /\ caught => sampler = "publishing"
           /\ at \in {"enter", "prepare"} => sampler = "none"
           /\ at = "sampling" => sampler \in {"snapshot", "publishing"}
           /\ at \notin {"enter", "prepare", "sampling", "out"} => sampler # "none"
           /\ at = "out" => ~Sampling /\ ~file

\* A publication that has found a manager, and does not find it again, belongs to a
\* refresh() that was cancelled.
Absorbed == /\ publication = "take" => managed \/ stirred \/ caught
            /\ publication = "error" /\ sampler = "publishing" => stirred \/ caught

\* The manager has not been started.
Untouched == pump = "none" /\ \A w \in Worker : thread[w] = "new"

\* The retirement of the manager, at each place of the lifespan.
Placed == /\ at \in Before => Untouched
          /\ at \in Before \cup Serving => retirement = "none"
          /\ at = "stopping" => retirement # "none"
          /\ at \in After => retirement \in {"ok", "error"} \/ (retirement = "none" /\ Untouched)

\* What each step of the retirement has waited for.
Awaited == /\ retirement \in {"pump", "ok", "error"} => StartedEnded
           /\ retirement \in {"ok", "error"} => ~Flushing
           /\ retirement = "error" => pump = "error"

LifespanIInv == LifespanInv /\ Sampled /\ Absorbed /\ Placed /\ Awaited
-----------------------------------------------------------------------------
\* TypeOK in parts: flags, places, the counter, and where there is a manager.
Flags == /\ interrupted \in BOOLEAN /\ file \in BOOLEAN /\ managed \in BOOLEAN
         /\ stirred \in BOOLEAN /\ caught \in BOOLEAN /\ told \in BOOLEAN
Places == /\ at \in Before \cup Serving \cup After \cup {"stopping"}
          /\ thrown \in {"none", "error", "cancelled"}
          /\ sampler \in {"none", "sleep", "snapshot", "publishing", "ended", "failed"}
          /\ publication \in {"none", "look", "take", "write", "ok", "oserror", "error"}
          /\ thread \in [Worker -> {"new", "starting", "running", "refused", "done"}]
          /\ pump \in {"none", "flush", "sleep", "final", "ok", "oserror", "error"}
          /\ retirement \in {"none", "created", "gather", "pump", "ok", "error"}
Counted == cancels \in 0..MaxCancels
Managed == managed => at \in Serving \cup {"journal", "stopping", "teardown"}

LEMMA TypeParts == LifespanTypeOK <=> Flags /\ Places /\ Counted /\ Managed
  BY DEF LifespanTypeOK, Flags, Places, Counted, Managed, Before, Serving, After

LEMMA FlagsStep == ASSUME Flags, [LifespanNext]_lifespanVars PROVE Flags'
<1> USE DEF Flags, samplerVars, managerVars
<1>0. Sampling \in BOOLEAN
  BY DEF Sampling
<1>1. CASE Enter \/ Prepare \/ PrepareFails \/ Business \/ BusinessFails
  BY <1>0, <1>1 DEF Enter, Prepare, PrepareFails, Business, BusinessFails, From, Fail, Clear
<1>2. CASE Journal \/ JournalFails \/ Ready \/ ReadyFails
  BY <1>2 DEF Journal, JournalFails, Ready, ReadyFails, From, Fail, LaunchNext, Stop, Thrown
<1>3. CASE Shutdown \/ Exit
  BY <1>0, <1>3 DEF Shutdown, Exit, Stopped, Teardown, Unsample, Fail, Stop, Retired, Clear
<1>4. CASE Cancel
  BY <1>4 DEF Cancel
<1>5. CASE Sampler \/ Publication
  BY <1>5 DEF Sampler, Wake, Queue, Stir, Refreshed, RaiseOrKeep, Return, Publication, Look, Take,
              Write
<1>6. CASE Pumping \/ Retirement
  BY <1>6 DEF Pumping, Pump, PumpFails, Retirement, Retire, Gathered, Pumped, OwnErrorRaised
<1>7. ASSUME NEW w \in Worker, Thread(w) PROVE Flags'
  BY <1>7 DEF Thread, Accept, Refuse, End
<1>8. CASE UNCHANGED lifespanVars
  BY <1>8 DEF lifespanVars
<1> QED
  BY <1>1, <1>2, <1>3, <1>4, <1>5, <1>6, <1>7, <1>8 DEF LifespanNext, Startup

LEMMA PlacesStep == ASSUME Places, [LifespanNext]_lifespanVars PROVE Places'
<1> USE DEF Places, Before, Serving, After, samplerVars, managerVars
<1>1. CASE Enter \/ Prepare \/ PrepareFails \/ Business \/ BusinessFails
  BY <1>1 DEF Enter, Prepare, PrepareFails, Business, BusinessFails, From, Fail, Clear, Sampling
<1>2. CASE Journal \/ JournalFails \/ Ready \/ ReadyFails
  BY <1>2 DEF Journal, JournalFails, Ready, ReadyFails, From, Fail, LaunchNext, Stop, Thrown
<1>3. CASE Shutdown \/ Exit
  BY <1>3 DEF Shutdown, Exit, Stopped, Teardown, Unsample, Fail, Stop, Retired, Clear, Sampling
<1>4. CASE Cancel
  BY <1>4 DEF Cancel
<1>5. CASE Sampler \/ Publication
  BY <1>5 DEF Sampler, Wake, Queue, Stir, Refreshed, RaiseOrKeep, Return, Publication, Look, Take,
              Write
<1>6. CASE Pumping \/ Retirement
  BY <1>6 DEF Pumping, Pump, PumpFails, Retirement, Retire, Gathered, Pumped, OwnErrorRaised
<1>7. ASSUME NEW w \in Worker, Thread(w) PROVE Places'
  BY <1>7 DEF Thread, Accept, Refuse, End
<1>8. CASE UNCHANGED lifespanVars
  BY <1>8 DEF lifespanVars
<1> QED
  BY <1>1, <1>2, <1>3, <1>4, <1>5, <1>6, <1>7, <1>8 DEF LifespanNext, Startup

LEMMA ManagedStep == ASSUME Flags, Places, Managed, [LifespanNext]_lifespanVars PROVE Managed'
<1> USE DEF Flags, Places, Managed, Before, Serving, After, samplerVars, managerVars
<1>1. CASE Enter \/ Prepare \/ PrepareFails \/ Business \/ BusinessFails
  BY <1>1 DEF Enter, Prepare, PrepareFails, Business, BusinessFails, From, Fail, Clear, Sampling
<1>2. CASE Journal \/ JournalFails \/ Ready \/ ReadyFails
  BY <1>2 DEF Journal, JournalFails, Ready, ReadyFails, From, Fail, LaunchNext, Stop, Thrown
<1>3. CASE Shutdown \/ Exit
  BY <1>3 DEF Shutdown, Exit, Stopped, Teardown, Unsample, Fail, Stop, Retired, Clear, Sampling
<1>4. CASE Cancel
  BY <1>4 DEF Cancel
<1>5. CASE Sampler \/ Publication
  BY <1>5 DEF Sampler, Wake, Queue, Stir, Refreshed, RaiseOrKeep, Return, Publication, Look, Take,
              Write
<1>6. CASE Pumping \/ Retirement
  BY <1>6 DEF Pumping, Pump, PumpFails, Retirement, Retire, Gathered, Pumped, OwnErrorRaised
<1>7. ASSUME NEW w \in Worker, Thread(w) PROVE Managed'
  BY <1>7 DEF Thread, Accept, Refuse, End
<1>8. CASE UNCHANGED lifespanVars
  BY <1>8 DEF lifespanVars
<1> QED
  BY <1>1, <1>2, <1>3, <1>4, <1>5, <1>6, <1>7, <1>8 DEF LifespanNext, Startup

LEMMA CountedStep == ASSUME Counted, [LifespanNext]_lifespanVars PROVE Counted'
<1> USE DEF Counted
<1>1. CASE Cancel
  BY <1>1, LifespanAssumption DEF Cancel
<1>2. CASE UNCHANGED cancels
  BY <1>2
<1> QED
  BY <1>1, <1>2 DEF LifespanNext, Startup, Enter, Prepare, PrepareFails, Business,
     BusinessFails, Journal, JournalFails, Ready, ReadyFails, Shutdown, Exit, Stopped, Teardown,
     Unsample, Sampler, Wake, Queue, Stir, Refreshed, Publication, Look, Take, Write, Pumping,
     Pump, PumpFails, Retirement, Retire, Gathered, Pumped, Thread, Accept, Refuse, End,
     lifespanVars

LEMMA TypeStep == ASSUME LifespanTypeOK, [LifespanNext]_lifespanVars PROVE LifespanTypeOK'
<1>1. Flags' /\ Places' /\ Counted' /\ Managed'
  BY TypeParts, FlagsStep, PlacesStep, CountedStep, ManagedStep
<1>2. (Flags /\ Places /\ Counted /\ Managed)' => LifespanTypeOK'
  BY DEF LifespanTypeOK, Flags, Places, Counted, Managed, Before, Serving, After
<1> QED
  BY <1>1, <1>2

LEMMA SampledStep == ASSUME LifespanTypeOK, Sampled, [LifespanNext]_lifespanVars PROVE Sampled'
<1> USE DEF LifespanTypeOK, Sampled, Sampling, Publishing, samplerVars, managerVars
<1>1. CASE Enter \/ Prepare \/ PrepareFails \/ Business \/ BusinessFails
  BY <1>1 DEF Enter, Prepare, PrepareFails, Business, BusinessFails, From, Fail, Clear
<1>2. CASE Journal \/ JournalFails \/ Ready \/ ReadyFails
  BY <1>2 DEF Journal, JournalFails, Ready, ReadyFails, From, Fail, LaunchNext, Stop
<1>3. CASE Shutdown \/ Exit
  BY <1>3 DEF Shutdown, Exit, Stopped, Teardown, Unsample, Fail, Stop, Clear
<1>4. CASE Cancel
  BY <1>4 DEF Cancel
<1>5. CASE Sampler
  BY <1>5 DEF Sampler, Wake, Queue, Stir, Refreshed, RaiseOrKeep, Return
<1>6. CASE Publication
  BY <1>6 DEF Publication, Look, Take, Write
<1>7. CASE Pumping \/ Retirement \/ \E w \in Worker : Thread(w)
  BY <1>7 DEF Pumping, Pump, PumpFails, Retirement, Retire, Gathered, Pumped, Thread, Accept,
              Refuse, End
<1>8. CASE UNCHANGED lifespanVars
  BY <1>8 DEF lifespanVars
<1> QED
  BY <1>1, <1>2, <1>3, <1>4, <1>5, <1>6, <1>7, <1>8 DEF LifespanNext, Startup

LEMMA AbsorbedStep == ASSUME LifespanTypeOK, Sampled, Absorbed, SamplerSurvives,
                             [LifespanNext]_lifespanVars
                      PROVE  Absorbed' /\ SamplerSurvives'
<1> USE DEF LifespanTypeOK, Sampled, Absorbed, SamplerSurvives, Sampling, Publishing, samplerVars,
            managerVars
<1>1. CASE Enter \/ Prepare \/ PrepareFails \/ Business \/ BusinessFails
  BY <1>1 DEF Enter, Prepare, PrepareFails, Business, BusinessFails, From, Fail, Clear
<1>2. CASE Journal \/ JournalFails \/ Ready \/ ReadyFails
  BY <1>2 DEF Journal, JournalFails, Ready, ReadyFails
<1>3. CASE Shutdown \/ Exit
  BY <1>3 DEF Shutdown, Exit, Stopped, Teardown, Unsample, Fail, Stop, Clear
<1>4. CASE Cancel
  BY <1>4 DEF Cancel
<1>5. CASE Sampler
  BY <1>5 DEF Sampler, Wake, Queue, Stir, Refreshed, RaiseOrKeep, Return
<1>6. CASE Publication
  BY <1>6 DEF Publication, Look, Take, Write
<1>7. CASE Pumping \/ Retirement \/ \E w \in Worker : Thread(w)
  BY <1>7 DEF Pumping, Pump, PumpFails, Retirement, Retire, Gathered, Pumped, Thread, Accept,
              Refuse, End
<1>8. CASE UNCHANGED lifespanVars
  BY <1>8 DEF lifespanVars
<1> QED
  BY <1>1, <1>2, <1>3, <1>4, <1>5, <1>6, <1>7, <1>8 DEF LifespanNext, Startup

LEMMA PlacedStep == ASSUME LifespanTypeOK, Placed, [LifespanNext]_lifespanVars PROVE Placed'
<1> USE DEF LifespanTypeOK, Placed, Before, Serving, After, Untouched, samplerVars, managerVars
<1>1. CASE Enter \/ Prepare \/ PrepareFails \/ Business \/ BusinessFails
  BY <1>1 DEF Enter, Prepare, PrepareFails, Business, BusinessFails, From, Fail, Clear
<1>2. CASE Journal \/ JournalFails \/ Ready \/ ReadyFails
  BY <1>2 DEF Journal, JournalFails, Ready, ReadyFails, From, Fail, LaunchNext, Stop
<1>3. CASE Shutdown \/ Exit
  BY <1>3 DEF Shutdown, Exit, Stopped, Teardown, Unsample, Fail, Stop, Retired
<1>4. CASE Cancel
  BY <1>4 DEF Cancel
<1>5. CASE Sampler \/ Publication
  BY <1>5 DEF Sampler, Wake, Queue, Stir, Refreshed, RaiseOrKeep, Return, Publication, Look, Take,
              Write
<1>6. CASE Pumping
  BY <1>6 DEF Pumping, Pump, PumpFails
<1>7. CASE Retirement
  BY <1>7 DEF Retirement, Retire, Gathered, Pumped, OwnErrorRaised
<1>8. ASSUME NEW w \in Worker, Thread(w) PROVE Placed'
  BY <1>8 DEF Thread, Accept, Refuse, End
<1>9. CASE UNCHANGED lifespanVars
  BY <1>9 DEF lifespanVars
<1> QED
  BY <1>1, <1>2, <1>3, <1>4, <1>5, <1>6, <1>7, <1>8, <1>9 DEF LifespanNext, Startup

LEMMA AwaitedStep == ASSUME LifespanTypeOK, Placed, Awaited, [LifespanNext]_lifespanVars
                     PROVE  Awaited'
<1> USE DEF LifespanTypeOK, Placed, Awaited, Before, Serving, StartedEnded, Flushing, samplerVars,
            managerVars
<1>1. CASE Enter \/ Prepare \/ PrepareFails \/ Business \/ BusinessFails
  BY <1>1 DEF Enter, Prepare, PrepareFails, Business, BusinessFails
<1>2. CASE Journal \/ JournalFails \/ Ready \/ ReadyFails
  BY <1>2 DEF Journal, JournalFails, Ready, ReadyFails, From, Fail, LaunchNext, Stop
<1>3. CASE Shutdown \/ Exit
  BY <1>3 DEF Shutdown, Exit, Stopped, Teardown, Unsample, Fail, Stop
<1>4. CASE Cancel \/ Sampler \/ Publication
  BY <1>4 DEF Cancel, Sampler, Wake, Queue, Stir, Refreshed, Publication, Look, Take, Write
<1>5. CASE Pumping
  BY <1>5 DEF Pumping, Pump, PumpFails
<1>6. CASE Retirement
  BY <1>6 DEF Retirement, Retire, Gathered, Pumped, OwnErrorRaised
<1>7. ASSUME NEW w \in Worker, Thread(w) PROVE Awaited'
  BY <1>7 DEF Thread, Accept, Refuse, End
<1>8. CASE UNCHANGED lifespanVars
  BY <1>8 DEF lifespanVars
<1> QED
  BY <1>1, <1>2, <1>3, <1>4, <1>5, <1>6, <1>7, <1>8 DEF LifespanNext, Startup
-----------------------------------------------------------------------------
LEMMA LifespanInvariance == LifespanSpec => []LifespanIInv
<1>1. LifespanInit => LifespanIInv
  <2>1. LifespanInit => Flags /\ Places /\ Managed
    BY DEF LifespanInit, Flags, Places, Managed, Before
  <2>2. LifespanInit => Counted
    BY LifespanAssumption DEF LifespanInit, Counted
  <2>3. LifespanInit => SamplerSurvives /\ Sampled /\ Absorbed /\ Placed /\ Awaited
    BY DEF LifespanInit, SamplerSurvives, Sampled, Absorbed, Placed, Awaited, Before, Serving,
       After, Untouched, Publishing, Sampling
  <2> QED
    BY <2>1, <2>2, <2>3, TypeParts DEF LifespanIInv, LifespanInv
<1>2. LifespanIInv /\ [LifespanNext]_lifespanVars => LifespanIInv'
  BY TypeStep, SampledStep, AbsorbedStep, PlacedStep, AwaitedStep DEF LifespanIInv, LifespanInv
<1> QED
  BY <1>1, <1>2, PTL DEF LifespanSpec

\* The variables have their types, and the sampler ends by cancellation only, for
\* any set of background workers and any number of cancellations.
THEOREM LifespanTyping == LifespanSpec => []LifespanInv
<1>1. LifespanIInv => LifespanInv
  BY DEF LifespanIInv
<1> QED
  BY <1>1, LifespanInvariance, PTL

\* When the worker's file has been removed, no thread is left to write it again.
THEOREM FileStaysRemoved == LifespanSpec => []NoLateWrite
<1>1. LifespanIInv => NoLateWrite
  BY DEF LifespanIInv, Sampled, NoLateWrite, Sampling
<1> QED
  BY <1>1, LifespanInvariance, PTL

\* Business resources are torn down when every background thread has ended and
\* the journal is flushed, or none was ever started.
THEOREM ThreadsFirst == LifespanSpec => []TeardownAfterThreads
<1>1. ASSUME LifespanIInv, at \in After
      PROVE  ~Flushing /\ \A w \in Worker : thread[w] \notin {"starting", "running"}
  <2>1. CASE retirement = "none" /\ Untouched
    BY <2>1 DEF Untouched, Flushing
  <2>2. CASE retirement \in {"ok", "error"}
    BY <1>1, <2>2 DEF LifespanIInv, Awaited, StartedEnded
  <2> QED
    BY <1>1, <2>1, <2>2 DEF LifespanIInv, Placed
<1>2. LifespanIInv => TeardownAfterThreads
  BY <1>1 DEF TeardownAfterThreads, After
<1> QED
  BY <1>2, LifespanInvariance, PTL

\* What ended the start or the service reaches business teardown as it was, or
\* the cancellation of stop() does, or the error of a shutdown that failed.
THEOREM ErrorsKept == LifespanSpec => TeardownUndisturbed
<1>1. ASSUME LifespanIInv, [LifespanNext]_lifespanVars, at = "stopping", at' = "teardown"
      PROVE  \/ thrown' = thrown /\ ~interrupted
             \/ thrown' = "cancelled" /\ interrupted
             \/ thrown' = "error" /\ pump = "error"
  <2>1. Stopped
    BY <1>1 DEF LifespanNext, Startup, Enter, Prepare, PrepareFails, Business, BusinessFails,
       Journal, JournalFails, Ready, ReadyFails, Shutdown, Exit, Teardown, Unsample, Cancel,
       Sampler, Wake, Queue, Stir, Refreshed, RaiseOrKeep, Return, Publication, Look, Take,
       Write, Pumping, Pump, PumpFails, Retirement, Retire, Gathered, Pumped, Thread, Accept,
       Refuse, End, From, Fail, lifespanVars
  <2> QED
    BY <1>1, <2>1 DEF Stopped, Retired, LifespanIInv, Awaited, LifespanInv, LifespanTypeOK
<1>2. LifespanIInv /\ [LifespanNext]_lifespanVars => [at = "stopping" /\ at' = "teardown" =>
                                \/ thrown' = thrown /\ ~interrupted
                                \/ thrown' = "cancelled" /\ interrupted
                                \/ thrown' = "error" /\ pump = "error"]_lifespanVars
  BY <1>1
<1> QED
  BY <1>2, LifespanInvariance, PTL DEF LifespanSpec, TeardownUndisturbed
=============================================================================
