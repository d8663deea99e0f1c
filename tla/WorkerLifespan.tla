--------------------------- MODULE WorkerLifespan ---------------------------
(* service.py: the lifespan of one API worker with background workers, its   *)
(* health sampler (health/sampler.py) and its background manager             *)
(* (background/manager.py).  Four tasks share the API loop: the lifespan,    *)
(* the sampler, the manager's pump and its retirement; a publication and the *)
(* background workers run on threads.  Any call may fail, and the lifespan   *)
(* may be cancelled wherever it awaits, again and again.                     *)
EXTENDS Naturals

CONSTANTS Worker,      \* the enabled background workers
          MaxCancels   \* bound: how often the lifespan is cancelled

ASSUME LifespanAssumption == MaxCancels \in Nat

VARIABLES at,          \* where the lifespan awaits, or "out" of worker_runtime()
          thrown,      \* what is thrown into the business lifespan at its end
          cancels,     \* how often the lifespan was cancelled
          interrupted, \* CancelledError awaits its next step
          file,        \* workers/<pid>.json is there
          managed,     \* self.background_manager is not None
          sampler,     \* where refresh() is: in the lifespan first, then in its task
          stirred,     \* CancelledError awaits the sampler's next step
          caught,      \* refresh(): cancellation is not None
          publication, \* the thread that publishes the worker's state
          thread,      \* the background threads
          told,        \* their stop() was called
          pump,        \* the manager's publish()
          retirement   \* the manager's retire()
samplerVars == <<sampler, stirred, caught, publication>>
managerVars == <<thread, told, pump, retirement>>
lifespanVars == <<at, thrown, cancels, interrupted, file, managed, samplerVars, managerVars>>

LifespanTypeOK == /\ at \in {"enter", "prepare", "sampling", "business", "journal", "ready",
                             "serve", "stopping", "teardown", "unsample", "out"}
                  /\ thrown \in {"none", "error", "cancelled"}
                  /\ cancels \in 0..MaxCancels
                  /\ interrupted \in BOOLEAN /\ file \in BOOLEAN /\ managed \in BOOLEAN
                  /\ managed => at \in {"journal", "ready", "serve", "stopping", "teardown"}
                  /\ sampler \in {"none", "sleep", "snapshot", "publishing", "ended", "failed"}
                  /\ stirred \in BOOLEAN /\ caught \in BOOLEAN
                  /\ publication \in {"none", "look", "take", "write", "ok", "oserror", "error"}
                  /\ thread \in [Worker -> {"new", "starting", "running", "refused", "done"}]
                  /\ told \in BOOLEAN
                  /\ pump \in {"none", "flush", "sleep", "final", "ok", "oserror", "error"}
                  /\ retirement \in {"none", "created", "gather", "pump", "ok", "error"}

LifespanInit == /\ at = "enter" /\ thrown = "none" /\ cancels = 0 /\ interrupted = FALSE
                /\ file = FALSE /\ managed = FALSE
                /\ sampler = "none" /\ stirred = FALSE /\ caught = FALSE /\ publication = "none"
                /\ thread = [w \in Worker |-> "new"]
                /\ told = FALSE /\ pump = "none" /\ retirement = "none"

Publishing == publication \in {"look", "take", "write"}
Sampling == sampler \in {"sleep", "snapshot", "publishing"}
Flushing == pump \in {"flush", "sleep", "final"}

\* the lifespan goes on from an await; there a cancellation is raised first
From(place) == at = place /\ ~interrupted
Fail(place) == at = place /\ interrupted' = FALSE
Thrown == IF interrupted THEN "cancelled" ELSE "error"
-----------------------------------------------------------------------------
(* The lifespan starts.                                                      *)

\* worker_runtime() publishes the worker's state
Enter == /\ From("enter")
         /\ at' = "prepare"
         /\ file' = TRUE
         /\ UNCHANGED <<thrown, cancels, interrupted, managed, samplerVars, managerVars>>

\* file control and logger are there: HealthSampler.start() refreshes
Prepare == /\ From("prepare")
           /\ at' = "sampling"
           /\ sampler' = "snapshot"
           /\ UNCHANGED <<thrown, cancels, interrupted, file, managed, stirred, caught,
                          publication, managerVars>>

\* either fails: the exit of worker_runtime() removes the file
PrepareFails == /\ \E place \in {"enter", "prepare"} : Fail(place)
                /\ at' = "out"
                /\ file' = FALSE
                /\ UNCHANGED <<thrown, cancels, managed, samplerVars, managerVars>>

\* the business lifespan has started, the manager is created
Business == /\ From("business")
            /\ at' = "journal"
            /\ managed' = TRUE
            /\ UNCHANGED <<thrown, cancels, interrupted, file, samplerVars, managerVars>>

\* the `finally` of worker_lifespan, up to the first await in HealthSampler.stop()
ClearKeepsSampler == managed' = FALSE /\ UNCHANGED stirred   \* mutant: not cancelled yet
Clear == managed' = FALSE /\ stirred' = Sampling

\* it failed, or started but the service has more than one API worker
BusinessFails == /\ Fail("business")
                 /\ \/ at' = "unsample" /\ Clear /\ UNCHANGED thrown
                    \/ ~interrupted /\ at' = "teardown" /\ thrown' = "error"
                       /\ UNCHANGED <<managed, stirred>>
                 /\ UNCHANGED <<cancels, file, sampler, caught, publication, managerVars>>

\* BackgroundManager.stop(), up to its first await
Stop == at' = "stopping" /\ retirement' = "created"

\* the loop of BackgroundManager.start(): the next thread, if it can be started
LaunchNext ==
    LET New == {w \in Worker : thread[w] = "new"}
    IN  \/ /\ New = {}
           /\ at' = "serve"
           /\ UNCHANGED <<thrown, thread, retirement>>
        \/ \E w \in New : /\ thread' = [thread EXCEPT ![w] = "starting"]
                          /\ at' = "ready"
                          /\ UNCHANGED <<thrown, retirement>>
        \/ /\ New # {}
           /\ thrown' = "error"
           /\ Stop
           /\ UNCHANGED thread

\* start(): the first flush is done, the pump and the first thread start
Journal == /\ From("journal")
           /\ pump' = "flush"
           /\ LaunchNext
           /\ UNCHANGED <<cancels, interrupted, file, managed, samplerVars, told>>

JournalFails == /\ Fail("journal")
                /\ thrown' = Thrown
                /\ Stop
                /\ UNCHANGED <<cancels, file, managed, samplerVars, thread, told, pump>>

\* start(): the last thread started is ready
Ready == /\ From("ready")
         /\ \A w \in Worker : thread[w] \notin {"starting", "refused"}
         /\ pump \notin {"oserror", "error"}
         /\ LaunchNext
         /\ UNCHANGED <<cancels, interrupted, file, managed, samplerVars, told, pump>>

\* it was cancelled, it is not ready, or the pump has failed meanwhile
ReadyFails == /\ Fail("ready")
              /\ \/ interrupted
                 \/ \E w \in Worker : thread[w] = "refused"
                 \/ /\ \A w \in Worker : thread[w] # "starting"
                    /\ pump \in {"oserror", "error"}
              /\ thrown' = Thrown
              /\ Stop
              /\ UNCHANGED <<cancels, file, managed, samplerVars, thread, told, pump>>
-----------------------------------------------------------------------------
(* The lifespan ends.                                                        *)

\* the server leaves `yield`, or throws the cancellation there
Shutdown == /\ Fail("serve")
            /\ thrown' = IF interrupted THEN "cancelled" ELSE "none"
            /\ Stop
            /\ UNCHANGED <<cancels, file, managed, samplerVars, thread, told, pump>>

\* stop(): a cancellation waits, however often it comes, until the retirement is over
RetiredOrCancelled == retirement \in {"ok", "error"} \/ interrupted   \* mutant: it does not wait
Retired == retirement \in {"ok", "error"}
Stopped == /\ Fail("stopping")
           /\ Retired
           /\ at' = "teardown"
           /\ thrown' = IF retirement = "error" THEN "error"
                        ELSE IF interrupted THEN "cancelled" ELSE thrown
           /\ UNCHANGED <<cancels, file, managed, samplerVars, managerVars>>

\* the business lifespan after its `yield`, whether it returns, fails or is cancelled
Teardown == /\ Fail("teardown")
            /\ at' = "unsample"
            /\ Clear
            /\ UNCHANGED <<thrown, cancels, file, sampler, caught, publication, managerVars>>

\* stop() of the sampler returns or raises; the exit of worker_runtime() follows at once
Unsample == /\ Fail("unsample")
            /\ ~Sampling
            /\ at' = "out"
            /\ file' = FALSE
            /\ UNCHANGED <<thrown, cancels, managed, samplerVars, managerVars>>

\* task.cancel() of the lifespan, which goes on to the task or call it awaits
Cancel == /\ at # "out"
          /\ cancels < MaxCancels
          /\ cancels' = cancels + 1
          /\ IF at \in {"sampling", "unsample"} /\ Sampling
             THEN stirred' = TRUE /\ UNCHANGED interrupted
             ELSE interrupted' = TRUE /\ UNCHANGED stirred
          /\ UNCHANGED <<at, thrown, file, managed, sampler, caught, publication, managerVars>>
-----------------------------------------------------------------------------
(* HealthSampler.                                                            *)

\* refresh() ends: the first one is a call of the lifespan, the others of the task
Return(to) == IF at = "sampling"
              THEN /\ sampler' = IF to = "sleep" THEN "sleep" ELSE "none"
                   /\ at' = IF to = "sleep" THEN "business" ELSE "out"
                   /\ file' = (file /\ to = "sleep")
              ELSE /\ sampler' = to
                   /\ UNCHANGED <<at, file>>

\* run(): the interval is over
Wake == /\ sampler = "sleep" /\ ~stirred
        /\ sampler' = "snapshot"
        /\ UNCHANGED <<at, thrown, cancels, interrupted, file, managed, stirred, caught,
                       publication, managerVars>>

\* refresh(): the metrics are there, a thread publishes
Queue == /\ sampler = "snapshot" /\ ~stirred
         /\ sampler' = "publishing"
         /\ publication' = "look"
         /\ UNCHANGED <<at, thrown, cancels, interrupted, file, managed, stirred, caught,
                        managerVars>>

\* CancelledError: outside the publication it is raised, else it is kept
RaiseAtOnce ==   \* mutant: it is raised although a thread publishes
    Return("ended") /\ UNCHANGED caught
RaiseOrKeep == \/ /\ sampler # "publishing"
                  /\ Return("ended")
                  /\ UNCHANGED caught
               \/ /\ sampler = "publishing"
                  /\ caught' = TRUE
                  /\ UNCHANGED <<at, file, sampler>>
Stir == /\ Sampling /\ stirred
        /\ stirred' = FALSE
        /\ RaiseOrKeep
        /\ UNCHANGED <<thrown, cancels, interrupted, managed, publication, managerVars>>

\* the publication is over: its error is raised, unless refresh() was cancelled
Refreshed == /\ sampler = "publishing" /\ ~stirred /\ ~Publishing
             /\ caught' = FALSE
             /\ Return(IF caught THEN "ended"
                       ELSE IF publication = "ok" \/ (publication = "oserror" /\ at # "sampling")
                            THEN "sleep" ELSE "failed")
             /\ UNCHANGED <<thrown, cancels, interrupted, managed, stirred, publication,
                            managerVars>>

\* publish() on its thread: is there a manager, its snapshot(), the file
Look == /\ publication = "look"
        /\ publication' = IF managed THEN "take" ELSE "write"
        /\ UNCHANGED <<at, thrown, cancels, interrupted, file, managed, sampler, stirred,
                       caught, managerVars>>
Take == /\ publication = "take"
        /\ publication' = IF managed THEN "write" ELSE "error"   \* None has no snapshot()
        /\ UNCHANGED <<at, thrown, cancels, interrupted, file, managed, sampler, stirred,
                       caught, managerVars>>
Write == /\ publication = "write"
         /\ \/ publication' = "ok" /\ file' = TRUE
            \/ publication' = "oserror" /\ UNCHANGED file
         /\ UNCHANGED <<at, thrown, cancels, interrupted, managed, sampler, stirred, caught,
                        managerVars>>
-----------------------------------------------------------------------------
(* BackgroundManager.                                                        *)

\* publish(): it flushes again and again, and once more after `finished`
Finished == retirement \in {"pump", "ok", "error"}
Pump == /\ \/ pump = "flush" /\ pump' = "sleep"
           \/ pump = "sleep" /\ pump' = IF Finished THEN "final" ELSE "flush"
           \/ pump = "final" /\ pump' = "ok"
        /\ UNCHANGED <<at, thrown, cancels, interrupted, file, managed, samplerVars, thread,
                       told, retirement>>

\* a flush fails: the workers stop, and unless the worker is retired already the
\* service is asked to, which may fail with an error of its own
PumpFails == /\ pump \in {"flush", "final"}
             /\ told' = TRUE
             /\ \/ pump' = "oserror"
                \/ retirement = "none" /\ pump' = "error"
             /\ UNCHANGED <<at, thrown, cancels, interrupted, file, managed, samplerVars,
                            thread, retirement>>

\* retire(): stop every thread, and await those that have started
Retire == /\ retirement = "created"
          /\ retirement' = "gather"
          /\ told' = TRUE
          /\ UNCHANGED <<at, thrown, cancels, interrupted, file, managed, samplerVars, thread,
                         pump>>
AllEnded == \A w \in Worker : thread[w] \in {"refused", "done"}   \* mutant: also those not started
StartedEnded == \A w \in Worker : thread[w] \in {"new", "refused", "done"}
Gathered == /\ retirement = "gather"
            /\ StartedEnded
            /\ retirement' = "pump"
            /\ UNCHANGED <<at, thrown, cancels, interrupted, file, managed, samplerVars, thread,
                           told, pump>>

\* retire(): the pump is over; its OSError was reported already
AnyErrorRaised ==   \* mutant: it is raised again
    retirement' = IF pump \in {"oserror", "error"} THEN "error" ELSE "ok"
OwnErrorRaised == retirement' = IF pump = "error" THEN "error" ELSE "ok"
Pumped == /\ retirement = "pump"
          /\ ~Flushing
          /\ OwnErrorRaised
          /\ UNCHANGED <<at, thrown, cancels, interrupted, file, managed, samplerVars, thread,
                         told, pump>>

\* a thread reports that it is ready or why not, and ends, asked or not
Accept(w) == /\ thread[w] = "starting"
             /\ thread' = [thread EXCEPT ![w] = "running"]
             /\ UNCHANGED <<at, thrown, cancels, interrupted, file, managed, samplerVars, told,
                            pump, retirement>>
Refuse(w) == /\ thread[w] = "starting"
             /\ thread' = [thread EXCEPT ![w] = "refused"]
             /\ UNCHANGED <<at, thrown, cancels, interrupted, file, managed, samplerVars, told,
                            pump, retirement>>
End(w) == /\ thread[w] = "running"
          /\ thread' = [thread EXCEPT ![w] = "done"]
          /\ UNCHANGED <<at, thrown, cancels, interrupted, file, managed, samplerVars, told,
                         pump, retirement>>
-----------------------------------------------------------------------------
Startup == Enter \/ Prepare \/ PrepareFails \/ Business \/ BusinessFails \/ Journal
           \/ JournalFails \/ Ready \/ ReadyFails
Exit == Stopped \/ Teardown \/ Unsample
Sampler == Wake \/ Queue \/ Stir \/ Refreshed
Publication == Look \/ Take \/ Write
Pumping == Pump \/ PumpFails
Retirement == Retire \/ Gathered \/ Pumped
Thread(w) == Accept(w) \/ Refuse(w) \/ End(w)
LifespanNext == Startup \/ Shutdown \/ Exit \/ Cancel \/ Sampler \/ Publication \/ Pumping
                \/ Retirement \/ \E w \in Worker : Thread(w)
LifespanSpec == LifespanInit /\ [][LifespanNext]_lifespanVars

(* What a task awaits comes; a background thread starts or not, and ends when *)
(* told (docs/background-workers.md).  The server may serve for ever.         *)
LifespanFairSpec == /\ LifespanSpec
                    /\ WF_lifespanVars(Startup) /\ WF_lifespanVars(Exit)
                    /\ WF_lifespanVars(Sampler) /\ WF_lifespanVars(Publication)
                    /\ WF_lifespanVars(Pumping) /\ WF_lifespanVars(Retirement)
                    /\ \A w \in Worker : WF_lifespanVars(\/ Accept(w) \/ Refuse(w)
                                                         \/ told /\ End(w))
-----------------------------------------------------------------------------
(* When worker_runtime() has removed the worker's file, no thread is left    *)
(* that would publish it again (sampler.py: "Cancellation cannot abandon a   *)
(* publication thread which could recreate worker state").                   *)
NoLateWrite == at = "out" => ~file /\ ~Publishing

(* When business resources are torn down, every background thread has ended  *)
(* and the journal is flushed, although the lifespan may have been cancelled *)
(* repeatedly meanwhile (manager.py: "Retire every thread before             *)
(* caller-owned business resources are torn down").                          *)
TeardownAfterThreads == at \in {"teardown", "unsample", "out"} =>
                            ~Flushing /\ \A w \in Worker : thread[w] \notin {"starting", "running"}

(* The sampler ends by cancellation only: a publication that finds a manager *)
(* and sees it vanish before its snapshot fails with an AttributeError, but  *)
(* then refresh() has always been cancelled and absorbs it.                  *)
SamplerSurvives == sampler # "failed"

\* What holds of the lifespan's variables and the sampler at all times.
LifespanInv == LifespanTypeOK /\ SamplerSurvives

(* Business teardown sees what ended the start or the service, or the        *)
(* cancellation of stop(), which is not lost; a failed publication of the    *)
(* journal never reaches it, unless the shutdown it asks for failed as well. *)
TeardownUndisturbed == [][at = "stopping" /\ at' = "teardown" =>
                            \/ thrown' = thrown /\ ~interrupted
                            \/ thrown' = "cancelled" /\ interrupted
                            \/ thrown' = "error" /\ pump = "error"]_lifespanVars

(* A lifespan that does not serve comes to an end or serves, whichever call  *)
(* failed and whatever was cancelled.                                        *)
LifespanEnds == at # "serve" ~> at \in {"serve", "out"}
=============================================================================
