--------------------------- MODULE ExamplesProofs ---------------------------
(* Theorems about the two example services: the page of the playground with  *)
(* its replay (Workbench), and the feed of the directory monitor             *)
(* (DirectoryObservatory).                                                   *)
EXTENDS Workbench, DirectoryObservatory, WellFoundedInduction, TLAPS

(* What the page of the playground keeps right in every order of clicks,     *)
(* answers, losses, reloads and restarts, for any number of functions in     *)
(* progress, sessions, programs and events; and what a user sees who waits   *)
(* for every answer.                                                         *)

(* Layer 1: the replay, which is moved by its own steps or given a new trace. *)

\* The cursor is the one last drawn, or "Play" has set it before the first event.
Placed == /\ trace \in Lengths \cup {0} /\ recorded \in Lengths \cup {0}
          /\ cursor \in Int /\ drawn \in Int
          /\ trace > 0 => recorded = trace
          /\ drawn >= -2 /\ cursor \in {drawn, -1}
          /\ trace > 0 => drawn \in -2..(trace - 1)
          /\ drawn < 0 => cursor = drawn
\* The timer has an event to show.
Running == timer => cursor < 0 \/ cursor < trace - 1
Watched == Placed /\ Running /\ timer \in BOOLEAN
Moved == \/ Watch \/ Halt \/ Clear \/ Reset
         \/ \E n \in Lengths : Record(n)
         \/ UNCHANGED replay

LEMMA InitWatched == ReplayInit => Watched
<1> SUFFICES ASSUME ReplayInit PROVE Watched
  OBVIOUS
<1>1. trace = 0 /\ recorded = 0 /\ cursor = 0 /\ drawn = 0 /\ timer = FALSE
  BY DEF ReplayInit
<1>2. Placed
  BY <1>1 DEF Placed
<1>3. timer \in BOOLEAN /\ Running
  BY <1>1 DEF Running
<1> QED
  BY <1>2, <1>3 DEF Watched

LEMMA WatchedStep == ASSUME Watched, Moved PROVE Watched'
<1> USE ReplayAssumption
<1>0. Placed /\ Running /\ timer \in BOOLEAN
  BY DEF Watched
<1>1. trace \in Int /\ recorded \in Int
  BY <1>0 DEF Placed
<1>2. \/ Previous \/ Forward \/ Slide \/ Play \/ Tick \/ Halt \/ Clear \/ Reset
      \/ \E n \in Lengths : Record(n)
      \/ UNCHANGED replay
  BY DEF Moved, Watch
<1>3. timer' \in BOOLEAN
  BY <1>0, <1>2
  DEF Previous, Forward, Slide, Play, Tick, Halt, Clear, Reset, Record, Move, Step, replay
<1>4. Placed'
  <2>1. CASE Previous
    BY <1>0, <1>1, <2>1 DEF Placed, Previous, PreviousOn, Move, Step
  <2>2. CASE Forward
    BY <1>0, <1>1, <2>2 DEF Placed, Forward, NextOn, Move, Step
  <2>3. CASE Slide
    BY <1>0, <1>1, <2>3 DEF Placed, Slide, Move, Step
  <2>4. CASE Play
    BY <1>0, <1>1, <2>4 DEF Placed, Play, PlayOn, Rewound, Running
  <2>5. CASE Tick
    BY <1>0, <1>1, <2>5 DEF Placed, Tick, Step, Running
  <2>6. CASE Clear
    BY <1>0, <1>1, <2>6 DEF Placed, Clear, Step
  <2>7. ASSUME NEW n \in Lengths, Record(n) PROVE Placed'
    BY <2>7 DEF Placed, Record, Step
  <2>8. CASE Halt \/ Reset \/ UNCHANGED replay
    BY <1>0, <2>8 DEF Placed, Halt, Reset, replay
  <2> QED
    BY <1>2, <2>1, <2>2, <2>3, <2>4, <2>5, <2>6, <2>7, <2>8
<1>5. Running'
  <2>1. Previous \/ Forward \/ Slide \/ Halt \/ Reset \/ (\E n \in Lengths : Record(n)) => ~timer'
    BY DEF Previous, Forward, Slide, Halt, Reset, Record, Move, Step
  <2>2. CASE Play
    BY <1>0, <1>1, <2>2 DEF Placed, Play, PlayOn, Rewound, Running
  <2>3. CASE Tick
    BY <1>0, <1>1, <2>3 DEF Placed, Tick, Step, Running
  <2>4. CASE Clear
    BY <1>0, <1>1, <2>4 DEF Placed, Clear, Step, Running
  <2>5. CASE UNCHANGED replay
    BY <1>0, <2>5 DEF replay, Running
  <2> QED
    BY <1>2, <2>1, <2>2, <2>3, <2>4, <2>5 DEF Running
<1> QED
  BY <1>3, <1>4, <1>5 DEF Watched
-----------------------------------------------------------------------------
(* Layer 2: types.  A call has what its request needs and what the service   *)
(* answers to it.                                                            *)

Replies(do) == CASE do = "create"   -> Id
                 [] do = "read"     -> Session
                 [] do = "evaluate" -> [program : Text \cup {None}, trace : Lengths]
                 [] OTHER           -> Session
Exchange == {r \in Request : /\ r.do = "parse" => r.text \in Text
                             /\ r.at = "answered" => r.reply \in Replies(r.do) \cup {Refused}}
Calls == calls \in [Call -> Exchange \cup {None}]
Fields == /\ session \in Id \cup {None} /\ report \in Text \cup {None}
          /\ text \in Text /\ shown = text
Flags == /\ evaluateOff \in BOOLEAN /\ parseOff \in BOOLEAN /\ leaving \in BOOLEAN
         /\ overlapped \in BOOLEAN /\ calm \in BOOLEAN
Service == sessions \in [Id -> Session \cup {None}] /\ idle \subseteq Id
Typed == Calls /\ Fields /\ Flags /\ Service

LEMMA Apart == None \notin Text /\ None \notin Id /\ Refused # None
  BY WorkbenchAssumption

\* a request, when it is sent
LEMMA SentOK == ASSUME NEW do \in {"create", "delete", "read", "parse", "evaluate"},
                       NEW fresh \in BOOLEAN, NEW id \in Id \cup {None}
                PROVE  /\ Sent(do, fresh, id) \in Request
                       /\ do # "parse" => Sent(do, fresh, id) \in Exchange
                       /\ Sent(do, fresh, id).do = do /\ Sent(do, fresh, id).at = "sent"
                       /\ Sent(do, fresh, id).id = id /\ Sent(do, fresh, id).fresh = fresh
<1>1. Sent(do, fresh, id) = [do |-> do, fresh |-> fresh, id |-> id, text |-> None, at |-> "sent",
                             reply |-> None]
  BY DEF Sent
<1>2. Sent(do, fresh, id) \in Request
  BY <1>1 DEF Request
<1> QED
  BY <1>1, <1>2 DEF Exchange

LEMMA StartOK == ASSUME NEW id \in Id \cup {None}, NEW fresh \in BOOLEAN
                 PROVE  /\ Start(id, fresh) \in Exchange /\ Start(id, fresh).at = "sent"
                        /\ Start(id, fresh).do \in {"create", "delete", "read"}
<1>1. Sent("create", fresh, None) \in Exchange /\ Sent("create", fresh, None).at = "sent"
      /\ Sent("create", fresh, None).do = "create"
  BY SentOK
<1>2. Sent("delete", fresh, id) \in Exchange /\ Sent("delete", fresh, id).at = "sent"
      /\ Sent("delete", fresh, id).do = "delete"
  BY SentOK
<1>3. Sent("read", fresh, id) \in Exchange /\ Sent("read", fresh, id).at = "sent"
      /\ Sent("read", fresh, id).do = "read"
  BY SentOK
<1> QED
  BY <1>1, <1>2, <1>3 DEF Start

LEMMA ParseOK == ASSUME NEW t \in Text, NEW id \in Id \cup {None}
                 PROVE  LET r == [Sent("parse", FALSE, id) EXCEPT !.text = t]
                        IN  /\ r \in Exchange /\ r.do = "parse" /\ r.text = t /\ r.at = "sent"
                            /\ r.id = id
<1> DEFINE r == [Sent("parse", FALSE, id) EXCEPT !.text = t]
<1>1. /\ Sent("parse", FALSE, id) \in Request /\ Sent("parse", FALSE, id).do = "parse"
      /\ Sent("parse", FALSE, id).at = "sent" /\ Sent("parse", FALSE, id).id = id
  BY SentOK
<1>2. r \in Request /\ r.do = "parse" /\ r.text = t /\ r.at = "sent" /\ r.id = id
  BY <1>1 DEF Request
<1> QED
  BY <1>2 DEF Exchange

\* an answer leaves a call as it is but for the answer
LEMMA RepliesOK == ASSUME NEW do PROVE Replies(do) \subseteq Session \cup Id
<1>1. ASSUME NEW r \in [program : Text \cup {None}, trace : Lengths] PROVE r \in Session
  BY DEF Session
<1>2. Replies(do) \in {Id, Session, [program : Text \cup {None}, trace : Lengths]}
  BY DEF Replies
<1> QED
  BY <1>1, <1>2

LEMMA AnswerOK == ASSUME NEW r \in Exchange, NEW reply \in Replies(r.do) \cup {Refused}
                  PROVE  LET a == [r EXCEPT !.at = "answered", !.reply = reply]
                         IN  /\ a \in Exchange /\ a.at = "answered" /\ a.reply = reply
                             /\ a.do = r.do /\ a.text = r.text /\ a.id = r.id /\ a.fresh = r.fresh
<1> DEFINE a == [r EXCEPT !.at = "answered", !.reply = reply]
<1>1. reply \in Session \cup Id \cup {None, Refused}
  BY RepliesOK
<1>2. /\ a \in Request /\ a.at = "answered" /\ a.reply = reply
      /\ a.do = r.do /\ a.text = r.text /\ a.id = r.id /\ a.fresh = r.fresh
  BY <1>1 DEF Exchange, Request
<1> QED
  BY <1>2 DEF Exchange

LEMMA OrphanOK == ASSUME NEW r \in Exchange
                  PROVE  LET a == [r EXCEPT !.at = "orphan"] IN a \in Exchange /\ a.at = "orphan"
<1> DEFINE a == [r EXCEPT !.at = "orphan"]
<1>1. a \in Request /\ a.do = r.do /\ a.text = r.text /\ a.at = "orphan"
  BY DEF Exchange, Request
<1> QED
  BY <1>1 DEF Exchange

\* What the service does is an answer to one request, of the kind it asks for.
Served(c) == /\ c \in Requested /\ UNCHANGED <<page, history>>
             /\ \E reply \in Replies(calls[c].do) \cup {Refused} : Answer(c, reply)
             /\ Service'

LEMMA KeptOK == ASSUME Service
                PROVE  /\ Kept \in [Id -> Session \cup {None}]
                       /\ \A s \in Id, was \in Session \cup {None} :
                             [Kept EXCEPT ![s] = was] \in [Id -> Session \cup {None}]
  BY DEF Kept, Service

LEMMA ServeOK == ASSUME Typed, NEW c \in Call, Serve(c) PROVE Served(c)
<1>0. /\ Service /\ (c \in Requested => calls[c] \in Exchange)
      /\ \A t \in Text : Program(t) \in Session
      /\ Nothing \in Session
  BY DEF Typed, Calls, Requested, Program, Nothing, Session
<1>1. ASSUME c \in Requested, UNCHANGED <<page, history>>, idle' = {},
             NEW reply \in Replies(calls[c].do) \cup {Refused}, Answer(c, reply),
             sessions' \in [Id -> Session \cup {None}]
      PROVE  Served(c)
  BY <1>1 DEF Served, Service
<1>2. CASE Create(c)
  <2>1. CASE Cardinality(Alive) >= MaxSessions
    BY <1>0, <1>1, <1>2, <2>1, KeptOK DEF Create, Command
  <2>2. CASE ~(Cardinality(Alive) >= MaxSessions)
    <3>1. PICK s \in NewIds : Answer(c, s) /\ sessions' = [Kept EXCEPT ![s] = Nothing]
      BY <1>2, <2>2 DEF Create
    <3>2. s \in Id /\ s \in Replies(calls[c].do)
      BY <1>2, <3>1 DEF NewIds, Create, Command, Replies
    <3> QED
      BY <1>0, <1>1, <1>2, <3>1, <3>2, KeptOK DEF Create, Command
  <2> QED
    BY <2>1, <2>2
<1>3. CASE Delete(c)
  <2>1. Nothing \in Replies(calls[c].do) /\ calls[c].id \in Id
    BY <1>0, <1>3 DEF Delete, Command, Replies, Found, Alive
  <2> QED
    BY <1>0, <1>1, <1>3, <2>1, KeptOK DEF Delete, Command
<1>4. CASE Read(c)
  <2>1. sessions[calls[c].id] \in Replies(calls[c].do)
    BY <1>0, <1>4 DEF Read, Command, Replies, Found, Alive, Service
  <2> QED
    BY <1>0, <1>1, <1>4, <2>1, KeptOK DEF Read, Command
<1>5. CASE ParseProgram(c)
  <2>1. calls[c].text \in Text /\ calls[c].id \in Id /\ calls[c].do = "parse"
    BY <1>0, <1>5 DEF ParseProgram, Command, Found, Alive, Exchange
  <2>2. Nothing \in Replies(calls[c].do) /\ Program(calls[c].text) \in Replies(calls[c].do)
    BY <1>0, <2>1 DEF Replies
  <2>3. CASE calls[c].text \in Broken
    BY <1>0, <1>1, <1>5, <2>2, <2>3, KeptOK DEF ParseProgram, Command
  <2>4. CASE calls[c].text \notin Broken
    BY <1>0, <1>1, <1>5, <2>1, <2>2, <2>4, KeptOK DEF ParseProgram, Command
  <2> QED
    BY <2>3, <2>4
<1>6. CASE EvaluateProgram(c)
  <2>1. calls[c].id \in Id /\ calls[c].do = "evaluate" /\ sessions[calls[c].id] \in Session
    BY <1>0, <1>6 DEF EvaluateProgram, Command, Found, Alive, Service
  <2>2. CASE sessions[calls[c].id].program = None
    BY <1>0, <1>1, <1>6, <2>2, KeptOK DEF EvaluateProgram, Command
  <2>3. CASE sessions[calls[c].id].program # None
    <3>1. PICK n \in Lengths : LET new == [sessions[calls[c].id] EXCEPT !.trace = n]
                               IN Answer(c, new) /\ sessions' = [Kept EXCEPT ![calls[c].id] = new]
      BY <1>6, <2>3 DEF EvaluateProgram
    <3> DEFINE new == [sessions[calls[c].id] EXCEPT !.trace = n]
    <3>2. new \in [program : Text \cup {None}, trace : Lengths] /\ new \in Session
      BY <2>1 DEF Session
    <3>3. new \in Replies(calls[c].do)
      BY <2>1, <3>2 DEF Replies
    <3> QED
      BY <1>0, <1>1, <1>6, <2>1, <3>1, <3>2, <3>3, KeptOK DEF EvaluateProgram, Command
  <2> QED
    BY <2>2, <2>3
<1>7. CASE Missing(c)
  BY <1>0, <1>1, <1>7, KeptOK DEF Missing, Command
<1> QED
  BY <1>2, <1>3, <1>4, <1>5, <1>6, <1>7 DEF Serve
-----------------------------------------------------------------------------
\* what follows an await ends the call, or creates a session
LEMMA Goes == ASSUME NEW c \in Call, Continue(c)
              PROVE  Go(c, None) \/ \E fresh \in BOOLEAN : Go(c, Sent("create", fresh, None))
<1>1. Deleted(c) => \E fresh \in BOOLEAN : Go(c, Sent("create", fresh, None))
  BY DEF Deleted
<1>2. Restored(c) => Go(c, None) \/ Go(c, Sent("create", FALSE, None))
  BY DEF Restored
<1>3. Created(c) \/ Parsed(c) \/ Replayed(c) => Go(c, None)
  BY DEF Created, Parsed, Replayed
<1> QED
  BY <1>1, <1>2, <1>3 DEF Continue

LEMMA CallsStep == ASSUME Typed, [Next]_vars PROVE Calls'
<1>0. Calls /\ session \in Id \cup {None} /\ text \in Text
  BY DEF Typed, Fields
<1>1. ASSUME NEW c \in Call, NEW r \in Exchange \cup {None}, calls' = [calls EXCEPT ![c] = r]
      PROVE  Calls'
  BY <1>0, <1>1 DEF Calls
<1>2. ASSUME UNCHANGED calls PROVE Calls'
  BY <1>0, <1>2 DEF Calls
<1>3. ASSUME NEW c \in Call, NewSession(c) PROVE Calls'
  BY <1>0, <1>1, <1>3, StartOK DEF NewSession, Begin
<1>4. ASSUME NEW c \in Call, Parse(c) PROVE Calls'
  BY <1>0, <1>1, <1>4, ParseOK DEF Parse, Begin
<1>5. ASSUME NEW c \in Call, Evaluate(c) PROVE Calls'
  BY <1>0, <1>1, <1>5, SentOK DEF Evaluate, Begin
<1>6. ASSUME NEW c \in Call, Serve(c) PROVE Calls'
  <2>1. Served(c)
    BY <1>6, ServeOK
  <2>2. calls[c] \in Exchange
    BY <1>0, <2>1 DEF Served, Requested, Calls
  <2>3. PICK reply \in Replies(calls[c].do) \cup {Refused} : Answer(c, reply)
    BY <2>1 DEF Served
  <2>4. [calls[c] EXCEPT !.at = "answered", !.reply = reply] \in Exchange
    BY <2>2, AnswerOK
  <2> QED
    BY <1>1, <2>3, <2>4 DEF Answer
<1>7. ASSUME NEW c \in Call, Lose(c) PROVE Calls'
  <2>1. calls[c] \in Exchange
    BY <1>0, <1>7 DEF Lose, InProgress, Calls
  <2>2. [calls[c] EXCEPT !.at = "answered", !.reply = Refused] \in Exchange
    BY <2>1, AnswerOK
  <2>3. calls' = [calls EXCEPT ![c] = [calls[c] EXCEPT !.at = "answered", !.reply = Refused]]
    BY <1>7 DEF Lose
  <2> QED
    BY <1>1, <2>2, <2>3
<1>8. ASSUME NEW c \in Call, Continue(c) PROVE Calls'
  <2>1. Go(c, None) \/ \E fresh \in BOOLEAN : Go(c, Sent("create", fresh, None))
    BY <1>8, Goes
  <2> QED
    BY <1>1, <2>1, SentOK DEF Go
<1>9. ASSUME Load PROVE Calls'
  <2>1. PICK c \in Call :
          calls' = [d \in Call |-> IF d = c THEN Start(session, FALSE)
                                   ELSE IF d \in Requested THEN [calls[d] EXCEPT !.at = "orphan"]
                                   ELSE None]
    BY <1>9 DEF Load
  <2>2. \A d \in Requested : calls[d] \in Exchange
    BY <1>0 DEF Requested, Calls
  <2> QED
    BY <1>0, <2>1, <2>2, StartOK, OrphanOK DEF Calls
<1> QED
  BY <1>2, <1>3, <1>4, <1>5, <1>6, <1>7, <1>8, <1>9
  DEF Next, Type, Pick, Write, Restart, Idle, vars

LEMMA FieldsStep == ASSUME Typed, [Next]_vars PROVE Fields'
<1>0. Fields /\ Calls
  BY DEF Typed
<1>1. ASSUME UNCHANGED <<session, report, text, shown>> PROVE Fields'
  BY <1>0, <1>1 DEF Fields
<1>2. ASSUME NEW t \in Text, Type(t) \/ Pick(t) PROVE Fields'
  BY <1>0, <1>2 DEF Type, Pick, Write, Fields
<1>3. ASSUME NEW c \in Call, NewSession(c) \/ Parse(c) \/ Evaluate(c) \/ Lose(c) \/ Deleted(c)
      PROVE  Fields'
  BY <1>1, <1>3 DEF NewSession, Parse, Evaluate, Lose, Deleted, page, form
<1>4. ASSUME NEW c \in Call, Serve(c) PROVE Fields'
  BY <1>1, <1>4, ServeOK DEF Served, page, form
<1>5. ASSUME NEW c \in Call, Restored(c) PROVE Fields'
  <2>1. calls[c].reply \in Session \cup {Refused}
    BY <1>0, <1>5 DEF Restored, Answered, Calls, Exchange, Replies
  <2>2. CASE UNCHANGED page
    BY <1>1, <2>2 DEF page, form
  <2>3. CASE ~UNCHANGED page
    <3>1. calls[c].reply \in Session /\ calls[c].reply.program # None
      BY <1>5, <2>1, <2>3 DEF Restored
    <3>2. calls[c].reply.program \in Text
      BY <3>1 DEF Session
    <3> QED
      BY <1>0, <1>5, <2>3, <3>2 DEF Restored, Display, Fields
  <2> QED
    BY <2>2, <2>3
<1>6. ASSUME NEW c \in Call, Created(c) PROVE Fields'
  <2>1. calls[c].reply \in Id \cup {Refused}
    BY <1>0, <1>6 DEF Created, Answered, Calls, Exchange, Replies
  <2> QED
    BY <1>0, <1>1, <1>6, <2>1 DEF Created, Fields, page, form
<1>7. ASSUME NEW c \in Call, Parsed(c) PROVE Fields'
  <2>1. calls[c].text \in Text
    BY <1>0, <1>7 DEF Parsed, Answered, Calls, Exchange
  <2> QED
    BY <1>0, <1>7, <2>1 DEF Parsed, Display, Fields
<1>8. ASSUME NEW c \in Call, Replayed(c) PROVE Fields'
  BY <1>1, <1>8 DEF Replayed
<1>9. ASSUME Load PROVE Fields'
  BY <1>0, <1>9 DEF Load, Fields
<1> QED
  BY <1>1, <1>2, <1>3, <1>4, <1>5, <1>6, <1>7, <1>8, <1>9
  DEF Next, Continue, Restart, Idle, vars, page, form

LEMMA FlagsStep == ASSUME Typed, [Next]_vars PROVE Flags'
<1>0. Flags
  BY DEF Typed
<1>1. \A c \in Call : Serve(c) => UNCHANGED <<page, history>>
  BY ServeOK DEF Served
<1> USE DEF Next, Type, Pick, Write, NewSession, Begin, Parse, Evaluate, Lose, Continue, Deleted,
            Restored, Created, Parsed, Replayed, Answered, Load, Restart, Idle,
            vars, page, form, history
<1>2. parseOff' \in BOOLEAN
  BY <1>0, <1>1 DEF Flags
<1>3. evaluateOff' \in BOOLEAN
  BY <1>0, <1>1 DEF Flags, Display, Unparsed
<1>4. leaving' \in BOOLEAN
  BY <1>0, <1>1 DEF Flags
<1>5. overlapped' \in BOOLEAN
  BY <1>0, <1>1 DEF Flags
<1>6. calm' \in BOOLEAN
  BY <1>0, <1>1 DEF Flags, Waited
<1> QED
  BY <1>2, <1>3, <1>4, <1>5, <1>6 DEF Flags

LEMMA ServiceStep == ASSUME Typed, [Next]_vars PROVE Service'
<1>0. Service
  BY DEF Typed
<1>1. \A c \in Call : Serve(c) => Service'
  BY ServeOK DEF Served
<1>2. Restart \/ (\E s \in Id : Idle(s)) => Service'
  BY <1>0 DEF Restart, Idle, Alive, Service
<1>3. UNCHANGED server => Service'
  BY <1>0 DEF server, Service
<1> QED
  BY <1>1, <1>2, <1>3
  DEF Next, Type, Pick, Write, NewSession, Begin, Parse, Evaluate, Lose, Continue, Deleted,
      Restored, Created, Parsed, Replayed, Answered, Load, vars

\* Whatever the page does, the replay moves by itself or gets a new trace.
LEMMA AlwaysMoved == ASSUME Typed, [Next]_vars PROVE Moved
<1>0. Calls
  BY DEF Typed
<1>1. \A c \in Call : Serve(c) => UNCHANGED replay
  BY ServeOK DEF Served, page
<1>2. ASSUME NEW c \in Call, Restored(c) PROVE Moved
  <2>1. calls[c].reply \in Session \cup {Refused}
    BY <1>0, <1>2 DEF Restored, Answered, Calls, Exchange, Replies
  <2>2. UNCHANGED replay \/ (calls[c].reply # Refused /\ calls[c].reply.trace # None
                             /\ Record(calls[c].reply.trace))
    BY <1>2 DEF Restored, page
  <2>3. UNCHANGED replay \/ \E n \in Lengths : Record(n)
    BY <2>1, <2>2 DEF Session
  <2> QED
    BY <2>3 DEF Moved
<1>3. ASSUME NEW c \in Call, Replayed(c) PROVE Moved
  <2>1. calls[c].reply \in [program : Text \cup {None}, trace : Lengths] \cup {Refused}
    BY <1>0, <1>3 DEF Replayed, Answered, Calls, Exchange, Replies
  <2>2. UNCHANGED replay \/ (calls[c].reply # Refused /\ Record(calls[c].reply.trace))
    BY <1>3 DEF Replayed
  <2>3. UNCHANGED replay \/ \E n \in Lengths : Record(n)
    BY <2>1, <2>2
  <2> QED
    BY <2>3 DEF Moved
<1> QED
  BY <1>1, <1>2, <1>3
  DEF Moved, Next, Type, Pick, Write, NewSession, Begin, Parse, Evaluate, Lose, Continue, Deleted,
      Created, Parsed, Load, Restart, Idle, vars, page
-----------------------------------------------------------------------------
(* Layer 3: what is offered.                                                 *)

\* Unless the text has changed meanwhile, what is in progress is about it.
Pending == ~overlapped => \A c \in InProgress :
              /\ calls[c].do = "parse" => calls[c].text = text
              /\ calls[c].do = "evaluate" => report \in {None, text}
Offered == NeedsReport /\ NeverStuck /\ OfferedAsParsed /\ Pending

\* A step of one call concerns no other.
LEMMA OneCall == ASSUME Calls, NEW c \in Call, NEW r \in Exchange \cup {None},
                        calls' = [calls EXCEPT ![c] = r]
                 PROVE  /\ calls'[c] = r
                        /\ \A d \in Call \ {c} : calls'[d] = calls[d]
                        /\ \A d \in Call \ {c} : d \in InProgress' <=> d \in InProgress
                        /\ c \in InProgress' <=> r # None /\ r.at # "orphan"
  BY DEF Calls, InProgress

\* An answer, or none, changes nothing of what a call in progress was about.
LEMMA SameCalls == ASSUME Typed, NEW c \in Call, Serve(c) \/ Lose(c)
                   PROVE  /\ InProgress' = InProgress
                          /\ \A d \in InProgress : /\ calls'[d].do = calls[d].do
                                                   /\ calls'[d].text = calls[d].text
<1>0. Calls /\ None \notin Exchange
  BY AnswerAssumption DEF Typed, Exchange
<1>1. ASSUME c \in InProgress, NEW reply \in Replies(calls[c].do) \cup {Refused},
             calls' = [calls EXCEPT ![c] = [calls[c] EXCEPT !.at = "answered", !.reply = reply]]
      PROVE  /\ InProgress' = InProgress
             /\ \A d \in InProgress : calls'[d].do = calls[d].do /\ calls'[d].text = calls[d].text
  <2> DEFINE a == [calls[c] EXCEPT !.at = "answered", !.reply = reply]
  <2>1. calls[c] \in Exchange
    BY <1>0, <1>1 DEF InProgress, Calls
  <2>2. a \in Exchange /\ a.do = calls[c].do /\ a.text = calls[c].text /\ a.at = "answered"
    BY <1>1, <2>1, AnswerOK
  <2>3. a # None
    BY <1>0, <2>2
  <2>4. a \in Exchange \cup {None} /\ a # None /\ a.at # "orphan" /\ c \in Call
        /\ calls' = [calls EXCEPT ![c] = a]
    BY <1>1, <2>2, <2>3 DEF InProgress
  <2> HIDE DEF a
  <2>5. /\ calls'[c] = a /\ c \in InProgress'
        /\ \A d \in Call \ {c} : calls'[d] = calls[d] /\ (d \in InProgress' <=> d \in InProgress)
    BY <1>0, <2>4, OneCall
  <2> QED
    BY <1>1, <2>2, <2>5 DEF InProgress
<1>2. CASE Serve(c)
  <2>1. PICK reply \in Replies(calls[c].do) \cup {Refused} : Answer(c, reply)
    BY <1>2, ServeOK DEF Served
  <2>2. c \in Requested
    BY <1>2, ServeOK DEF Served
  <2>3. CASE calls[c].at = "orphan"
    <3>1. calls' = [calls EXCEPT ![c] = None] /\ c \notin InProgress
      BY <2>1, <2>3 DEF Answer, InProgress
    <3> QED
      BY <1>0, <3>1, OneCall DEF InProgress
  <2>4. CASE calls[c].at # "orphan"
    BY <1>1, <2>1, <2>2, <2>4 DEF Answer, Requested, InProgress
  <2> QED
    BY <2>3, <2>4
<1>3. CASE Lose(c)
  <2>1. calls' = [calls EXCEPT ![c] = [calls[c] EXCEPT !.at = "answered", !.reply = Refused]]
    BY <1>3 DEF Lose
  <2> QED
    BY <1>1, <1>3, <2>1 DEF Lose
<1> QED
  BY <1>2, <1>3

\* Who begins is in progress, with all others.
LEMMA BeginCalls == ASSUME Typed, NEW c \in Call, NEW r \in Exchange, r.at = "sent", Begin(c, r)
                    PROVE  /\ InProgress' = InProgress \cup {c} /\ calls'[c] = r
                           /\ \A d \in InProgress : d # c /\ calls'[d] = calls[d]
<1>1. Calls /\ r # None
  BY AnswerAssumption DEF Typed, Exchange
<1>2. calls' = [calls EXCEPT ![c] = r] /\ calls[c] = None
  BY DEF Begin
<1>3. /\ calls'[c] = r /\ c \in InProgress'
      /\ \A d \in Call \ {c} : calls'[d] = calls[d] /\ (d \in InProgress' <=> d \in InProgress)
  BY <1>1, <1>2, OneCall
<1>4. c \notin InProgress /\ InProgress \subseteq Call /\ InProgress' \subseteq Call
  BY <1>2 DEF InProgress
<1> QED
  BY <1>3, <1>4

\* Who goes on creates a session, or is no longer in progress.
LEMMA GoCalls == ASSUME Typed, NEW c \in Call, Continue(c)
                 PROVE  /\ c \in InProgress
                        /\ c \in InProgress' => calls'[c].do = "create"
                        /\ \A d \in Call \ {c} : calls'[d] = calls[d]
                                                 /\ (d \in InProgress' <=> d \in InProgress)
<1>1. Calls
  BY DEF Typed
<1>2. c \in InProgress
  BY DEF Continue, Deleted, Restored, Created, Parsed, Replayed, Answered, InProgress
<1>3. CASE Go(c, None)
  BY <1>1, <1>2, <1>3, OneCall DEF Go
<1>4. ASSUME NEW fresh \in BOOLEAN, Go(c, Sent("create", fresh, None))
      PROVE  calls'[c].do = "create" /\ \A d \in Call \ {c} : calls'[d] = calls[d]
                                                 /\ (d \in InProgress' <=> d \in InProgress)
  <2>1. Sent("create", fresh, None) \in Exchange /\ Sent("create", fresh, None).do = "create"
    BY SentOK
  <2>2. calls' = [calls EXCEPT ![c] = Sent("create", fresh, None)]
    BY <1>4 DEF Go
  <2> QED
    BY <1>1, <2>1, <2>2, OneCall
<1> QED
  BY <1>2, <1>3, <1>4, Goes

\* The user writes: nothing is offered, and nothing in progress is about this text.
LEMMA WriteOffers == ASSUME Typed, Offered, NEW t \in Text, Type(t) \/ Pick(t) PROVE Offered'
<1>1. /\ evaluateOff' = TRUE /\ overlapped' = (InProgress # {})
      /\ UNCHANGED <<calls, parseOff>>
  BY DEF Type, Pick, Write
<1>2. InProgress' = InProgress
  BY <1>1 DEF InProgress
<1>3. NeedsReport' /\ OfferedAsParsed'
  BY <1>1 DEF NeedsReport, OfferedAsParsed
<1>4. NeverStuck'
  BY <1>1, <1>2 DEF Offered, NeverStuck
<1>5. Pending'
  BY <1>1, <1>2 DEF Pending
<1> QED
  BY <1>3, <1>4, <1>5 DEF Offered

\* A button: what begins is about the text, and "Parse" is disabled only by itself.
LEMMA ButtonOffers == ASSUME Typed, Offered, NEW c \in Call,
                             NewSession(c) \/ Parse(c) \/ Evaluate(c)
                      PROVE  Offered'
<1>0. session \in Id \cup {None} /\ text \in Text
  BY DEF Typed, Fields
<1>1. UNCHANGED <<report, text, overlapped>>
  BY DEF NewSession, Parse, Evaluate, Begin
<1>2. evaluateOff' = TRUE \/ UNCHANGED evaluateOff
  BY DEF NewSession, Parse, Evaluate
<1>3. NeedsReport' /\ OfferedAsParsed'
  BY <1>1, <1>2 DEF Offered, NeedsReport, OfferedAsParsed
<1>4. PICK r \in Exchange :
        /\ r.at = "sent" /\ Begin(c, r)
        /\ \/ r.do \in {"create", "delete", "read"} /\ UNCHANGED parseOff
           \/ r.do = "parse" /\ r.text = text
           \/ r.do = "evaluate" /\ UNCHANGED parseOff /\ ~evaluateOff
  <2>1. CASE NewSession(c)
    BY <1>0, <2>1, StartOK DEF NewSession
  <2>2. CASE Parse(c)
    <3> DEFINE r == [Sent("parse", FALSE, session) EXCEPT !.text = text]
    <3>1. r \in Exchange /\ r.do = "parse" /\ r.text = text /\ r.at = "sent"
      BY <1>0, ParseOK
    <3>2. Begin(c, r)
      BY <2>2 DEF Parse
    <3> QED
      BY <3>1, <3>2
  <2>3. CASE Evaluate(c)
    <3>1. Begin(c, Sent("evaluate", FALSE, session)) /\ ~evaluateOff /\ UNCHANGED parseOff
      BY <2>3 DEF Evaluate
    <3>2. LET r == Sent("evaluate", FALSE, session)
          IN  r \in Exchange /\ r.do = "evaluate" /\ r.at = "sent"
      BY <1>0, SentOK
    <3> QED
      BY <3>1, <3>2
  <2> QED
    BY <2>1, <2>2, <2>3
<1>5. /\ InProgress' = InProgress \cup {c} /\ calls'[c] = r
      /\ \A d \in InProgress : d # c /\ calls'[d] = calls[d]
  BY <1>4, BeginCalls
<1>6. NeverStuck'
  BY <1>4, <1>5 DEF Offered, NeverStuck
<1>7. ~overlapped /\ r.do = "evaluate" => text = report
  BY <1>4 DEF Offered, OfferedAsParsed
<1>8. Pending'
  BY <1>1, <1>4, <1>5, <1>7 DEF Offered, Pending
<1> QED
  BY <1>3, <1>6, <1>8 DEF Offered

\* The service and the network do not touch the page.
LEMMA OutsideOffers == ASSUME Typed, Offered, UNCHANGED <<form, overlapped>>,
                              \/ UNCHANGED calls
                              \/ \E c \in Call : Serve(c) \/ Lose(c)
                       PROVE  Offered'
<1>1. UNCHANGED <<report, text, evaluateOff, parseOff, overlapped>>
  BY DEF form
<1>2. /\ InProgress' = InProgress
      /\ \A d \in InProgress : calls'[d].do = calls[d].do /\ calls'[d].text = calls[d].text
  BY SameCalls DEF InProgress
<1> QED
  BY <1>1, <1>2 DEF Offered, NeedsReport, NeverStuck, OfferedAsParsed, Pending

\* What follows an await.
LEMMA ContinueOffers == ASSUME Typed, Offered, NEW c \in Call, Continue(c) PROVE Offered'
<1>0. Calls /\ Fields /\ Flags /\ NeedsReport /\ NeverStuck /\ OfferedAsParsed /\ Pending
  BY DEF Typed, Offered
<1>1. /\ c \in InProgress
      /\ c \in InProgress' => calls'[c].do = "create"
      /\ \A d \in Call \ {c} : calls'[d] = calls[d] /\ (d \in InProgress' <=> d \in InProgress)
      /\ InProgress \subseteq Call /\ InProgress' \subseteq Call
  BY <1>0, GoCalls DEF InProgress
<1>2. calls[c].do # "parse" /\ UNCHANGED parseOff => NeverStuck'
  BY <1>0, <1>1 DEF NeverStuck
<1>3. ASSUME UNCHANGED <<text, overlapped>>,
             ~overlapped => report' \in {None, text} \/ report' = report
      PROVE  Pending'
  BY <1>0, <1>1, <1>3 DEF Pending
<1>4. CASE UNCHANGED <<form, overlapped>> /\ calls[c].do # "parse"
  <2>1. NeedsReport' /\ OfferedAsParsed' /\ NeverStuck'
    BY <1>0, <1>2, <1>4 DEF form, NeedsReport, OfferedAsParsed
  <2>2. Pending'
    BY <1>3, <1>4 DEF form
  <2> QED
    BY <2>1, <2>2 DEF Offered
<1>5. CASE Restored(c)
  <2>1. CASE UNCHANGED <<page, overlapped>>
    BY <1>4, <1>5, <2>1 DEF Restored, Answered, page
  <2>2. CASE ~UNCHANGED <<page, overlapped>>
    <3>1. /\ report' = text' /\ evaluateOff' = FALSE /\ UNCHANGED parseOff
          /\ overlapped' = (InProgress # {c}) /\ report' # None /\ Go(c, None)
          /\ calls[c].do # "parse"
      BY <1>5, <2>2 DEF Restored, Display, Answered
    <3>2. InProgress' = InProgress \ {c}
      <4>1. c \notin InProgress'
        BY <1>0, <3>1, OneCall DEF Go
      <4> QED
        BY <1>1, <4>1
    <3>3. NeedsReport' /\ OfferedAsParsed' /\ NeverStuck'
      BY <1>2, <3>1 DEF NeedsReport, OfferedAsParsed
    <3>4. Pending'
      BY <3>1, <3>2 DEF Pending
    <3> QED
      BY <3>3, <3>4 DEF Offered
  <2> QED
    BY <2>1, <2>2
<1>6. CASE Created(c)
  <2>1. CASE UNCHANGED page
    BY <1>4, <1>6, <2>1 DEF Created, Answered, page
  <2>2. CASE ~UNCHANGED page
    <3>1. /\ report' = None /\ evaluateOff' = TRUE /\ UNCHANGED <<text, parseOff, overlapped>>
          /\ calls[c].do # "parse"
      BY <1>6, <2>2 DEF Created, Answered
    <3>2. NeedsReport' /\ OfferedAsParsed' /\ NeverStuck' /\ Pending'
      BY <1>2, <1>3, <3>1 DEF NeedsReport, OfferedAsParsed
    <3> QED
      BY <3>2 DEF Offered
  <2> QED
    BY <2>1, <2>2
<1>7. CASE Parsed(c)
  <2>1. calls[c].text \in Text /\ (~overlapped => calls[c].text = text)
    BY <1>0, <1>1, <1>7 DEF Parsed, Answered, Calls, Exchange, Pending
  <2>2. /\ UNCHANGED <<text, overlapped>> /\ parseOff' = FALSE
        /\ \/ report' = calls[c].text /\ evaluateOff' = FALSE
           \/ UNCHANGED <<report, evaluateOff>>
    BY <1>7 DEF Parsed, Display
  <2>3. NeverStuck' /\ Pending'
    BY <1>3, <2>1, <2>2 DEF NeverStuck
  <2>4. NeedsReport' /\ OfferedAsParsed'
    BY <1>0, <2>1, <2>2, Apart DEF NeedsReport, OfferedAsParsed
  <2> QED
    BY <2>3, <2>4 DEF Offered
<1>8. CASE Replayed(c)
  <2>1. /\ UNCHANGED <<report, text, parseOff, overlapped>> /\ evaluateOff' = (report = None)
        /\ calls[c].do = "evaluate"
    BY <1>8 DEF Replayed, Unparsed, Answered
  <2>2. ~overlapped => report \in {None, text}
    BY <1>0, <1>1, <2>1 DEF Pending
  <2>3. NeverStuck' /\ Pending'
    BY <1>2, <1>3, <2>1
  <2>4. NeedsReport' /\ OfferedAsParsed'
    BY <2>1, <2>2 DEF NeedsReport, OfferedAsParsed
  <2> QED
    BY <2>3, <2>4 DEF Offered
<1>9. CASE Deleted(c)
  BY <1>4, <1>9 DEF Deleted, Answered, page
<1> QED
  BY <1>5, <1>6, <1>7, <1>8, <1>9 DEF Continue

\* A new page offers nothing, and its only call asks for a session.
LEMMA LoadOffers == ASSUME Typed, Load PROVE Offered'
<1>1. /\ evaluateOff' = TRUE /\ parseOff' = FALSE /\ session \in Id \cup {None}
  BY DEF Load, Typed, Fields
<1>2. PICK c \in Call :
        calls' = [d \in Call |-> IF d = c THEN Start(session, FALSE)
                                 ELSE IF d \in Requested THEN [calls[d] EXCEPT !.at = "orphan"]
                                 ELSE None]
  BY DEF Load
<1>3. \A d \in InProgress' : calls'[d].do \notin {"parse", "evaluate"}
  <2>1. calls'[c].do \notin {"parse", "evaluate"}
    BY <1>1, <1>2, StartOK
  <2>2. ASSUME NEW d \in Call, d # c PROVE d \notin InProgress'
    <3>1. CASE d \in Requested
      <4>1. calls[d] \in Exchange
        BY <3>1 DEF Typed, Calls, Requested
      <4>2. calls'[d].at = "orphan"
        BY <1>2, <2>2, <3>1, <4>1, OrphanOK
      <4> QED
        BY <4>2 DEF InProgress
    <3>2. CASE d \notin Requested
      BY <1>2, <2>2, <3>2 DEF InProgress
    <3> QED
      BY <3>1, <3>2
  <2> QED
    BY <2>1, <2>2 DEF InProgress
<1>4. NeedsReport' /\ NeverStuck' /\ OfferedAsParsed'
  BY <1>1 DEF NeedsReport, NeverStuck, OfferedAsParsed
<1>5. Pending'
  BY <1>3 DEF Pending
<1> QED
  BY <1>4, <1>5 DEF Offered
-----------------------------------------------------------------------------
IInv == Typed /\ Watched /\ Offered

\* The first page has no session, no report, and one call in progress.
LEMMA Initial == ASSUME Init PROVE IInv
<1>1. PICK c \in Call : calls = [d \in Call |-> IF d = c THEN Start(None, FALSE) ELSE None]
  BY DEF Init
<1>2. Start(None, FALSE) \in Exchange /\ Start(None, FALSE).do \in {"create", "delete", "read"}
  <2>1. None \in Id \cup {None} /\ FALSE \in BOOLEAN
    OBVIOUS
  <2> QED
    BY <2>1, StartOK
<1>3. /\ session = None /\ report = None /\ text \in Text /\ shown = text
      /\ evaluateOff = TRUE /\ parseOff = FALSE
  BY DEF Init
<1>4. leaving = FALSE /\ overlapped = FALSE /\ calm = TRUE
  BY DEF Init
<1>5. sessions = [s \in Id |-> None] /\ idle = {} /\ ReplayInit
  BY DEF Init
<1>6. Calls /\ Service /\ Fields /\ Flags
  BY <1>1, <1>2, <1>3, <1>4, <1>5 DEF Calls, Service, Fields, Flags
<1>7. NeedsReport /\ NeverStuck /\ OfferedAsParsed
  BY <1>3 DEF NeedsReport, NeverStuck, OfferedAsParsed
<1>8. Pending
  BY <1>1, <1>2 DEF Pending, InProgress
<1> QED
  BY <1>5, <1>6, <1>7, <1>8, InitWatched DEF IInv, Typed, Offered

LEMMA Inductive == ASSUME IInv, [Next]_vars PROVE IInv'
<1>0. Typed /\ Watched /\ Offered
  BY DEF IInv
<1>1. Typed'
  BY <1>0, CallsStep, FieldsStep, FlagsStep, ServiceStep DEF Typed
<1>2. Watched'
  BY <1>0, AlwaysMoved, WatchedStep
<1>3. Offered'
  <2>1. ASSUME NEW t \in Text, Type(t) \/ Pick(t) PROVE Offered'
    BY <1>0, <2>1, WriteOffers
  <2>2. ASSUME NEW c \in Call, NewSession(c) \/ Parse(c) \/ Evaluate(c) PROVE Offered'
    BY <1>0, <2>2, ButtonOffers
  <2>3. ASSUME NEW c \in Call, Serve(c) \/ Lose(c) PROVE Offered'
    <3>1. UNCHANGED <<form, overlapped>>
      BY <1>0, <2>3, ServeOK DEF Served, Lose, page, history
    <3> QED
      BY <1>0, <2>3, <3>1, OutsideOffers
  <2>4. ASSUME NEW c \in Call, Continue(c) PROVE Offered'
    BY <1>0, <2>4, ContinueOffers
  <2>5. CASE Load
    BY <1>0, <2>5, LoadOffers
  <2>6. ASSUME UNCHANGED <<form, overlapped, calls>> PROVE Offered'
    BY <1>0, <2>6, OutsideOffers
  <2> QED
    BY <2>1, <2>2, <2>3, <2>4, <2>5, <2>6 DEF Next, Restart, Idle, vars, page, history
<1> QED
  BY <1>1, <1>2, <1>3 DEF IInv

LEMMA Invariant == Spec => []IInv
<1>1. Init => IInv
  BY Initial
<1>2. IInv /\ [Next]_vars => IInv'
  BY Inductive
<1> QED
  BY <1>1, <1>2, PTL DEF Spec

\* The page's state is one it can be in, its backdrops show what is in the
\* editors, "Evaluate" needs a report and "Parse" never stays disabled, for any
\* number of functions of the page in progress.
THEOREM Page == Spec => []PageInv
<1>1. IInv => PageInv
  <2> SUFFICES ASSUME IInv PROVE PageInv
    OBVIOUS
  <2>1. Calls /\ Fields /\ Flags /\ Service /\ Watched /\ NeedsReport /\ NeverStuck
    BY DEF IInv, Typed, Offered
  <2>2. ReplayTypeOK
    <3>1. Placed /\ timer \in BOOLEAN
      BY <2>1 DEF Watched
    <3> QED
      BY <3>1 DEF ReplayTypeOK, Placed
  <2>3. calls \in [Call -> Request \cup {None}]
    BY <2>1 DEF Calls, Exchange
  <2>4. {evaluateOff, parseOff, leaving, overlapped, calm} \subseteq BOOLEAN
    BY <2>1 DEF Flags
  <2>5. TypeOK
    BY <2>1, <2>2, <2>3, <2>4 DEF TypeOK, Fields, Service
  <2> QED
    BY <2>1, <2>5 DEF PageInv, ShowsText, Fields
<1> QED
  BY <1>1, Invariant, PTL

\* "Evaluate" is offered only for the program that the editors show and that
\* was parsed, unless the text was changed while a call was in progress.
THEOREM Offering == Spec => []OfferedAsParsed
<1>1. IInv => OfferedAsParsed
  BY DEF IInv, Offered
<1> QED
  BY <1>1, Invariant, PTL

\* The replay never runs past the last event, for traces of any lengths.
THEOREM Replaying == Spec => []ShowsAnEvent
<1>1. IInv => ShowsAnEvent
  <2> SUFFICES ASSUME Placed, Running PROVE ShowsAnEvent
    BY DEF IInv, Watched
  <2> QED
    BY DEF Placed, Running, ShowsAnEvent
<1> QED
  BY <1>1, Invariant, PTL
-----------------------------------------------------------------------------
(* What a user who waits for every answer sees of a service that loses none: *)
(* the page shows what the service has.                                      *)

\* The service has the page's session no more, or has this one.
Gone == session = None \/ sessions[session] = None
Has(s) == Gone \/ s = sessions[session]
Length(s) == IF s.trace = None THEN 0 ELSE s.trace
\* The page shows what the service has.
Shows == Gone \/ (report = sessions[session].program /\ trace = Length(sessions[session]))
UpToDate == leaving \/ Shows
OnlyOwn == \A s \in Id : sessions[s] # None => s = session
Blank == \A s \in Id : sessions[s] = None
\* A program is evaluated when there is one.
Whole == \A s \in Id : sessions[s] # None /\ sessions[s].program = None => sessions[s].trace = None

\* The one call in progress: what the service has before and after it serves it.
Creating(r) == /\ r.at = "sent" => Blank
               /\ r.at = "answered" => \A s \in Id : sessions[s] # None =>
                                           s = r.reply /\ sessions[s] = Nothing
               /\ ~r.fresh => trace = 0
Deleting(r) == /\ r.fresh
               /\ r.at = "sent" => OnlyOwn /\ r.id = session
               /\ r.at = "answered" => Blank
Reading(r) == /\ OnlyOwn /\ r.id = session /\ report = None /\ trace = 0
              /\ r.at = "answered" => Has(r.reply)
Parsing(r) == /\ OnlyOwn /\ r.id = session
              /\ IF r.at = "answered" /\ r.reply \notin {Refused, Nothing}
                 THEN Has(Program(r.text)) ELSE UpToDate
Evaluating(r) == /\ OnlyOwn /\ r.id = session
                 /\ IF r.at = "answered" /\ r.reply # Refused
                    THEN Has(r.reply) /\ (leaving \/ Gone \/ report = r.reply.program)
                    ELSE UpToDate
Going(r) == /\ r.do = "create" => Creating(r)
            /\ r.do = "delete" => Deleting(r)
            /\ r.do = "read" => Reading(r)
            /\ r.do = "parse" => Parsing(r)
            /\ r.do = "evaluate" => Evaluating(r)

Quiet == \A c \in Call : calls[c] = None
Alone(c) == \A d \in Call \ {c} : calls[d] = None
Single == /\ \A c \in Call : calls[c] # None =>
                calls[c].at # "orphan" /\ Going(calls[c]) /\ Alone(c)
          /\ Quiet => OnlyOwn /\ UpToDate
Calm == Whole /\ (calm => Single)
-----------------------------------------------------------------------------
\* r is the only call after this step, or there is none
LEMMA OneLeft == ASSUME Calls, NEW c \in Call, Alone(c), NEW r \in Exchange, r.at # "orphan",
                        calls' = [calls EXCEPT ![c] = r], Going(r)'
                 PROVE  Single'
<1>1. calls'[c] = r /\ r # None /\ \A d \in Call \ {c} : calls'[d] = None
  BY AnswerAssumption DEF Calls, Alone, Exchange
<1>2. ~Quiet'
  BY <1>1 DEF Quiet
<1>3. ASSUME NEW d \in Call, calls'[d] # None PROVE d = c
  BY <1>1, <1>3
<1>4. Alone(c)'
  BY <1>1 DEF Alone
<1>5. Going(calls[c])'
  BY <1>1 DEF Going, Creating, Deleting, Reading, Parsing, Evaluating
<1> QED
  BY <1>1, <1>2, <1>3, <1>4, <1>5 DEF Single

LEMMA NoneLeft == ASSUME Calls, NEW c \in Call, Alone(c), calls' = [calls EXCEPT ![c] = None],
                         OnlyOwn', UpToDate'
                  PROVE  Single'
<1>1. Quiet'
  BY DEF Calls, Alone, Quiet
<1> QED
  BY <1>1 DEF Single, Quiet

LEMMA Same == ASSUME Single, UNCHANGED <<calls, session, report, trace, sessions, leaving>>
              PROVE  Single'
  BY DEF Single, Quiet, Alone, OnlyOwn, UpToDate, Shows, Gone, Going, Creating, Deleting, Reading,
         Parsing, Evaluating, Has, Blank, Length

\* A service without sessions is what every call can meet.
LEMMA AfterRestart == ASSUME Typed, Single, Restart PROVE Single'
<1>1. Blank' /\ OnlyOwn' /\ Gone' /\ UNCHANGED <<calls, session, report, trace, leaving>>
  BY DEF Restart, Blank, OnlyOwn, Gone, Typed, Fields, page, form, replay
<1>2. UpToDate' /\ \A s : Has(s)'
  BY <1>1 DEF UpToDate, Shows, Has
<1>3. ASSUME NEW r, Going(r) PROVE Going(r)'
  BY <1>1, <1>2, <1>3 DEF Going, Creating, Deleting, Reading, Parsing, Evaluating, Blank
<1> QED
  BY <1>1, <1>2, <1>3 DEF Single, Quiet, Alone

\* The user has waited, and clicks.
LEMMA AfterClick == ASSUME Typed, Single, Quiet, NEW c \in Call,
                           NewSession(c) \/ Parse(c) \/ Evaluate(c)
                    PROVE  Single'
<1>0. Calls /\ session \in Id \cup {None} /\ text \in Text
  BY DEF Typed, Fields
<1>1. OnlyOwn /\ UpToDate /\ Alone(c)
  BY DEF Single, Quiet, Alone
<1>2. UNCHANGED <<session, sessions, report, trace, leaving>>
  BY DEF NewSession, Parse, Evaluate, Begin, server, replay, Halt
<1>3. OnlyOwn' /\ UpToDate'
  BY <1>1, <1>2 DEF OnlyOwn, UpToDate, Shows, Gone, Length
<1>4. CASE NewSession(c)
  <2>1. CASE session = None
    <3>1. calls' = [calls EXCEPT ![c] = Sent("create", TRUE, None)]
      BY <1>4, <2>1 DEF NewSession, Begin, Start
    <3>2. Blank'
      BY <1>1, <1>2, <2>1, Apart DEF OnlyOwn, Blank
    <3> DEFINE r == Sent("create", TRUE, None)
    <3>3. r \in Exchange /\ r.do = "create" /\ r.at = "sent" /\ r.fresh = TRUE
      <4>1. r \in Exchange /\ r.do = "create" /\ r.at = "sent"
        <5>1. \A fresh \in BOOLEAN : LET q == Sent("create", fresh, None)
                                     IN  q \in Exchange /\ q.do = "create" /\ q.at = "sent"
          BY SentOK
        <5> QED
          BY <5>1, Zenon
      <4>2. r.fresh = TRUE
        BY DEF Sent
      <4> QED
        BY <4>1, <4>2
    <3> HIDE DEF r
    <3>4. Going(r)'
      BY <3>2, <3>3 DEF Going, Creating
    <3> QED
      BY <1>0, <1>1, <3>1, <3>3, <3>4, OneLeft DEF r
  <2>2. CASE session # None
    <3>1. calls' = [calls EXCEPT ![c] = Sent("delete", TRUE, session)]
      BY <1>4, <2>2 DEF NewSession, Begin, Start
    <3> DEFINE r == Sent("delete", TRUE, session)
    <3>2. r \in Exchange /\ r.do = "delete" /\ r.at = "sent" /\ r.fresh = TRUE /\ r.id = session
      <4>1. r \in Exchange /\ r.do = "delete" /\ r.at = "sent" /\ r.id = session
        <5>1. \A fresh \in BOOLEAN : LET q == Sent("delete", fresh, session)
                             IN  q \in Exchange /\ q.do = "delete" /\ q.at = "sent" /\ q.id = session
          BY <1>0, SentOK
        <5> QED
          BY <5>1, Zenon
      <4>2. r.fresh = TRUE
        BY DEF Sent
      <4> QED
        BY <4>1, <4>2
    <3>3. ASSUME NEW q, q = r PROVE Going(q)'
      BY <1>2, <1>3, <3>2, <3>3 DEF Going, Deleting
    <3> HIDE DEF r
    <3> QED
      BY <1>0, <1>1, <3>1, <3>2, <3>3, OneLeft DEF r
  <2> QED
    BY <2>1, <2>2
<1>5. CASE Parse(c)
  <2> DEFINE r == [Sent("parse", FALSE, session) EXCEPT !.text = text]
  <2>1. calls' = [calls EXCEPT ![c] = r]
    BY <1>5 DEF Parse, Begin
  <2>2. r \in Exchange /\ r.do = "parse" /\ r.at = "sent" /\ r.id = session
    <3>1. r \in Exchange /\ r.do = "parse" /\ r.text = text /\ r.at = "sent"
      BY <1>0, ParseOK
    <3>2. r.id = session
      BY DEF Sent
    <3> QED
      BY <3>1, <3>2
  <2>3. ASSUME NEW q, q = r PROVE Going(q)'
    BY <1>2, <1>3, <2>2, <2>3 DEF Going, Parsing
  <2> HIDE DEF r
  <2> QED
    BY <1>0, <1>1, <2>1, <2>2, <2>3, OneLeft
<1>6. CASE Evaluate(c)
  <2> DEFINE r == Sent("evaluate", FALSE, session)
  <2>1. calls' = [calls EXCEPT ![c] = r]
    BY <1>6 DEF Evaluate, Begin
  <2>2. r \in Exchange /\ r.do = "evaluate" /\ r.at = "sent" /\ r.id = session
    BY <1>0, SentOK
  <2>3. ASSUME NEW q, q = r PROVE Going(q)'
    BY <1>2, <1>3, <2>2, <2>3 DEF Going, Evaluating
  <2> HIDE DEF r
  <2> QED
    BY <1>0, <1>1, <2>1, <2>2, <2>3, OneLeft
<1> QED
  BY <1>4, <1>5, <1>6
-----------------------------------------------------------------------------
(* The service.                                                              *)

\* Who is served is alone, and its request was not served yet.
LEMMA AtService == ASSUME Typed, Single, NEW c \in Call, c \in Requested
                   PROVE  /\ calls[c] \in Exchange /\ calls[c].at = "sent"
                          /\ Going(calls[c]) /\ Alone(c)
<1>1. calls[c] \in Exchange /\ calls[c] # None /\ calls[c].at # "answered"
  BY DEF Typed, Calls, Requested
<1>2. calls[c].at \in {"sent", "answered", "orphan"}
  BY <1>1 DEF Exchange, Request
<1> QED
  BY <1>1, <1>2 DEF Single

\* What is removed because it expired takes nothing from what the page shows.
LEMMA Expired == ASSUME Typed, UNCHANGED page,
                        \A s \in Id : sessions'[s] \in {sessions[s], None}
                 PROVE  /\ UNCHANGED <<session, report, trace, leaving>>
                        /\ Blank => Blank'
                        /\ OnlyOwn => OnlyOwn'
                        /\ Gone => Gone'
                        /\ UpToDate => UpToDate'
<1>1. UNCHANGED <<session, report, trace, leaving>> /\ session \in Id \cup {None}
  BY DEF page, form, replay, Typed, Fields
<1>2. (Blank => Blank') /\ (OnlyOwn => OnlyOwn')
  BY <1>1 DEF Blank, OnlyOwn
<1>3. Gone' \/ sessions'[session] = sessions[session]
  BY <1>1 DEF Gone
<1>4. Gone => Gone'
  BY <1>1, <1>3 DEF Gone
<1>5. UpToDate => UpToDate'
  BY <1>1, <1>3 DEF UpToDate, Shows, Gone, Length
<1> QED
  BY <1>1, <1>2, <1>4, <1>5

LEMMA KeptSessions == ASSUME Typed
                      PROVE  /\ \A s \in Id : Kept[s] \in {sessions[s], None}
                             /\ \A s \in Id \ Alive : Kept[s] = None
                             /\ \A s \in Alive : s \in Id /\ Kept[s] = sessions[s] /\ s # None
                                                 /\ sessions[s] \in Session
                             /\ Whole => \A s \in Id : Kept[s] # None /\ Kept[s].program = None
                                                       => Kept[s].trace = None
                             /\ DOMAIN Kept = Id
  BY Apart DEF Kept, Alive, Whole, Typed, Service

\* The one call is served: what it goes on with, and what the service has then.
LEMMA AfterServe == ASSUME Typed, Whole, Single, NEW c \in Call, Serve(c) PROVE Single'
<1> DEFINE r == calls[c]
<1>1. Served(c)
  BY ServeOK
<1>2. /\ r \in Exchange /\ r.at = "sent" /\ Going(r) /\ Alone(c) /\ Calls
      /\ UNCHANGED page
  BY <1>1, AtService DEF Served, Typed
<1>3. UNCHANGED <<session, report, trace, leaving>>
  BY <1>2 DEF page, form, replay
<1>4. ASSUME NEW reply \in Replies(r.do) \cup {Refused}, Answer(c, reply),
             \A a \in Exchange :
                a.at = "answered" /\ a.reply = reply /\ a.do = r.do /\ a.text = r.text
                /\ a.id = r.id /\ a.fresh = r.fresh => Going(a)'
      PROVE  Single'
  <2> DEFINE a == [r EXCEPT !.at = "answered", !.reply = reply]
  <2>1. /\ a \in Exchange /\ a.at = "answered" /\ a.reply = reply
        /\ a.do = r.do /\ a.text = r.text /\ a.id = r.id /\ a.fresh = r.fresh
    BY <1>2, AnswerOK
  <2>2. calls' = [calls EXCEPT ![c] = a]
    BY <1>2, <1>4 DEF Answer
  <2>3. ASSUME NEW q \in Exchange, q = a PROVE Going(q)'
    BY <1>4, <2>1, <2>3
  <2> HIDE DEF a
  <2> QED
    BY <1>2, <2>1, <2>2, <2>3, OneLeft
<1>5. CASE Create(c)
  <2>1. r.do = "create" /\ Creating(r) /\ Blank
    BY <1>2, <1>5 DEF Create, Command, Going, Creating
  <2>2. CASE Answer(c, Refused) /\ sessions' = Kept
    <3>1. Blank'
      BY <1>2, <2>1, <2>2, Expired, KeptSessions
    <3>2. ASSUME NEW a \in Exchange, a.at = "answered", a.do = r.do, a.fresh = r.fresh PROVE Going(a)'
      BY <1>3, <2>1, <3>1, <3>2 DEF Going, Creating, Blank
    <3> QED
      BY <1>4, <2>2, <3>2
  <2>3. ASSUME NEW s \in NewIds, Answer(c, s), sessions' = [Kept EXCEPT ![s] = Nothing]
        PROVE  Single'
    <3>1. s \in Replies(r.do)
      BY <2>1, <2>3 DEF NewIds, Replies
    <3>2. \A t \in Id : sessions'[t] # None => t = s /\ sessions'[t] = Nothing
      BY <2>1, <2>3, KeptSessions DEF Blank
    <3>3. ASSUME NEW a \in Exchange, a.at = "answered", a.do = r.do, a.fresh = r.fresh, a.reply = s
          PROVE  Going(a)'
      BY <1>3, <2>1, <3>2, <3>3 DEF Going, Creating
    <3> QED
      BY <1>4, <2>3, <3>1, <3>3
  <2> QED
    BY <1>5, <2>2, <2>3 DEF Create
<1>6. CASE Delete(c)
  <2>1. r.do = "delete" /\ Deleting(r) /\ OnlyOwn /\ r.id = session /\ r.id \in Alive
    BY <1>2, <1>6 DEF Delete, Command, Going, Deleting, Found
  <2>2. Answer(c, Nothing) /\ sessions' = [Kept EXCEPT ![session] = None]
    BY <1>6, <2>1 DEF Delete
  <2>3. Blank'
    BY <2>1, <2>2, KeptSessions DEF Blank, OnlyOwn
  <2>4. Nothing \in Replies(r.do)
    BY <2>1 DEF Replies, Nothing, Program, Session
  <2>5. ASSUME NEW a \in Exchange, a.at = "answered", a.do = r.do, a.fresh = r.fresh PROVE Going(a)'
    BY <2>1, <2>3, <2>5 DEF Going, Deleting
  <2> QED
    BY <1>4, <2>2, <2>4, <2>5
<1>7. CASE Read(c)
  <2>1. r.do = "read" /\ Reading(r) /\ OnlyOwn /\ r.id = session /\ r.id \in Alive
    BY <1>2, <1>7 DEF Read, Command, Going, Reading, Found
  <2>2. Answer(c, sessions[session]) /\ sessions' = Kept
    BY <1>7, <2>1 DEF Read
  <2>3. OnlyOwn' /\ sessions'[session] = sessions[session] /\ sessions[session] \in Session
    BY <1>2, <2>1, <2>2, Expired, KeptSessions
  <2>4. sessions[session] \in Replies(r.do)
    BY <2>1, <2>3 DEF Replies
  <2>5. ASSUME NEW a \in Exchange, a.at = "answered", a.do = r.do, a.id = r.id,
               a.reply = sessions[session]
        PROVE  Going(a)'
    BY <1>3, <2>1, <2>3, <2>5 DEF Going, Reading, Has
  <2> QED
    BY <1>4, <2>2, <2>4, <2>5
<1>8. CASE ParseProgram(c)
  <2>1. /\ r.do = "parse" /\ Parsing(r) /\ OnlyOwn /\ UpToDate /\ r.id = session
        /\ r.id \in Alive /\ r.text \in Text
    BY <1>2, <1>8 DEF ParseProgram, Command, Going, Parsing, Found, Exchange
  <2>2. Nothing \in Session /\ Program(r.text) \in Session /\ Program(r.text) # Nothing
    BY <2>1, Apart DEF Nothing, Program, Session
  <2>3. Nothing \in Replies(r.do) /\ Program(r.text) \in Replies(r.do)
    BY <2>1, <2>2 DEF Replies
  <2>4. CASE r.text \in Broken
    <3>1. Answer(c, Nothing) /\ sessions' = Kept
      BY <1>8, <2>4 DEF ParseProgram
    <3>2. OnlyOwn' /\ UpToDate'
      BY <1>2, <2>1, <3>1, Expired, KeptSessions
    <3>3. ASSUME NEW a \in Exchange, a.do = r.do, a.id = r.id, a.reply = Nothing PROVE Going(a)'
      BY <1>3, <2>1, <3>2, <3>3 DEF Going, Parsing
    <3> QED
      BY <1>4, <2>3, <3>1, <3>3
  <2>5. CASE r.text \notin Broken
    <3>1. Answer(c, Program(r.text)) /\ sessions' = [Kept EXCEPT ![session] = Program(r.text)]
      BY <1>8, <2>1, <2>5 DEF ParseProgram
    <3>2. OnlyOwn' /\ sessions'[session] = Program(r.text)
      BY <1>3, <2>1, <3>1, KeptSessions DEF OnlyOwn
    <3>3. ASSUME NEW a \in Exchange, a.at = "answered", a.do = r.do, a.id = r.id, a.text = r.text,
                 a.reply = Program(r.text)
          PROVE  Going(a)'
      <4>1. Has(Program(a.text))'
        BY <1>3, <3>2, <3>3 DEF Has
      <4>2. a.reply \notin {Refused, Nothing}
        BY <2>2, <3>3, AnswerAssumption
      <4> QED
        BY <1>3, <2>1, <3>2, <3>3, <4>1, <4>2 DEF Going, Parsing
    <3> QED
      BY <1>4, <2>3, <3>1, <3>3
  <2> QED
    BY <2>4, <2>5
<1>9. CASE EvaluateProgram(c)
  <2>1. /\ r.do = "evaluate" /\ Evaluating(r) /\ OnlyOwn /\ UpToDate /\ r.id = session
        /\ r.id \in Alive /\ sessions[session] \in Session /\ ~Gone
    <3>1. r.do = "evaluate" /\ Evaluating(r) /\ OnlyOwn /\ UpToDate /\ r.id = session /\ r.id \in Alive
      BY <1>2, <1>9 DEF EvaluateProgram, Command, Going, Evaluating, Found
    <3>2. sessions[session] \in Session /\ ~Gone
      BY <3>1, KeptSessions DEF Gone, Alive
    <3> QED
      BY <3>1, <3>2
  <2>2. CASE Answer(c, Refused) /\ sessions' = Kept
    <3>1. OnlyOwn' /\ UpToDate'
      BY <1>2, <2>1, <2>2, Expired, KeptSessions
    <3>2. ASSUME NEW a \in Exchange, a.do = r.do, a.id = r.id, a.reply = Refused PROVE Going(a)'
      BY <1>3, <2>1, <3>1, <3>2 DEF Going, Evaluating
    <3> QED
      BY <1>4, <2>2, <3>2
  <2>3. ASSUME NEW n \in Lengths, NEW new, new = [sessions[session] EXCEPT !.trace = n],
               Answer(c, new), sessions' = [Kept EXCEPT ![session] = new]
        PROVE  Single'
    <3>1. /\ new \in [program : Text \cup {None}, trace : Lengths] /\ new \in Session
          /\ new.program = sessions[session].program
      BY <2>1, <2>3 DEF Session
    <3>2. new \in Replies(r.do) /\ new # Refused
      BY <2>1, <3>1, AnswerAssumption DEF Replies
    <3>3. OnlyOwn' /\ sessions'[session] = new
      BY <1>3, <2>1, <2>3, KeptSessions DEF OnlyOwn
    <3>4. leaving' \/ report' = new.program
      BY <1>3, <2>1, <3>1 DEF UpToDate, Shows
    <3>5. ASSUME NEW a \in Exchange, a.at = "answered", a.do = r.do, a.id = r.id, a.reply = new
          PROVE  Going(a)'
      BY <1>3, <2>1, <3>2, <3>3, <3>4, <3>5 DEF Going, Evaluating, Has
    <3> QED
      BY <1>4, <2>3, <3>2, <3>5
  <2> QED
    BY <1>9, <2>1, <2>2, <2>3 DEF EvaluateProgram
<1>10. CASE Missing(c)
  <2>1. Answer(c, Refused) /\ sessions' = Kept /\ r.id \notin Alive
        /\ r.do \in {"delete", "read", "parse", "evaluate"}
    BY <1>10 DEF Missing, Command, Found
  <2>2. OnlyOwn /\ r.id = session
    BY <1>2, <2>1 DEF Going, Deleting, Reading, Parsing, Evaluating
  <2>3. OnlyOwn' /\ (UpToDate => UpToDate')
    BY <1>2, <2>1, <2>2, Expired, KeptSessions
  <2>4. Gone'
    BY <1>3, <2>1, <2>2, KeptSessions DEF Gone, Typed, Fields
  <2>5. Blank' /\ \A s : Has(s)'
    BY <2>3, <2>4, <1>3, Apart DEF OnlyOwn, Gone, Blank, Has
  <2>6. ASSUME NEW a \in Exchange, a.at = "answered", a.do = r.do, a.id = r.id, a.fresh = r.fresh,
               a.reply = Refused
        PROVE  Going(a)'
    BY <1>2, <1>3, <2>1, <2>2, <2>3, <2>5, <2>6
    DEF Going, Deleting, Reading, Parsing, Evaluating
  <2> QED
    BY <1>4, <2>1, <2>6
<1> QED
  BY <1>5, <1>6, <1>7, <1>8, <1>9, <1>10 DEF Serve
-----------------------------------------------------------------------------
(* The page.                                                                 *)

\* Who goes on is alone, and was answered.
LEMMA AtAnswer == ASSUME Typed, Single, NEW c \in Call, Continue(c)
                  PROVE  /\ calls[c] \in Exchange /\ calls[c].at = "answered"
                         /\ Going(calls[c]) /\ Alone(c) /\ UNCHANGED <<server, calm>>
<1>1. calls[c] # None /\ calls[c].at = "answered" /\ UNCHANGED <<server, calm>>
  BY DEF Continue, Deleted, Restored, Created, Parsed, Replayed, Answered
<1> QED
  BY <1>1 DEF Typed, Calls, Single

LEMMA AfterAnswer == ASSUME Typed, Whole, Single, NEW c \in Call, Continue(c) PROVE Single'
<1> DEFINE r == calls[c]
<1>1. /\ r \in Exchange /\ r.at = "answered" /\ Going(r) /\ Alone(c) /\ Calls
      /\ UNCHANGED sessions
  BY AtAnswer DEF Typed, server
<1>2. /\ session \in Id \cup {None} /\ sessions \in [Id -> Session \cup {None}]
      /\ None \notin Id /\ None \notin Text /\ Refused # None
  BY Apart DEF Typed, Fields, Service
<1>3. ASSUME NEW fresh \in BOOLEAN, Go(c, Sent("create", fresh, None)), Blank, UNCHANGED page,
             ~fresh => trace = 0
      PROVE  Single'
  <2> DEFINE q == Sent("create", fresh, None)
  <2>1. q \in Exchange /\ q.do = "create" /\ q.at = "sent" /\ (q.fresh <=> fresh)
    BY SentOK
  <2>2. calls' = [calls EXCEPT ![c] = q] /\ Blank' /\ UNCHANGED trace
    BY <1>1, <1>3 DEF Go, Blank, page, replay
  <2>3. ASSUME NEW p \in Exchange, p = q PROVE Going(p)'
    BY <1>3, <2>1, <2>2, <2>3 DEF Going, Creating
  <2> HIDE DEF q
  <2> QED
    BY <1>1, <2>1, <2>2, <2>3, OneLeft
<1>4. ASSUME Go(c, None), OnlyOwn', UpToDate' PROVE Single'
  BY <1>1, <1>4, NoneLeft DEF Go
<1>5. UNCHANGED page => (OnlyOwn => OnlyOwn') /\ (UpToDate => UpToDate')
  BY <1>1 DEF page, form, replay, OnlyOwn, UpToDate, Shows, Gone, Length
<1>6. CASE Deleted(c)
  <2>1. r.do = "delete" /\ Blank /\ UNCHANGED page /\ Go(c, Sent("create", TRUE, None))
    BY <1>1, <1>6 DEF Deleted, Answered, Going, Deleting
  <2> QED
    BY <1>3, <2>1
<1>7. CASE Restored(c)
  <2>1. r.do = "read" /\ OnlyOwn /\ report = None /\ trace = 0 /\ Has(r.reply)
        /\ r.reply \in Session \cup {Refused}
    BY <1>1, <1>7 DEF Restored, Answered, Going, Reading, Exchange, Replies
  <2>2. CASE r.reply = Refused
    <3>1. Blank
      BY <1>2, <2>1, <2>2, AnswerAssumption DEF Has, Gone, OnlyOwn, Blank
    <3>2. Go(c, Sent("create", FALSE, None)) /\ UNCHANGED page
      BY <1>7, <2>2 DEF Restored
    <3> QED
      BY <1>3, <2>1, <3>1, <3>2
  <2>3. CASE r.reply # Refused
    <3>1. r.reply \in Session /\ UNCHANGED session /\ Go(c, None)
      BY <1>7, <2>1, <2>3 DEF Restored, page, form
    <3>2. OnlyOwn' /\ (Gone => Gone') /\ (~Gone => sessions'[session'] = r.reply)
      BY <1>1, <2>1, <3>1 DEF OnlyOwn, Gone, Has
    <3>3. CASE r.reply.program = None
      <4>1. UNCHANGED <<report, trace>>
        BY <1>7, <2>3, <3>3 DEF Restored, page, form, replay
      <4>2. ~Gone => r.reply.trace = None
        BY <1>2, <2>1, <3>3 DEF Has, Gone, Whole
      <4>3. Shows'
        BY <2>1, <3>2, <3>3, <4>1, <4>2 DEF Shows, Length
      <4> QED
        BY <1>4, <3>1, <3>2, <4>3 DEF UpToDate
    <3>4. CASE r.reply.program # None
      <4>1. report' = r.reply.program /\ trace' = Length(r.reply)
        BY <1>7, <2>1, <2>3, <3>4 DEF Restored, Display, Record, replay, Length
      <4>2. Shows'
        BY <3>2, <4>1 DEF Shows, Length
      <4> QED
        BY <1>4, <3>1, <3>2, <4>2 DEF UpToDate
    <3> QED
      BY <3>3, <3>4
  <2> QED
    BY <2>2, <2>3
<1>8. CASE Created(c)
  <2>1. /\ r.do = "create" /\ r.reply \in Id \cup {Refused} /\ Go(c, None)
        /\ \A s \in Id : sessions[s] # None => s = r.reply /\ sessions[s] = Nothing
        /\ ~r.fresh => trace = 0
    BY <1>1, <1>8 DEF Created, Answered, Going, Creating, Exchange, Replies
  <2>2. CASE r.reply = Refused
    <3>1. UNCHANGED page /\ OnlyOwn /\ Gone
      BY <1>2, <1>8, <2>1, <2>2, WorkbenchAssumption DEF Created, OnlyOwn, Gone
    <3> QED
      BY <1>4, <1>5, <2>1, <3>1 DEF UpToDate, Shows
  <2>3. CASE r.reply # Refused
    <3>1. /\ session' = r.reply /\ report' = None /\ UNCHANGED trace
          /\ r.fresh => leaving'
      BY <1>8, <2>3 DEF Created, replay
    <3>2. OnlyOwn' /\ (Gone' \/ sessions'[session'] = Nothing)
      BY <1>1, <2>1, <2>3, <3>1 DEF OnlyOwn, Gone
    <3>3. Nothing.program = None /\ Nothing.trace = None
      BY DEF Nothing, Program
    <3>4. UpToDate'
      BY <2>1, <3>1, <3>2, <3>3 DEF UpToDate, Shows, Length
    <3> QED
      BY <1>4, <2>1, <3>2, <3>4
  <2> QED
    BY <2>2, <2>3
<1>9. CASE Parsed(c)
  <2>1. r.do = "parse" /\ Parsing(r) /\ Go(c, None) /\ UNCHANGED <<session, leaving>>
    BY <1>1, <1>9 DEF Parsed, Answered, Going
  <2>2. OnlyOwn'
    BY <1>1, <2>1 DEF Parsing, OnlyOwn
  <2>3. CASE r.reply \in {Refused, Nothing}
    <3>1. UNCHANGED <<report, trace>> /\ UpToDate
      BY <1>9, <2>1, <2>3 DEF Parsed, Parsing, replay
    <3>2. UpToDate'
      BY <1>1, <2>1, <3>1 DEF UpToDate, Shows, Gone, Length
    <3> QED
      BY <1>4, <2>1, <2>2, <3>2
  <2>4. CASE r.reply \notin {Refused, Nothing}
    <3>1. report' = r.text /\ trace' = 0 /\ Has(Program(r.text))
      BY <1>1, <1>9, <2>1, <2>4 DEF Parsed, Parsing, Display, Clear
    <3>2. Program(r.text).program = r.text /\ Program(r.text).trace = None
      BY DEF Program
    <3>3. Shows'
      BY <1>1, <2>1, <3>1, <3>2 DEF Shows, Has, Gone, Length
    <3> QED
      BY <1>4, <2>1, <2>2, <3>3 DEF UpToDate
  <2> QED
    BY <2>3, <2>4
<1>10. CASE Replayed(c)
  <2>1. /\ r.do = "evaluate" /\ Evaluating(r) /\ Go(c, None)
        /\ UNCHANGED <<session, report, leaving>>
        /\ r.reply \in [program : Text \cup {None}, trace : Lengths] \cup {Refused}
    BY <1>1, <1>10 DEF Replayed, Answered, Going, Exchange, Replies
  <2>2. OnlyOwn'
    BY <1>1, <2>1 DEF Evaluating, OnlyOwn
  <2>3. CASE r.reply = Refused
    <3>1. UNCHANGED trace /\ UpToDate
      BY <1>10, <2>1, <2>3 DEF Replayed, Evaluating, replay
    <3>2. UpToDate'
      BY <1>1, <2>1, <3>1 DEF UpToDate, Shows, Gone, Length
    <3> QED
      BY <1>4, <2>1, <2>2, <3>2
  <2>4. CASE r.reply # Refused
    <3>1. trace' = r.reply.trace /\ Has(r.reply) /\ (leaving \/ Gone \/ report = r.reply.program)
      BY <1>1, <1>10, <2>1, <2>4 DEF Replayed, Record, Evaluating
    <3>2. r.reply.trace # None
      BY <2>1, <2>4, WorkbenchAssumption
    <3>3. UpToDate'
      BY <1>1, <2>1, <3>1, <3>2 DEF UpToDate, Shows, Has, Gone, Length
    <3> QED
      BY <1>4, <2>1, <2>2, <3>3
  <2> QED
    BY <2>3, <2>4
<1> QED
  BY <1>6, <1>7, <1>8, <1>9, <1>10 DEF Continue

\* A new page, when nothing was under way, begins with the session that there is.
LEMMA AfterLoad == ASSUME Typed, Single, Quiet, Load PROVE Single'
<1>1. /\ session \in Id \cup {None} /\ OnlyOwn /\ Calls /\ None \notin Id
      /\ UNCHANGED <<session, sessions>> /\ report' = None /\ trace' = 0
  BY Apart DEF Typed, Fields, Single, Load, Reset, server
<1>2. PICK c \in Call : calls' = [calls EXCEPT ![c] = Start(session, FALSE)]
  <2>1. Requested = {}
    BY DEF Quiet, Requested
  <2> QED
    BY <1>1, <2>1 DEF Load, Quiet, Calls
<1>3. Alone(c) /\ OnlyOwn'
  BY <1>1 DEF Quiet, Alone, OnlyOwn
<1>4. CASE session = None
  <2> DEFINE q == Sent("create", FALSE, None)
  <2>1. q \in Exchange /\ q.do = "create" /\ q.at = "sent"
    <3>1. \A fresh \in BOOLEAN : LET r == Sent("create", fresh, None)
                                 IN  r \in Exchange /\ r.do = "create" /\ r.at = "sent"
      BY SentOK
    <3> QED
      BY <3>1, Zenon
  <2>2. calls' = [calls EXCEPT ![c] = q] /\ Blank'
    BY <1>1, <1>2, <1>4 DEF Start, OnlyOwn, Blank
  <2>3. ASSUME NEW p \in Exchange, p = q PROVE Going(p)'
    BY <1>1, <2>1, <2>2, <2>3 DEF Going, Creating
  <2> HIDE DEF q
  <2> QED
    BY <1>1, <1>3, <2>1, <2>2, <2>3, OneLeft
<1>5. CASE session # None
  <2> DEFINE q == Sent("read", FALSE, session)
  <2>1. q \in Exchange /\ q.do = "read" /\ q.at = "sent" /\ q.id = session
    <3>1. \A fresh \in BOOLEAN : LET r == Sent("read", fresh, session)
                         IN  r \in Exchange /\ r.do = "read" /\ r.at = "sent" /\ r.id = session
      BY <1>1, SentOK
    <3> QED
      BY <3>1, Zenon
  <2>2. calls' = [calls EXCEPT ![c] = q]
    BY <1>2, <1>5 DEF Start
  <2>3. ASSUME NEW p \in Exchange, p = q PROVE Going(p)'
    BY <1>1, <1>3, <2>1, <2>3 DEF Going, Reading
  <2> HIDE DEF q
  <2> QED
    BY <1>1, <1>3, <2>1, <2>2, <2>3, OneLeft
<1> QED
  BY <1>4, <1>5
-----------------------------------------------------------------------------
\* A session without a program has no trace, whoever calls.
LEMMA WholeStep == ASSUME Typed, Whole, [Next]_vars PROVE Whole'
<1>1. UNCHANGED sessions => Whole'
  BY DEF Whole
<1>2. Restart => Whole'
  BY DEF Restart, Whole
<1>3. ASSUME NEW s \in Id, NEW new, sessions' = [Kept EXCEPT ![s] = new],
             new # None /\ new.program = None => new.trace = None
      PROVE  Whole'
  BY <1>3, KeptSessions DEF Whole
<1>4. ASSUME sessions' = Kept PROVE Whole'
  BY <1>4, KeptSessions DEF Whole
<1>5. ASSUME NEW c \in Call, Serve(c) PROVE Whole'
  <2>1. Nothing.trace = None /\ \A t \in Text : Program(t).trace = None
    BY DEF Nothing, Program
  <2>2. c \in Requested => calls[c] \in Exchange
    BY DEF Typed, Calls, Requested
  <2>3. CASE Create(c)
    BY <1>3, <1>4, <2>1, <2>3 DEF Create, NewIds
  <2>4. CASE Delete(c)
    BY <1>3, <2>4 DEF Delete, Found, Alive
  <2>5. CASE Read(c) \/ Missing(c)
    BY <1>4, <2>5 DEF Read, Missing
  <2>6. CASE ParseProgram(c)
    <3>1. calls[c].text \in Text /\ calls[c].id \in Id
      BY <2>2, <2>6 DEF ParseProgram, Command, Found, Alive, Exchange
    <3>2. sessions' = Kept \/ sessions' = [Kept EXCEPT ![calls[c].id] = Program(calls[c].text)]
      BY <2>6 DEF ParseProgram
    <3> QED
      BY <1>3, <1>4, <2>1, <3>1, <3>2
  <2>7. CASE EvaluateProgram(c)
    <3>1. calls[c].id \in Id /\ sessions[calls[c].id] \in Session
      BY <2>7, KeptSessions DEF EvaluateProgram, Found
    <3>2. CASE sessions[calls[c].id].program = None
      BY <1>4, <2>7, <3>2 DEF EvaluateProgram
    <3>3. CASE sessions[calls[c].id].program # None
      <4>1. PICK n \in Lengths :
               sessions' = [Kept EXCEPT ![calls[c].id] = [sessions[calls[c].id] EXCEPT !.trace = n]]
        BY <2>7, <3>3 DEF EvaluateProgram
      <4>2. [sessions[calls[c].id] EXCEPT !.trace = n].program # None
        BY <3>1, <3>3 DEF Session
      <4> QED
        BY <1>3, <3>1, <4>1, <4>2
    <3> QED
      BY <3>2, <3>3
  <2> QED
    BY <1>5, <2>3, <2>4, <2>5, <2>6, <2>7 DEF Serve
<1> QED
  BY <1>1, <1>2, <1>5
  DEF Next, Type, Pick, Write, NewSession, Parse, Evaluate, Begin, Lose, Continue, Deleted,
      Restored, Created, Parsed, Replayed, Answered, Load, Idle, vars, server

LEMMA CalmStep == ASSUME Typed, Calm, [Next]_vars PROVE Calm'
<1>1. Whole /\ Whole'
  BY WholeStep DEF Calm
<1>2. ASSUME calm' PROVE Single'
  <2>1. calm /\ Single
    <3>1. calm
      BY <1>2, ServeOK
      DEF Next, Type, Pick, Write, NewSession, Parse, Evaluate, Begin, Waited, Lose, Served,
          Continue, Deleted, Restored, Created, Parsed, Replayed, Answered, Load, Restart, Idle,
          vars, history
    <3> QED
      BY <3>1 DEF Calm
  <2>2. InProgress = {} => Quiet
    BY <2>1 DEF InProgress, Quiet, Single
  <2>3. ASSUME UNCHANGED <<calls, session, report, trace, sessions, leaving>> PROVE Single'
    BY <2>1, <2>3, Same
  <2>4. CASE Watch /\ UNCHANGED <<form, calls, server, history>>
    BY <2>3, <2>4 DEF Watch, Previous, Forward, Slide, Play, Tick, Move, form, server
  <2>5. ASSUME NEW t \in Text, Type(t) \/ Pick(t) PROVE Single'
    BY <2>3, <2>5 DEF Type, Pick, Write, Halt, replay, server
  <2>6. ASSUME NEW c \in Call, NewSession(c) \/ Parse(c) \/ Evaluate(c) PROVE Single'
    <3>1. Quiet
      BY <1>2, <2>2, <2>6 DEF NewSession, Parse, Evaluate, Begin, Waited
    <3> QED
      BY <2>1, <2>6, <3>1, AfterClick
  <2>7. ASSUME NEW c \in Call, Serve(c) PROVE Single'
    BY <1>1, <2>1, <2>7, AfterServe
  <2>8. ASSUME NEW c \in Call, Lose(c) PROVE FALSE
    BY <1>2, <2>8 DEF Lose
  <2>9. ASSUME NEW c \in Call, Continue(c) PROVE Single'
    BY <1>1, <2>1, <2>9, AfterAnswer
  <2>10. CASE Load
    BY <1>2, <2>1, <2>10, AfterLoad DEF Load, Quiet
  <2>11. CASE Restart
    BY <2>1, <2>11, AfterRestart
  <2>12. ASSUME NEW s \in Id, Idle(s) PROVE Single'
    BY <2>3, <2>12 DEF Idle, page, form, replay
  <2>13. CASE UNCHANGED vars
    BY <2>3, <2>13 DEF vars, page, form, replay, server
  <2> QED
    BY <2>4, <2>5, <2>6, <2>7, <2>8, <2>9, <2>10, <2>11, <2>12, <2>13 DEF Next
<1> QED
  BY <1>1, <1>2 DEF Calm

LEMMA InitCalm == ASSUME Init PROVE Calm
<1>1. PICK c \in Call : calls = [d \in Call |-> IF d = c THEN Start(None, FALSE) ELSE None]
  BY DEF Init
<1>2. sessions = [s \in Id |-> None] /\ trace = 0
  BY DEF Init, ReplayInit
<1>3. Blank /\ Whole
  BY <1>2 DEF Blank, Whole
<1> DEFINE q == Sent("create", FALSE, None)
<1>4. q \in Exchange /\ q.do = "create" /\ q.at = "sent"
  <2>1. \A fresh \in BOOLEAN : LET r == Sent("create", fresh, None)
                               IN  r \in Exchange /\ r.do = "create" /\ r.at = "sent"
    BY SentOK
  <2> QED
    BY <2>1, Zenon
<1>5. q # None /\ Start(None, FALSE) = q
  BY <1>4, AnswerAssumption DEF Start, Exchange
<1>6. ASSUME NEW p \in Exchange, p = q PROVE Going(p)
  BY <1>2, <1>3, <1>4, <1>6 DEF Going, Creating
<1> HIDE DEF q
<1>7. calls[c] = q /\ \A d \in Call \ {c} : calls[d] = None
  BY <1>1, <1>5
<1>8. Alone(c) /\ ~Quiet /\ Going(calls[c])
  BY <1>4, <1>5, <1>6, <1>7 DEF Alone, Quiet
<1>9. Single
  BY <1>4, <1>7, <1>8 DEF Single
<1> QED
  BY <1>3, <1>9 DEF Calm

\* A user who waits for every answer, of a service that loses none, sees what the
\* service has, however often it restarts, sessions expire and the page is loaded
\* again: its session is the only one, and the trees and the trace are its own.
THEOREM Exactness == Spec => []ExactWhenCalm
<1>1. Init => IInv /\ Calm
  BY Initial, InitCalm
<1>2. IInv /\ Calm /\ [Next]_vars => (IInv /\ Calm)'
  BY Inductive, CalmStep DEF IInv
<1>3. IInv /\ Calm => ExactWhenCalm
  <2> SUFFICES ASSUME Calm, calm, ~leaving, Quiet PROVE
        /\ \A s \in Id : sessions[s] # None => s = session
        /\ session # None /\ sessions[session] # None =>
              /\ report = sessions[session].program
              /\ trace = IF sessions[session].trace = None THEN 0 ELSE sessions[session].trace
    BY DEF ExactWhenCalm, Quiet
  <2>1. OnlyOwn /\ Shows
    BY DEF Calm, Single, UpToDate
  <2> QED
    BY <2>1 DEF OnlyOwn, Shows, Gone, Length
<1> QED
  BY <1>1, <1>2, <1>3, PTL DEF Spec
-----------------------------------------------------------------------------
(* What a subscriber of the directory monitor has not taken is the current   *)
(* inventory, for any directory, any order of what scans, streams, page and  *)
(* uploads do, and any number of faults.                                     *)

\* A closed stream has nothing on its way.
ClosedEmpty == ~stream.open => stream = Closed

DirectoryIInv == DirectoryTypeOK /\ ClosedEmpty /\ NothingMissed /\ InOrder

\* DirectoryTypeOK in parts: the scan, the feed and the page.
Scanned == /\ disk \in [File -> Content \cup {Absent}]
           /\ todo \in (SUBSET File) \cup {Absent} /\ found \in Scan
           /\ inventory \in Inventory
Streamed == /\ stream \in [open : BOOLEAN, queue : Inventory \cup {Absent}, wire : Seq(Inventory)]
            /\ Len(stream.wire) <= WireSize
Paged == /\ {seen, table} \subseteq Inventory
         /\ fetched \in [answer : Inventory, late : BOOLEAN] \cup {Absent}
         /\ upload \in [file : File, open : BOOLEAN, linked : BOOLEAN] \cup {Absent}
         /\ overtaken \in BOOLEAN
Counted == edits \in 0..MaxEdits /\ faults \in 0..MaxFaults

LEMMA TypeParts == DirectoryTypeOK <=> Scanned /\ Streamed /\ Paged /\ Counted
BY DEF DirectoryTypeOK, Scanned, Streamed, Paged, Counted
-----------------------------------------------------------------------------
\* The walk has a next name.
Below == {p \in Nat \X Nat : p[1] < p[2]}
LEMMA NextName == ASSUME NEW S \in SUBSET File, S # {} PROVE Min(S) \in S
<1>1. S \subseteq Nat
  BY ObservatoryAssumption
<1>2. IsWellFoundedOn(Below, Nat)
  <2>1. OpToRel(<, Nat) = Below
    BY DEF OpToRel, Below
  <2> QED
    BY <2>1, NatLessThanWellFounded
<1>3. PICK x \in S : \A y \in S : ~(<<y, x>> \in Below)
  BY <1>1, <1>2, WFMin
<1>4. \A y \in S : x <= y
  <2> SUFFICES ASSUME NEW y \in S PROVE x <= y
    OBVIOUS
  <2>1. x \in Nat /\ y \in Nat /\ ~(y < x)
    BY <1>1, <1>3 DEF Below
  <2> QED
    BY <2>1
<1> QED
  BY <1>4 DEF Min

LEMMA VisitScans == ASSUME Scanned, NEW f \in File PROVE Visit(f, disk, found) \in Scan
<1>1. disk[f] \in Content \cup {Absent}
  BY DEF Scanned
<1>2. CASE disk[f] = Absent
  <2>1. Visit(f, disk, found) = [found EXCEPT !.failed = @ \cup {f}]
    BY <1>2 DEF Visit
  <2> QED
    BY <2>1 DEF Scanned, Scan
<1>3. CASE disk[f] # Absent /\ Cardinality({g \in File : found.files[g] # Absent}) >= Limit
  <2>1. Visit(f, disk, found) = [found EXCEPT !.truncated = TRUE]
    BY <1>3 DEF Visit
  <2> QED
    BY <2>1 DEF Scanned, Scan
<1>4. CASE disk[f] # Absent /\ ~(Cardinality({g \in File : found.files[g] # Absent}) >= Limit)
  <2>1. Visit(f, disk, found) = [found EXCEPT !.files[f] = disk[f]]
    BY <1>4 DEF Visit
  <2> QED
    BY <1>1, <2>1 DEF Scanned, Scan
<1> QED
  BY <1>2, <1>3, <1>4

LEMMA NothingScanned == NoFiles \in Scan /\ Unpublished \in Inventory
BY DEF NoFiles, Scan, Unpublished, Inventory

\* The next inventory, when a scan found something else.
LEMMA NextInventory ==
    ASSUME Scanned
    PROVE  [data |-> found, revision |-> inventory.revision + 1] \in Inventory
BY DEF Scanned, Inventory

LEMMA ScannedStep == ASSUME Scanned, Paged, [DirectoryNext]_directoryVars PROVE Scanned'
<1> USE DEF Scanned
<1>0. Absent \in (SUBSET File) \cup {Absent}
  OBVIOUS
<1>1. CASE List
  BY <1>1, NothingScanned DEF List, Listing
<1>2. CASE Stat
  <2>1. todo \in SUBSET File /\ todo # {}
    BY <1>2 DEF Stat
  <2>2. Min(todo) \in File
    BY <2>1, NextName
  <2>3. found' \in Scan
    BY <1>2, <2>2, VisitScans DEF Stat
  <2>4. todo' \in SUBSET File
    <3>1. todo' = {} \/ todo' = todo \ {Min(todo)}
      BY <1>2 DEF Stat
    <3> QED
      BY <2>1, <3>1
  <2> QED
    BY <1>2, <2>3, <2>4 DEF Stat
<1>3. CASE Publish
  <2>1. inventory' = inventory \/ inventory' = [data |-> found, revision |-> inventory.revision + 1]
    BY <1>3 DEF Publish
  <2>2. inventory' \in Inventory
    BY <2>1, NextInventory
  <2>3. todo' = Absent /\ found' = NoFiles /\ disk' = disk
    BY <1>3 DEF Publish
  <2> QED
    BY <1>0, <2>2, <2>3, NothingScanned
<1>4. CASE RestartService
  <2>1. todo' = Absent /\ found' = NoFiles /\ inventory' = Unpublished /\ disk' = disk
    BY <1>4 DEF RestartService
  <2> QED
    BY <1>0, <2>1, NothingScanned
<1>5. CASE Open
  BY <1>5 DEF Open, service, Paged, Content
<1>6. CASE Save
  BY <1>6 DEF Save, service, Paged, Content
<1>7. ASSUME NEW f \in File, Change(f) PROVE Scanned'
  BY <1>7 DEF Change, service
<1>8. CASE UNCHANGED <<disk, service>>
  BY <1>8 DEF service
<1> QED
  BY <1>1, <1>2, <1>3, <1>4, <1>5, <1>6, <1>7, <1>8
  DEF DirectoryNext, Monitor, Break, Reload, Connect, Send, Receive, Files, Refresh, Submit,
      directoryVars

LEMMA StreamedStep == ASSUME Scanned, Streamed, Paged, [DirectoryNext]_directoryVars
                      PROVE  Streamed'
<1> USE DEF Streamed
<1>0. Closed \in [open : BOOLEAN, queue : Inventory \cup {Absent}, wire : Seq(Inventory)]
      /\ Len(Closed.wire) <= WireSize
  <2>1. <<>> \in Seq(Inventory) /\ Len(<<>>) = 0 /\ WireSize \in Nat
    BY ObservatoryAssumption
  <2> QED
    BY <2>1 DEF Closed
<1>1. CASE Publish
  <2>1. CASE UNCHANGED stream
    BY <2>1
  <2>2. CASE inventory' = [data |-> found, revision |-> inventory.revision + 1]
             /\ stream' = [stream EXCEPT !.queue = inventory']
    BY <2>2, NextInventory
  <2> QED
    BY <1>1, <2>1, <2>2 DEF Publish, Coalesce
<1>2. CASE Connect
  BY <1>0, <1>2 DEF Connect, Subscribed, Closed, Scanned
<1>3. CASE Send
  <2>1. /\ stream' = [stream EXCEPT !.queue = Absent, !.wire = Append(stream.wire, stream.queue)]
        /\ stream.queue \in Inventory /\ Len(stream.wire) < WireSize
    BY <1>3 DEF Send
  <2>2. /\ Append(stream.wire, stream.queue) \in Seq(Inventory)
        /\ Len(Append(stream.wire, stream.queue)) = Len(stream.wire) + 1
    BY <2>1
  <2> DEFINE w == Append(stream.wire, stream.queue)
  <2> HIDE DEF w
  <2>3. stream' = [stream EXCEPT !.queue = Absent, !.wire = w]
    BY <2>1 DEF w
  <2>4. w \in Seq(Inventory) /\ Len(w) <= WireSize
    BY <2>1, <2>2, ObservatoryAssumption DEF w
  <2> QED
    BY <2>3, <2>4
<1>4. CASE Break \/ RestartService \/ Reload
  BY <1>0, <1>4 DEF Break, RestartService, Reload
<1>5. CASE Receive
  <2>1. Tail(stream.wire) \in Seq(Inventory) /\ Len(Tail(stream.wire)) = Len(stream.wire) - 1
    BY <1>5 DEF Receive
  <2> DEFINE w == Tail(stream.wire)
  <2>2. stream' = [stream EXCEPT !.wire = w]
    BY <1>5 DEF Receive
  <2>3. w \in Seq(Inventory) /\ Len(w) <= WireSize
    BY <2>1, ObservatoryAssumption
  <2> HIDE DEF w
  <2> QED
    BY <2>2, <2>3
<1>6. CASE UNCHANGED stream
  BY <1>6
<1> QED
  BY <1>1, <1>2, <1>3, <1>4, <1>5, <1>6
  DEF DirectoryNext, Monitor, List, Stat, Files, Refresh, Open, Save, Submit, Change, directoryVars

LEMMA PagedStep == ASSUME Scanned, Streamed, Paged, [DirectoryNext]_directoryVars PROVE Paged'
<1> USE DEF Paged
<1>1. CASE RestartService \/ Reload
  BY <1>1, NothingScanned DEF RestartService, Reload
<1>2. CASE Receive
  <2>1. Head(stream.wire) \in Inventory
    BY <1>2 DEF Receive, Streamed
  <2> QED
    BY <1>2, <2>1 DEF Receive, Render
<1>3. CASE Files
  BY <1>3 DEF Files, Scanned
<1>4. CASE Refresh
  BY <1>4 DEF Refresh, Render
<1>5. CASE Open \/ Save
  BY <1>5 DEF Open, Save
<1>6. ASSUME NEW f \in File, Submit(f) \/ Change(f) PROVE Paged'
  <2>1. CASE Submit(f)
    BY <1>6, <2>1 DEF Submit
  <2>2. CASE Change(f)
    <3>1. \/ upload' = upload
          \/ upload # Absent /\ upload' = [upload EXCEPT !.linked = FALSE]
      BY <2>2 DEF Change
    <3>2. UNCHANGED <<seen, table, fetched, overtaken>>
      BY <2>2 DEF Change
    <3> QED
      BY <3>1, <3>2
  <2> QED
    BY <1>6, <2>1, <2>2
<1>7. CASE UNCHANGED view
  BY <1>7 DEF view
<1> QED
  BY <1>1, <1>2, <1>3, <1>4, <1>5, <1>6, <1>7
  DEF DirectoryNext, Monitor, List, Stat, Publish, Break, Connect, Send, directoryVars

LEMMA CountedStep == ASSUME Counted, [DirectoryNext]_directoryVars PROVE Counted'
<1> USE ObservatoryAssumption DEF Counted
<1>1. CASE Fault
  BY <1>1 DEF Fault
<1>2. CASE Edit
  BY <1>2 DEF Edit
<1>3. CASE UNCHANGED outside
  BY <1>3 DEF outside
<1> QED
  BY <1>1, <1>2, <1>3
  DEF DirectoryNext, Monitor, List, Stat, Publish, Break, RestartService, Reload, Connect, Send,
      Receive, Files, Refresh, Open, Save, Submit, Change, directoryVars
-----------------------------------------------------------------------------
\* What is on its way to the page.
LEMMA OnTheWay == ASSUME Streamed
                  PROVE  /\ Ahead \in Seq(Inventory)
                         /\ stream.queue = Absent => Ahead = stream.wire
                         /\ stream.queue # Absent => Ahead = Append(stream.wire, stream.queue)
<1>1. CASE stream.queue = Absent
  BY <1>1 DEF Streamed, Ahead
<1>2. CASE stream.queue # Absent
  BY <1>2 DEF Streamed, Ahead
<1> QED
  BY <1>1, <1>2

\* The last snapshot on its way, or the last event when there is none.
LEMMA Latest == ASSUME NEW s \in Seq(Inventory), NEW e
                PROVE  Last(<<e>> \o s) = IF s = <<>> THEN e ELSE s[Len(s)]
<1>1. Len(<<e>> \o s) = 1 + Len(s) /\ Len(s) \in Nat
  OBVIOUS
<1>2. CASE s = <<>>
  BY <1>2 DEF Last
<1>3. CASE s # <<>>
  <2>1. (<<e>> \o s)[1 + Len(s)] = s[Len(s)]
    BY <1>3
  <2> QED
    BY <1>1, <1>3, <2>1 DEF Last
<1> QED
  BY <1>2, <1>3

Fresh == stream.open => inventory = IF Ahead = <<>> THEN seen ELSE Ahead[Len(Ahead)]

LEMMA Freshness == Streamed => (NothingMissed <=> Fresh)
BY OnTheWay, Latest DEF NothingMissed, Fresh

LEMMA FeedStep ==
    ASSUME Scanned, Streamed, Paged, Streamed', ClosedEmpty, Fresh, InOrder, [DirectoryNext]_directoryVars
    PROVE  ClosedEmpty' /\ Fresh' /\ InOrder'
<1>0. /\ Ahead \in Seq(Inventory)
      /\ stream.queue = Absent => Ahead = stream.wire
      /\ stream.queue # Absent => Ahead = Append(stream.wire, stream.queue)
  BY OnTheWay
<1>1. /\ Ahead' \in Seq(Inventory)
      /\ stream'.queue = Absent => Ahead' = stream'.wire
      /\ stream'.queue # Absent => Ahead' = Append(stream'.wire, stream'.queue)
  <2> Streamed' => (/\ Ahead \in Seq(Inventory)
                    /\ stream.queue = Absent => Ahead = stream.wire
                    /\ stream.queue # Absent => Ahead = Append(stream.wire, stream.queue))'
    BY OnTheWay, PTL
  <2> QED
    OBVIOUS
<1> USE DEF Streamed
<1>2. CASE Break \/ RestartService \/ Reload
  <2>1. stream' = Closed
    BY <1>2 DEF Break, RestartService, Reload
  <2>2. Ahead' = <<>>
    BY <1>1, <2>1 DEF Closed
  <2> QED
    BY <2>1, <2>2 DEF ClosedEmpty, Fresh, InOrder, Closed
<1>3. CASE Connect
  <2>1. stream' = [open |-> TRUE, queue |-> inventory, wire |-> <<>>] /\ UNCHANGED inventory
    BY <1>3 DEF Connect, Subscribed, Closed, service
  <2>2. Ahead' = <<inventory>>
    BY <1>1, <2>1, QueueAssumption DEF Scanned
  <2> QED
    BY <2>1, <2>2 DEF ClosedEmpty, Fresh, InOrder
<1>4. CASE Send
  <2>1. /\ stream' = [stream EXCEPT !.queue = Absent, !.wire = Append(stream.wire, stream.queue)]
        /\ stream.queue # Absent /\ UNCHANGED <<inventory, seen>>
    BY <1>4 DEF Send, service, view
  <2>2. Ahead' = Ahead
    <3>1. stream'.queue = Absent /\ stream'.wire = Append(stream.wire, stream.queue)
      BY <2>1
    <3> QED
      BY <1>0, <1>1, <2>1, <3>1
  <2>3. stream.open /\ stream'.open
    BY <2>1 DEF ClosedEmpty, Closed
  <2> QED
    BY <2>1, <2>2, <2>3 DEF ClosedEmpty, Fresh, InOrder
<1>5. CASE Receive
  <2>1. /\ stream' = [stream EXCEPT !.wire = Tail(stream.wire)]
        /\ seen' = Head(stream.wire) /\ stream.wire # <<>> /\ UNCHANGED inventory
    BY <1>5 DEF Receive, service
  <2>2. Ahead # <<>> /\ Ahead' = Tail(Ahead) /\ seen' = Head(Ahead)
    <3>1. stream'.queue = stream.queue /\ stream'.wire = Tail(stream.wire)
      BY <2>1
    <3>2. CASE stream.queue = Absent
      BY <1>0, <1>1, <2>1, <3>1, <3>2
    <3>3. CASE stream.queue # Absent
      <4>1. Ahead = Append(stream.wire, stream.queue)
        BY <1>0, <3>3
      <4>2. Ahead' = Append(Tail(stream.wire), stream.queue)
        BY <1>1, <3>1, <3>3
      <4>3. stream.wire \in Seq(Inventory) /\ stream.wire # <<>> /\ stream.queue \in Inventory
        BY <2>1, <3>3
      <4> QED
        BY <2>1, <4>1, <4>2, <4>3
    <3> QED
      BY <3>2, <3>3
  <2>3. stream.open /\ stream'.open
    BY <2>1 DEF ClosedEmpty, Closed
  <2>4. Fresh'
    BY <1>0, <2>1, <2>2, <2>3 DEF Fresh
  <2>5. \A i \in DOMAIN Ahead' : Ahead'[i] = Ahead[i + 1] /\ i + 1 \in DOMAIN Ahead
    BY <1>0, <2>2
  <2>6. InOrder'
    BY <1>0, <1>1, <2>5 DEF InOrder
  <2> QED
    BY <2>3, <2>4, <2>6 DEF ClosedEmpty
<1>6. CASE Publish /\ ~UNCHANGED <<inventory, stream>>
  <2>1. /\ inventory' = [data |-> found, revision |-> inventory.revision + 1]
        /\ inventory' \in Inventory /\ seen' = seen
        /\ stream' = IF stream.open THEN [stream EXCEPT !.queue = inventory'] ELSE stream
    BY <1>6, NextInventory DEF Publish, Coalesce, view
  <2>2. CASE ~stream.open
    <3>1. stream' = stream /\ Ahead' = Ahead
      BY <1>0, <1>1, <2>1, <2>2
    <3> QED
      BY <2>2, <3>1 DEF ClosedEmpty, Fresh, InOrder
  <2>3. CASE stream.open
    <3>1. /\ stream'.open /\ stream'.wire = stream.wire /\ stream'.queue = inventory'
          /\ inventory' # Absent
      BY <2>1, <2>3, QueueAssumption
    <3>2. Ahead' = Append(stream.wire, inventory')
      BY <1>1, <3>1
    <3>3. \A i \in DOMAIN stream.wire : Ahead[i].revision <= inventory.revision /\ Ahead[i] = stream.wire[i]
      <4> SUFFICES ASSUME NEW i \in DOMAIN stream.wire
                   PROVE  Ahead[i].revision <= inventory.revision /\ Ahead[i] = stream.wire[i]
        OBVIOUS
      <4>1. /\ i \in 1..Len(Ahead) /\ Ahead[i] = stream.wire[i] /\ Len(Ahead) \in 1..Len(Ahead)
            /\ Len(Ahead) \in Nat /\ Ahead[i] \in Inventory /\ Ahead # <<>>
        BY <1>0
      <4>2. inventory = Ahead[Len(Ahead)]
        BY <2>3, <4>1 DEF Fresh
      <4>3. CASE i = Len(Ahead)
        BY <4>1, <4>2, <4>3 DEF Scanned, Inventory
      <4>4. CASE i < Len(Ahead)
        <5>1. Ahead[i].revision < inventory.revision
          BY <1>0, <4>1, <4>2, <4>4 DEF InOrder
        <5> QED
          BY <4>1, <5>1 DEF Scanned, Inventory
      <4> QED
        BY <4>1, <4>3, <4>4
    <3>4. InOrder'
      <4> SUFFICES ASSUME NEW i \in DOMAIN Ahead', NEW j \in DOMAIN Ahead', i < j
                   PROVE  Ahead'[i].revision < Ahead'[j].revision
        BY DEF InOrder
      <4>1. /\ i \in DOMAIN stream.wire /\ Ahead'[i] = stream.wire[i]
            /\ \/ j \in DOMAIN stream.wire /\ Ahead'[j] = stream.wire[j]
               \/ Ahead'[j] = inventory'
        BY <3>2
      <4>2. /\ Ahead[i].revision <= inventory.revision /\ Ahead[i] = stream.wire[i]
            /\ Ahead[i] \in Inventory /\ i \in DOMAIN Ahead
        BY <1>0, <3>3, <4>1
      <4>3. CASE Ahead'[j] = inventory'
        BY <2>1, <4>1, <4>2, <4>3 DEF Scanned, Inventory
      <4>4. CASE j \in DOMAIN stream.wire /\ Ahead'[j] = stream.wire[j]
        BY <1>0, <3>3, <4>1, <4>2, <4>4 DEF InOrder
      <4> QED
        BY <4>1, <4>3, <4>4
    <3>5. Fresh'
      BY <3>1, <3>2 DEF Fresh
    <3> QED
      BY <3>1, <3>4, <3>5 DEF ClosedEmpty
  <2> QED
    BY <2>2, <2>3
<1>7. CASE UNCHANGED <<inventory, stream, seen>>
  BY <1>7 DEF ClosedEmpty, Fresh, InOrder, Ahead
<1>8. CASE Publish /\ UNCHANGED <<inventory, stream>>
  BY <1>7, <1>8 DEF Publish, view
<1>9. CASE \/ List \/ Stat \/ Files \/ Refresh \/ Open \/ Save \/ UNCHANGED directoryVars
           \/ \E f \in File : Submit(f) \/ Change(f)
  BY <1>7, <1>9 DEF List, Stat, Files, Refresh, Open, Save, Submit, Change, directoryVars,
                    service, view
<1> QED
  BY <1>2, <1>3, <1>4, <1>5, <1>6, <1>8, <1>9 DEF DirectoryNext, Monitor
-----------------------------------------------------------------------------
LEMMA Initially == ASSUME DirectoryInit PROVE DirectoryIInv
<1>1. Scanned
  <2>1. Absent \in (SUBSET File) \cup {Absent}
    OBVIOUS
  <2>2. disk \in [File -> Content \cup {Absent}]
    BY DEF DirectoryInit, Content
  <2> QED
    BY <2>1, <2>2, NothingScanned DEF DirectoryInit, Scanned
<1>2. Streamed
  <2>1. <<>> \in Seq(Inventory) /\ Len(<<>>) = 0 /\ WireSize \in Nat
    BY ObservatoryAssumption
  <2> QED
    BY <2>1 DEF DirectoryInit, Closed, Streamed
<1>3. Paged
  BY NothingScanned DEF DirectoryInit, Paged
<1>4. Counted
  BY ObservatoryAssumption DEF DirectoryInit, Counted
<1>5. ~stream.open /\ Ahead = <<>>
  BY <1>2, OnTheWay DEF DirectoryInit, Closed
<1>6. ClosedEmpty /\ NothingMissed /\ InOrder
  BY <1>5 DEF DirectoryInit, ClosedEmpty, NothingMissed, InOrder
<1> QED
  BY <1>1, <1>2, <1>3, <1>4, <1>6, TypeParts DEF DirectoryIInv

LEMMA Invariance == DirectorySpec => []DirectoryIInv
<1>1. DirectoryInit => DirectoryIInv
  BY Initially
<1>2. DirectoryIInv /\ [DirectoryNext]_directoryVars => DirectoryIInv'
  <2> SUFFICES ASSUME DirectoryIInv, [DirectoryNext]_directoryVars PROVE DirectoryIInv'
    OBVIOUS
  <2>1. /\ Scanned /\ Streamed /\ Paged /\ Counted
        /\ ClosedEmpty /\ Fresh /\ InOrder
    BY TypeParts, Freshness DEF DirectoryIInv
  <2>2. Scanned' /\ Streamed' /\ Paged' /\ Counted'
    BY <2>1, ScannedStep, StreamedStep, PagedStep, CountedStep
  <2>3. ClosedEmpty' /\ Fresh' /\ InOrder'
    BY <2>1, <2>2, FeedStep
  <2>4. DirectoryTypeOK' /\ NothingMissed'
    <3>1. (Scanned /\ Streamed /\ Paged /\ Counted /\ Fresh => DirectoryTypeOK /\ NothingMissed)'
      BY TypeParts, Freshness, PTL
    <3> QED
      BY <2>2, <2>3, <3>1
  <2> QED
    BY <2>3, <2>4 DEF DirectoryIInv
<1> QED
  BY <1>1, <1>2, PTL DEF DirectorySpec

\* A subscriber that has taken everything was last sent the current inventory, what
\* it has not taken ends with it, and it gets every revision once and in order
\* (events.py 41-53, app.py 79-88, app.js 49).
THEOREM Feed == DirectorySpec => []FeedInv
<1>1. DirectoryIInv => FeedInv
  BY DEF DirectoryIInv, FeedInv
<1> QED
  BY <1>1, Invariance, PTL
=============================================================================
