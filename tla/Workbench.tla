----------------------------- MODULE Workbench -----------------------------
(* The playground: one browser page (static/app.js) and the service behind   *)
(* it (engine.py), which runs one command at a time on one thread.  The page *)
(* has asynchronous functions that await answers, so that a user who does    *)
(* not wait has several of them in progress; requests and answers overtake   *)
(* each other, a connection fails before or after its request was served,    *)
(* the page is left and loaded again, sessions expire, the service restarts. *)
EXTENDS Replay, Highlight, FiniteSets

CONSTANTS Text,         \* the programs a user may write
          Broken,       \* those that do not parse
          Id,           \* names of sessions; a name nobody knows is used again
          MaxSessions,  \* business.sessions.max_count
          Call,         \* functions of the page in progress at a time
          None, Refused \* no value; an answer api() throws on

ASSUME WorkbenchAssumption ==
    /\ Broken \subseteq Text /\ MaxSessions \in Nat
    /\ Refused # None
    /\ {None, Refused} \cap (Text \cup Id \cup Lengths) = {}

VARIABLES session,      \* of the page, and of sessionStorage
          report,       \* the program whose trees are shown
          text, shown,  \* the editors, and what their backdrops show
          evaluateOff, parseOff,  \* disabled buttons
          leaving,      \* location.reload() or the user reloads the page
          calls,        \* requests and what the page does with their answers
          sessions,     \* Engine.sessions
          idle,         \* those that are not used for idle_seconds
          overlapped,   \* history: the text changed while a call was in progress
          calm          \* history: the user always waited and nothing was lost
form == <<session, report, text, shown, evaluateOff, parseOff, leaving>>
page == <<form, replay>>
server == <<sessions, idle>>
history == <<overlapped, calm>>
vars == <<page, calls, server, history>>

Session == [program : Text \cup {None}, trace : Lengths \cup {None}]
Program(t) == [program |-> t, trace |-> None]
Nothing == Program(None)
Request == [do : {"create", "delete", "read", "parse", "evaluate"}, fresh : BOOLEAN,
            id : Id \cup {None}, text : Text \cup {None}, at : {"sent", "answered", "orphan"},
            reply : Session \cup Id \cup {None, Refused}]

ASSUME AnswerAssumption == None \notin Request /\ Refused \notin Session

TypeOK == /\ session \in Id \cup {None} /\ report \in Text \cup {None}
          /\ text \in Text /\ shown \in Text /\ ReplayTypeOK
          /\ {evaluateOff, parseOff, leaving, overlapped, calm} \subseteq BOOLEAN
          /\ calls \in [Call -> Request \cup {None}]
          /\ sessions \in [Id -> Session \cup {None}] /\ idle \subseteq Id

Sent(do, fresh, id) == [do |-> do, fresh |-> fresh, id |-> id, text |-> None, at |-> "sent",
                        reply |-> None]
InProgress == {c \in Call : calls[c] # None /\ calls[c].at # "orphan"}
Requested == {c \in Call : calls[c] # None /\ calls[c].at # "answered"}
Waited == calm /\ InProgress = {}
-----------------------------------------------------------------------------
(* The editors and buttons.                                                  *)

Write(t, off) == /\ t # text
                 /\ text' = t /\ shown' = t /\ evaluateOff' = off
                 /\ overlapped' = (InProgress # {}) /\ calm' = Waited
                 /\ UNCHANGED <<session, report, parseOff, leaving, calls, server>>
\* mutant: an edit leaves "Evaluate" as it is
TypeOn(t) == Write(t, evaluateOff) /\ Halt
Type(t) == Write(t, TRUE) /\ Halt
\* the samples all parse
Samples == Text \ Broken
Pick(t) == t \in Samples /\ Write(t, TRUE) /\ UNCHANGED replay
Begin(c, request) == /\ calls[c] = None
                     /\ calls' = [calls EXCEPT ![c] = request]
                     /\ calm' = Waited
                     /\ UNCHANGED <<server, overlapped>>

\* start(true): the session is closed first, if there is one
Start(id, fresh) == IF id = None THEN Sent("create", fresh, None)
                    ELSE Sent(IF fresh THEN "delete" ELSE "read", fresh, id)
NewSession(c) == /\ Begin(c, Start(session, TRUE))
                 /\ Halt
                 /\ UNCHANGED <<session, report, text, shown, evaluateOff, parseOff, leaving>>
Parse(c) == /\ ~parseOff
            /\ Begin(c, [Sent("parse", FALSE, session) EXCEPT !.text = text])
            /\ parseOff' = TRUE /\ evaluateOff' = TRUE
            /\ Halt
            /\ UNCHANGED <<session, report, text, shown, leaving>>
Evaluate(c) == /\ ~evaluateOff
               /\ Begin(c, Sent("evaluate", FALSE, session))
               /\ evaluateOff' = TRUE
               /\ UNCHANGED <<session, report, text, shown, replay, parseOff, leaving>>

\* A new page, which begins with start().  The browser may keep what was in the
\* editors.  Requests of the old page may still reach the service.
Load == /\ leaving' = FALSE
        /\ report' = None /\ Reset /\ evaluateOff' = TRUE /\ parseOff' = FALSE
        /\ \E t \in Text : text' = t /\ shown' = t
        /\ \E c \in Call \ Requested :
              calls' = [d \in Call |-> IF d = c THEN Start(session, FALSE)
                                       ELSE IF d \in Requested THEN [calls[d] EXCEPT !.at = "orphan"]
                                       ELSE None]
        /\ overlapped' = FALSE /\ calm' = (calm /\ \A c \in Call : calls[c] = None)
        /\ UNCHANGED <<session, server>>
-----------------------------------------------------------------------------
(* The service.  dispatch() removes what has expired before every command.   *)

Alive == {s \in Id : sessions[s] # None /\ s \notin idle}
Kept == [s \in Id |-> IF s \in Alive THEN sessions[s] ELSE None]
Known == {session} \cup UNION {{calls[c].id, calls[c].reply} : c \in {d \in Call : calls[d] # None}}
\* a fresh name; one nobody knows any more may be used again
NewIds == {s \in Id \ Known : sessions[s] = None}

Answer(c, reply) == calls' = [calls EXCEPT ![c] = IF @.at = "orphan" THEN None
                                                  ELSE [@ EXCEPT !.at = "answered", !.reply = reply]]
Command(c, do) == /\ c \in Requested /\ calls[c].do = do
                  /\ idle' = {}
                  /\ UNCHANGED <<page, history>>
Found(c) == calls[c].id \in Alive

Create(c) == /\ Command(c, "create")
             /\ IF Cardinality(Alive) >= MaxSessions
                THEN Answer(c, Refused) /\ sessions' = Kept
                ELSE \E s \in NewIds :
                         /\ Answer(c, s)
                         /\ sessions' = [Kept EXCEPT ![s] = Nothing]
Delete(c) == /\ Command(c, "delete") /\ Found(c)
             /\ Answer(c, Nothing)
             /\ sessions' = [Kept EXCEPT ![calls[c].id] = None]
Read(c) == /\ Command(c, "read") /\ Found(c)
           /\ Answer(c, sessions[calls[c].id])
           /\ sessions' = Kept
\* mutant: the program is replaced before it is known to parse
ReplaceFirst(c) == /\ Command(c, "parse") /\ Found(c)
                   /\ Answer(c, IF calls[c].text \in Broken THEN Nothing ELSE Program(calls[c].text))
                   /\ sessions' = [Kept EXCEPT ![calls[c].id] = Program(calls[c].text)]
ParseProgram(c) == LET t == calls[c].text IN
    /\ Command(c, "parse") /\ Found(c)
    /\ IF t \in Broken THEN Answer(c, Nothing) /\ sessions' = Kept
       ELSE Answer(c, Program(t)) /\ sessions' = [Kept EXCEPT ![calls[c].id] = Program(t)]
EvaluateProgram(c) == /\ Command(c, "evaluate") /\ Found(c)
                      /\ IF sessions[calls[c].id].program = None
                         THEN Answer(c, Refused) /\ sessions' = Kept
                         ELSE \E n \in Lengths : LET new == [sessions[calls[c].id] EXCEPT !.trace = n]
                                IN Answer(c, new) /\ sessions' = [Kept EXCEPT ![calls[c].id] = new]
Missing(c) == /\ \E do \in {"delete", "read", "parse", "evaluate"} : Command(c, do)
              /\ ~Found(c)
              /\ Answer(c, Refused) /\ sessions' = Kept

Serve(c) == Create(c) \/ Delete(c) \/ Read(c) \/ ParseProgram(c) \/ EvaluateProgram(c) \/ Missing(c)

Idle(s) == s \in Alive /\ idle' = idle \cup {s} /\ UNCHANGED <<page, calls, sessions, history>>
Restart == /\ sessions' = [s \in Id |-> None] /\ idle' = {}
           /\ UNCHANGED <<page, calls, history>>

\* the connection fails, before or after the request was served
Lose(c) == /\ c \in InProgress
           /\ calls' = [calls EXCEPT ![c].at = "answered", ![c].reply = Refused]
           /\ calm' = FALSE
           /\ UNCHANGED <<page, server, overlapped>>
-----------------------------------------------------------------------------
(* The page again: what follows an await.                                    *)

\* mutant: "Evaluate" is enabled by every answer
Always == FALSE
\* the "finally" of "Evaluate": a session that was replaced meanwhile has no report
Unparsed == report = None

\* display(): syntax trees, dependencies and their graph, all of one report
Display(t) == report' = t /\ evaluateOff' = FALSE

Answered(c, do) == /\ calls[c] # None /\ calls[c].at = "answered" /\ calls[c].do = do
                   /\ UNCHANGED <<server, calm>>
Go(c, request) == calls' = [calls EXCEPT ![c] = request]

\* start(): a failure of the DELETE is ignored
Deleted(c) == /\ Answered(c, "delete")
              /\ Go(c, Sent("create", TRUE, None))
              /\ UNCHANGED <<page, overlapped>>
Restored(c) == LET was == calls[c].reply IN
    /\ Answered(c, "read")
    /\ IF was = Refused
       THEN Go(c, Sent("create", FALSE, None)) /\ UNCHANGED <<page, overlapped>>
       ELSE /\ Go(c, None)
            /\ IF was.program = None THEN UNCHANGED <<page, overlapped>>
               ELSE /\ text' = was.program /\ shown' = was.program
                    /\ Display(was.program)
                    /\ IF was.trace = None THEN UNCHANGED replay ELSE Record(was.trace)
                    /\ overlapped' = (InProgress # {c})
                    /\ UNCHANGED <<session, parseOff, leaving>>
Created(c) == /\ Answered(c, "create")
              /\ Go(c, None)
              /\ IF calls[c].reply = Refused THEN UNCHANGED page
                 ELSE /\ session' = calls[c].reply /\ report' = None /\ evaluateOff' = TRUE
                      /\ leaving' = (leaving \/ calls[c].fresh)
                      /\ UNCHANGED <<text, shown, replay, parseOff>>
              /\ UNCHANGED overlapped
Parsed(c) == /\ Answered(c, "parse")
             /\ Go(c, None)
             /\ parseOff' = FALSE
             /\ IF calls[c].reply \notin {Refused, Nothing}
                THEN Display(calls[c].text) /\ Clear
                ELSE UNCHANGED <<report, evaluateOff, replay>>
             /\ UNCHANGED <<session, text, shown, leaving, overlapped>>
Replayed(c) == /\ Answered(c, "evaluate")
               /\ Go(c, None)
               /\ evaluateOff' = Unparsed
               /\ IF calls[c].reply = Refused THEN UNCHANGED replay ELSE Record(calls[c].reply.trace)
               /\ UNCHANGED <<session, report, text, shown, parseOff, leaving, overlapped>>
Continue(c) == Deleted(c) \/ Restored(c) \/ Created(c) \/ Parsed(c) \/ Replayed(c)
-----------------------------------------------------------------------------
Init == /\ session = None /\ report = None /\ ReplayInit
        /\ evaluateOff = TRUE /\ parseOff = FALSE /\ leaving = FALSE
        /\ text \in Text \ Broken /\ shown = text
        /\ \E c \in Call : calls = [d \in Call |-> IF d = c THEN Start(None, FALSE) ELSE None]
        /\ sessions = [s \in Id |-> None] /\ idle = {}
        /\ overlapped = FALSE /\ calm = TRUE

Next == \/ Watch /\ UNCHANGED <<form, calls, server, history>>
        \/ \E t \in Text : Type(t) \/ Pick(t)
        \/ \E c \in Call : \/ NewSession(c) \/ Parse(c) \/ Evaluate(c)
                           \/ Serve(c) \/ Lose(c) \/ Continue(c)
        \/ Load \/ Restart
        \/ \E s \in Id : Idle(s)

Spec == Init /\ [][Next]_vars
-----------------------------------------------------------------------------
\* The backdrops show what is in the editors (app.js 5, 62-63, 74-75).
ShowsText == shown = text
\* Whatever is typed, an editor's backdrop shows it: the browser's text of the
\* markup is the source, to the last character, and no character of the source
\* becomes markup (lcl-highlight.js 30-50, tests/lcl_highlight.cjs 4-8).
ShowsSource == ShowsText => Distorted = {}
\* It colours strings and comments as a scanner reads them, unfinished ones
\* included: no "#" in a string starts a comment, no quote in a comment a string,
\* and a name, an operator or a space is never cut short (lcl-highlight.js 28-75).
ColoursAsScanned == ShowsText => Miscoloured = {}

\* "Evaluate" is offered only for a program that parsed in this session, even
\* if the session was replaced or the page's calls overlapped (41, 61, 67, 73).
NeedsReport == ~evaluateOff => report # None
\* "Parse" is disabled only while a call is in progress that enables it again,
\* whatever else fails, is lost or overtakes it (67, 71).
NeverStuck == parseOff => \E c \in InProgress : calls[c].do = "parse"

\* What holds of the page at all times.
PageInv == TypeOK /\ ShowsText /\ NeedsReport /\ NeverStuck

\* "Source changed. Parse again before evaluating." (74): unless the text was
\* changed while a call was in progress, "Evaluate" is enabled only while the
\* editors show the program it will run, in the page's own account of it.
OfferedAsParsed == ~evaluateOff /\ ~overlapped => text = report

\* A user who waits for every answer, of a service that loses none, sees what
\* the service has: its session is the only one that was left there, and the
\* trees and the trace are those of this session, if it still exists
\* (app.js 37-42, 50-73, engine.py 48-76, 115-119, 135-137).
ExactWhenCalm == calm /\ ~leaving /\ (\A c \in Call : calls[c] = None) =>
    /\ \A s \in Id : sessions[s] # None => s = session
    /\ session # None /\ sessions[session] # None =>
          /\ report = sessions[session].program
          /\ trace = IF sessions[session].trace = None THEN 0 ELSE sessions[session].trace
=============================================================================
