------------------------------- MODULE Replay -------------------------------
(* The replay of a recorded evaluation in the playground's page              *)
(* (static/app.js): a trace of events, a cursor that the buttons, the slider *)
(* and a timer move, and buttons that are enabled by the cursor last drawn.  *)
(* Workbench composes it with the rest of the page, whose answers replace    *)
(* the trace at any time.                                                    *)
EXTENDS Integers

CONSTANT Lengths   \* how many events an evaluation may record

ASSUME ReplayAssumption == Lengths \subseteq Nat

VARIABLES trace,     \* the length of the trace that is shown
          recorded,  \* that of the last evaluation, for "Play" and the slider
          cursor, drawn,   \* the cursor, and what step() has shown of it
          timer      \* the interval runs
replay == <<trace, recorded, cursor, drawn, timer>>

ReplayTypeOK == /\ {trace, recorded} \subseteq Lengths \cup {0}
                /\ {cursor, drawn} \subseteq Int
                /\ timer \in BOOLEAN
ReplayInit == trace = 0 /\ recorded = 0 /\ cursor = 0 /\ drawn = 0 /\ timer = FALSE
-----------------------------------------------------------------------------
PreviousOn == drawn > 0
NextOn == drawn < trace - 1
PlayOn == recorded > 0

\* mutant: the replay stops when it is past the last event
StopLate(to, events, on) == drawn' = to /\ timer' = (on /\ to < events)
\* step(), which stops at the last of these events
Step(to, events, on) == drawn' = to /\ timer' = (on /\ to < events - 1)
\* stop() and step() with a new cursor
Move(to) == cursor' = to /\ Step(to, trace, FALSE) /\ UNCHANGED <<trace, recorded>>

Previous == PreviousOn /\ Move(cursor - 1)
Forward == NextOn /\ Move(cursor + 1)
Slide == \E to \in 0..(recorded - 1) : Move(to)
\* a second click is a pause; at the end the replay begins again
Rewound == IF cursor >= trace - 1 THEN -1 ELSE cursor
Play == /\ PlayOn
        /\ timer' = ~timer
        /\ cursor' = IF timer THEN cursor ELSE Rewound
        /\ UNCHANGED <<trace, recorded, drawn>>
Tick == /\ timer
        /\ cursor' = cursor + 1
        /\ Step(cursor + 1, trace, TRUE)
        /\ UNCHANGED <<trace, recorded>>

\* evaluation(): a new trace
Record(n) == trace' = n /\ recorded' = n /\ cursor' = 0 /\ Step(0, n, FALSE)
\* the answer of "Parse": no trace, and the cursor stays
Clear == trace' = 0 /\ Step(cursor, 0, timer) /\ UNCHANGED <<recorded, cursor>>
\* stop(), in a handler that does nothing else to the replay
Halt == timer' = FALSE /\ UNCHANGED <<trace, recorded, cursor, drawn>>
\* a new page
Reset == trace' = 0 /\ recorded' = 0 /\ cursor' = 0 /\ drawn' = 0 /\ timer' = FALSE

Watch == Previous \/ Forward \/ Slide \/ Play \/ Tick
-----------------------------------------------------------------------------
\* The replay never runs past the last event, by hand, by the slider or by the
\* timer, whatever replaces the trace meanwhile (app.js 44-55, 77-79).  It can
\* leave the first one: "Play" at the end sets the cursor to -1 until the timer
\* fires, and "Previous", still enabled, goes on from there.
ShowsAnEvent == /\ trace > 0 => drawn \in -2..(trace - 1)
                /\ drawn < 0 => cursor = drawn
                /\ timer => cursor < 0 \/ cursor < trace - 1
=============================================================================
