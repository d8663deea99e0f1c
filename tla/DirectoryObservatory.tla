------------------------ MODULE DirectoryObservatory ------------------------
(* The directory monitor of examples/: a background thread scans a directory *)
(* and publishes what changed on the service's event loop (files.py,         *)
(* events.py); every browser page has a stream of server-sent events with a  *)
(* queue of its own (app.py), and also fetches the inventory when it is      *)
(* loaded or its user asks (static/app.js).  The directory changes while it  *)
(* is scanned, by others and by uploads; streams break, the page is loaded   *)
(* again, the service restarts.  One page stands for all of them: publish()  *)
(* does the same for every subscriber and waits for none.  So does the queue *)
(* of a stream whose end the service has not noticed yet, which nobody sees. *)
EXTENDS Integers, Sequences, FiniteSets, FiniteSetsExt, SequencesExt

CONSTANTS File,                     \* paths, numbered in the order of the walk
          Empty, Full,              \* contents: a new file, and a written one
          Limit,                    \* max_entries
          WireSize,                 \* snapshots on their way to a page
          MaxEdits, MaxFaults,      \* bounds on what happens from outside
          Absent, Unscanned         \* no value; the inventory before any scan

ASSUME ObservatoryAssumption == /\ File \subseteq Nat /\ {Limit, WireSize} \subseteq Nat \ {0}
                                /\ {MaxEdits, MaxFaults} \subseteq Nat
                                /\ Absent \notin {Empty, Full, Unscanned}

VARIABLES disk,               \* the contents of the files
          todo, found,        \* scan(): names listed and not yet stat'ed; its result
          inventory,          \* Inventory.snapshot and .revision
          stream,             \* the EventSource, and the queue of one on the other side
          seen, table,        \* the page: the last event, and what the table shows
          fetched,            \* an answer for refresh()
          overtaken,          \* history: the table shows what refresh() brought too late
          upload,             \* the page's PUT
          edits, faults       \* what has happened from outside
service == <<todo, found, inventory>>
view == <<seen, table, fetched, overtaken, upload>>
outside == <<edits, faults>>
directoryVars == <<disk, service, stream, view, outside>>

Content == {Empty, Full}
Scan == [files : [File -> Content \cup {Absent}], failed : SUBSET File, truncated : BOOLEAN]
NoFiles == [files |-> [f \in File |-> Absent], failed |-> {}, truncated |-> FALSE]
Inventory == [data : Scan \cup {Unscanned}, revision : Nat]
Unpublished == [data |-> Unscanned, revision |-> 0]
Closed == [open |-> FALSE, queue |-> Absent, wire |-> <<>>]

ASSUME QueueAssumption == Absent \notin Inventory

DirectoryTypeOK == /\ disk \in [File -> Content \cup {Absent}]
                   /\ todo \in (SUBSET File) \cup {Absent} /\ found \in Scan
                   /\ inventory \in Inventory
                   /\ stream \in [open : BOOLEAN, queue : Inventory \cup {Absent},
                                  wire : Seq(Inventory)]
                   /\ Len(stream.wire) <= WireSize
                   /\ fetched \in [answer : Inventory, late : BOOLEAN] \cup {Absent}
                   /\ upload \in [file : File, open : BOOLEAN, linked : BOOLEAN] \cup {Absent}
                   /\ {seen, table} \subseteq Inventory
                   /\ overtaken \in BOOLEAN /\ edits \in 0..MaxEdits /\ faults \in 0..MaxFaults
-----------------------------------------------------------------------------
(* The monitor: a scan is a listing and, later, an lstat() of each name in   *)
(* the order of the walk.                                                    *)

Listing(d) == {f \in File : d[f] # Absent}
Visit(f, d, scan) ==
    CASE d[f] = Absent -> [scan EXCEPT !.failed = @ \cup {f}]
      [] d[f] # Absent /\ Cardinality({g \in File : scan.files[g] # Absent}) >= Limit
            -> [scan EXCEPT !.truncated = TRUE]
      [] OTHER -> [scan EXCEPT !.files[f] = d[f]]

List == /\ todo = Absent
        /\ todo' = Listing(disk) /\ found' = NoFiles
        /\ UNCHANGED <<disk, inventory, stream, view, outside>>
Stat == /\ todo \notin {Absent, {}}
        /\ found' = Visit(Min(todo), disk, found)
        /\ todo' = IF found'.truncated THEN {} ELSE todo \ {Min(todo)}
        /\ UNCHANGED <<disk, inventory, stream, view, outside>>

\* mutant: a slow consumer keeps the snapshot it has not taken yet
KeepFirst(queue, current) == IF queue = Absent THEN current ELSE queue
\* a full queue is emptied for the newest snapshot
Coalesce(queue, current) == current
Publish == /\ todo = {}
           /\ todo' = Absent
           /\ found' = NoFiles
           /\ IF found = inventory.data THEN UNCHANGED <<inventory, stream>>
              ELSE /\ inventory' = [data |-> found, revision |-> inventory.revision + 1]
                   /\ stream' = IF stream.open
                                THEN [stream EXCEPT !.queue = Coalesce(@, inventory')] ELSE stream
           /\ UNCHANGED <<disk, view, outside>>
-----------------------------------------------------------------------------
(* The stream.                                                               *)

\* mutant: a subscriber waits for the next change
SubscribedLater(current) == [Closed EXCEPT !.open = TRUE]
\* stream() subscribes and begins with the current inventory
Subscribed(current) == [Closed EXCEPT !.open = TRUE, !.queue = current]
\* EventSource connects, and again after every error
Connect == /\ ~stream.open
           /\ stream' = Subscribed(inventory)
           /\ UNCHANGED <<disk, service, view, outside>>
\* a client that does not read keeps the stream in its "yield"
Send == /\ stream.queue # Absent /\ Len(stream.wire) < WireSize
        /\ stream' = [stream EXCEPT !.queue = Absent, !.wire = Append(@, stream.queue)]
        /\ UNCHANGED <<disk, service, view, outside>>

Fault == faults < MaxFaults /\ faults' = faults + 1 /\ UNCHANGED edits
\* EventStream notices and cancels the response, whose "finally" unsubscribes
Break == /\ Fault /\ stream.open
         /\ stream' = Closed
         /\ UNCHANGED <<disk, service, view>>
RestartService == /\ Fault
                  /\ todo' = Absent /\ found' = NoFiles /\ inventory' = Unpublished
                  /\ stream' = Closed
                  /\ upload' = Absent
                  /\ UNCHANGED <<disk, seen, table, fetched, overtaken>>
-----------------------------------------------------------------------------
(* The page.                                                                 *)

\* loaded again; "pagehide" closes the stream, an upload goes on in the service
Reload == /\ Fault
          /\ stream' = Closed
          /\ seen' = Unpublished /\ table' = Unpublished /\ overtaken' = FALSE
          /\ fetched' = Absent
          /\ UNCHANGED <<disk, service, upload>>

\* the table, counters and links show all of this, and nothing of what was shown
\* before; the filter selects again from what is shown
Render(data) == table' = data
Receive == /\ stream.wire # <<>>
           /\ seen' = Head(stream.wire) /\ Render(Head(stream.wire)) /\ overtaken' = FALSE
           /\ stream' = [stream EXCEPT !.wire = Tail(@)]
           /\ fetched' = IF fetched = Absent THEN Absent ELSE [fetched EXCEPT !.late = TRUE]
           /\ UNCHANGED <<disk, service, upload, outside>>

\* refresh(): there may be a request at any time, and its answer is under way
\* until the page renders it, or says that the request failed
Files == /\ fetched = Absent
         /\ fetched' = [answer |-> inventory, late |-> FALSE]
         /\ UNCHANGED <<disk, service, stream, seen, table, overtaken, upload, outside>>
Refresh == /\ fetched # Absent
           /\ fetched' = Absent
           /\ \/ Render(fetched.answer) /\ overtaken' = (fetched.late /\ fetched.answer # seen)
              \/ UNCHANGED <<table, overtaken>>
           /\ UNCHANGED <<disk, service, stream, seen, upload, outside>>
-----------------------------------------------------------------------------
(* Uploads, and whoever else writes to the directory.                        *)

Edit == edits < MaxEdits /\ edits' = edits + 1 /\ UNCHANGED faults
\* one at a time, as its button is disabled until there is an answer
Submit(f) == /\ Edit /\ upload = Absent
             /\ upload' = [file |-> f, open |-> FALSE, linked |-> TRUE]
             /\ UNCHANGED <<disk, service, stream, seen, table, fetched, overtaken>>
\* save() creates the file, or finds that there is one; or upload() refuses
Open == /\ upload # Absent /\ ~upload.open
        /\ \/ /\ disk[upload.file] = Absent
              /\ disk' = [disk EXCEPT ![upload.file] = Empty]
              /\ upload' = [upload EXCEPT !.open = TRUE]
           \/ upload' = Absent /\ UNCHANGED disk
        /\ UNCHANGED <<service, stream, seen, table, fetched, overtaken, outside>>
\* what is written to a file that was removed meanwhile is gone; a write may fail
Save == /\ upload # Absent /\ upload.open
        /\ upload' = Absent
        /\ \/ upload.linked /\ disk' = [disk EXCEPT ![upload.file] = Full]
           \/ UNCHANGED disk
        /\ UNCHANGED <<service, stream, seen, table, fetched, overtaken, outside>>
Change(f) == /\ Edit
             /\ \E to \in (Content \cup {Absent}) \ {disk[f]} : disk' = [disk EXCEPT ![f] = to]
             /\ upload' = IF upload # Absent /\ upload.file = f /\ disk'[f] = Absent
                          THEN [upload EXCEPT !.linked = FALSE] ELSE upload
             /\ UNCHANGED <<service, stream, seen, table, fetched, overtaken>>
-----------------------------------------------------------------------------
DirectoryInit == /\ \E c \in {Absent, Full} : disk = [f \in File |-> c]
                 /\ todo = Absent /\ found = NoFiles /\ inventory = Unpublished
                 /\ stream = Closed /\ seen = Unpublished /\ table = Unpublished
                 /\ fetched = Absent /\ overtaken = FALSE /\ upload = Absent
                 /\ edits = 0 /\ faults = 0

Monitor == List \/ Stat \/ Publish
DirectoryNext == \/ Monitor \/ Break \/ RestartService \/ Reload
                 \/ Connect \/ Send \/ Receive \/ Files \/ Refresh \/ Open \/ Save
                 \/ \E f \in File : Submit(f) \/ Change(f)

DirectorySpec == DirectoryInit /\ [][DirectoryNext]_directoryVars
\* The thread scans again and again, the loop sends, the browser connects again
\* and takes what arrives.  Nothing is assumed of users, uploads or refresh().
DirectoryFairSpec == /\ DirectorySpec
                     /\ WF_directoryVars(Monitor)
                     /\ WF_directoryVars(Connect) /\ WF_directoryVars(Send)
                     /\ WF_directoryVars(Receive)
-----------------------------------------------------------------------------
Ahead == stream.wire \o IF stream.queue = Absent THEN <<>> ELSE <<stream.queue>>
\* "Coalesce slow consumers to the newest complete snapshot" (events.py 42): what
\* a subscriber has not taken is the current inventory, and if it has taken
\* everything, the last it was sent is (events.py 41-53, app.py 79-88).
NothingMissed == stream.open => inventory = Last(<<seen>> \o Ahead)
\* A page gets each revision of a stream once and in order (app.js 49).
InOrder == \A i, j \in DOMAIN Ahead : i < j => Ahead[i].revision < Ahead[j].revision

\* What holds of the inventory and its subscribers at all times.
FeedInv == DirectoryTypeOK /\ NothingMissed /\ InOrder

\* a scan of a directory that does not change
Settled == FoldLeft(LAMBDA scan, f : Visit(f, disk, scan), NoFiles,
                    SetToSortSeq(Listing(disk), <))

\* "Reconnecting always sends current state" (docs/build-a-service/
\* 02-directory-monitor.md:558): once the directory rests, every page ends up
\* with what is in it, through scans that overlapped with changes, partial
\* uploads, coalesced snapshots, lost streams and restarts; its table too,
\* unless an answer to refresh() that was overtaken by events replaced it.
Converges == <>[](/\ seen.data = Settled
                  /\ table = seen \/ overtaken)
=============================================================================
