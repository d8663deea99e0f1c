------------------------ MODULE MCBackgroundJournal ------------------------
(* Values for BackgroundJournal: PIDs are numbers, as their file names order *)
(* the journals.                                                             *)
EXTENDS BackgroundJournal

OnePid == {1}
=============================================================================
