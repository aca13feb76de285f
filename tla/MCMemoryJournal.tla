--------------------------- MODULE MCMemoryJournal ---------------------------
(* Values of MemoryJournal's constants for TLC.                             *)
EXTENDS MemoryJournal

MCDrawPos == 0 .. 1
=============================================================================
