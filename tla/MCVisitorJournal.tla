-------------------------- MODULE MCVisitorJournal --------------------------
(* Small instances of VisitorJournal for TLC.                              *)
EXTENDS VisitorJournal

CONSTANTS v1, v2, w1, w2
=============================================================================
