---------------------------- MODULE MCScanIngest ----------------------------
(* Small instances of ScanIngest for TLC.                                  *)
EXTENDS ScanIngest, TLC

CONSTANTS a1, h1, h2, w1, w2, k1

\* Both scans read the badge of one attendee.
SameAttendee == [o \in 1..2 |-> a1]

SignedThenCanonical == (1 :> "SIGNED" @@ 2 :> "CANONICAL")

OneScan        == [o \in 1..1 |-> a1]
OneReference   == [o \in 1..1 |-> "REFERENCE"]
=============================================================================
