----------------------------- MODULE ScanLedger -----------------------------
(***************************************************************************)
(* What ScansService promises about scans, without handlers, workers, jobs *)
(* or offline operations: every scan is decided at most once, a decision   *)
(* is never revised, the gate hears allowed:true only of scans decided     *)
(* ALLOWED, and without re-entry no entry is allowed to an attempt that    *)
(* began when an entry of the attendee was already recorded.               *)
(* ScanIngest implements this specification (ImplementsLedger).            *)
(***************************************************************************)
CONSTANTS Scans, RegOf, EntryScans, AllowReEntry

VARIABLES movement, admitted, witness

vars == <<movement, admitted, witness>>

Init ==
  /\ movement = [o \in Scans |-> "NONE"]
  /\ admitted = {}
  /\ witness = [o \in Scans |-> {}]

\* The other recorded entries of the attendee of scan o.
Recorded(o) == {e \in EntryScans : RegOf[e] = RegOf[o] /\ movement[e] = "ALLOWED"}

\* An attempt that saw the entries `seen' when it began decides scan o; its
\* answer may leave in the same step.
Decide(o, result, seen) ==
  /\ movement[o] = "NONE"
  /\ seen \subseteq Recorded(o)
  /\ (result = "ALLOWED" /\ o \in EntryScans /\ ~AllowReEntry) => seen = {}
  /\ movement' = [movement EXCEPT ![o] = result]
  /\ witness' = [witness EXCEPT ![o] = seen]
  /\ \/ admitted' = admitted
     \/ result = "ALLOWED" /\ admitted' = admitted \cup {o}

\* The gate is told, for the first time or again.
Answer(o) ==
  /\ movement[o] = "ALLOWED"
  /\ admitted' = admitted \cup {o}
  /\ UNCHANGED <<movement, witness>>

Next ==
  \E o \in Scans :
    \/ \E result \in {"ALLOWED", "DENIED"}, seen \in SUBSET Scans : Decide(o, result, seen)
    \/ Answer(o)

Spec == Init /\ [][Next]_vars
=============================================================================
