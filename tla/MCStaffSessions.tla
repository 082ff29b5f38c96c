-------------------------- MODULE MCStaffSessions --------------------------
(* Small instances of StaffSessions for TLC.                               *)
EXTENDS StaffSessions, TLC

CONSTANTS s1, s2, e1, e2, d1, d2, g1, g2, g3, q1, q2

TwoEvents == [x \in Devices \cup Gates |-> IF x \in {d2, g3} THEN e2 ELSE e1]

\* s1 is moved between two gates and two events, s2 shares a device with s1.
TwoPostings == {<<s1, [device |-> d1, gate |-> g1]>>, <<s1, [device |-> d1, gate |-> g2]>>,
                <<s1, [device |-> d2, gate |-> g3]>>, <<s2, [device |-> d1, gate |-> g1]>>}

Interchangeable == Permutations(Requests)
=============================================================================
