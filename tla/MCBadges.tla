------------------------------- MODULE MCBadges -------------------------------
(***************************************************************************)
(* A small instance for TLC of the two badges of an attendee: the QR token *)
(* of a registration and the badge a device signs offline.  They share no  *)
(* state, so that the steps of one are not interleaved with those of the   *)
(* other.                                                                  *)
(***************************************************************************)
EXTENDS QrTokens, DeviceKeys, TLC

CONSTANTS t1, t2, t3, r1, r2, r3, p1, p2

VARIABLE focus

allVars == <<vars, keyVars, focus>>

BadgesInit == Init /\ KeyInit /\ focus \in {"token", "key"}

BadgesNext ==
  /\ \/ focus = "token" /\ Next /\ UNCHANGED keyVars
     \/ focus = "key" /\ KeyNext /\ UNCHANGED vars
  /\ UNCHANGED focus

Badges == BadgesInit /\ [][BadgesNext]_allVars

\* Phones are interchangeable, and only safety is checked.
Symmetry == Permutations(Phones)
=============================================================================
