------------------------------ MODULE QrLedger ------------------------------
(***************************************************************************)
(* What QrService promises of one registration's badge: one token at a     *)
(* time opens the gate, it is replaced only once it stopped being valid,   *)
(* and a token that was retired never opens the gate again.                *)
(***************************************************************************)
CONSTANTS Tokens, NoToken

VARIABLES valid,    \* the token the gate accepts
          retired   \* tokens that were valid before

ledger == <<valid, retired>>

Init == valid = NoToken /\ retired = {}

Issue(t) ==
  /\ valid = NoToken
  /\ t \notin retired
  /\ valid' = t
  /\ UNCHANGED retired

Retire ==
  /\ valid # NoToken
  /\ retired' = retired \cup {valid}
  /\ valid' = NoToken

Next == Retire \/ \E t \in Tokens : Issue(t)

Spec == Init /\ [][Next]_ledger
=============================================================================
