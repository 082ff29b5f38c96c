----------------------------- MODULE BadgeProofs -----------------------------
(***************************************************************************)
(* Proofs about the two badges of an attendee.  QrTokens: for every number *)
(* of requests and tokens, the token of a registration is unique and the   *)
(* detailed specification implements QrLedger.  DeviceKeys: for all        *)
(* phones, versions, key pairs, times and badges, a badge printed under a  *)
(* key in force verifies until it expires.                                 *)
(***************************************************************************)
EXTENDS QrTokens, DeviceKeys, TLAPS

-----------------------------------------------------------------------------
(* Device keys.                                                            *)

\* The window of a key began before now.
StoredBefore == \A v \in KeyVersions : key[v].from <= clock

\* A credential in force is stored as the ACTIVE key of its version, and its
\* window is open.
ForceHolds ==
  \A c \in inForce :
    /\ key[c.version].status = "ACTIVE"
    /\ key[c.version].until = Never

\* The window of the version of a good badge never loses the time of its issue,
\* not even while another pair has the version.
WindowHolds ==
  \A b \in printed :
    /\ b.issuedAt <= clock
    /\ b.good => /\ key[b.version].status # "NONE"
                 /\ KeyUsable(key[b.version], b.issuedAt)

KInv == KeyTypeOK /\ StoredBefore /\ ForceHolds /\ WindowHolds

-----------------------------------------------------------------------------
\* Nothing is stored or printed at first.
LEMMA KInvInit == KeyInit => KInv
  BY KeyAssumption
  DEF KeyInit, KInv, KeyTypeOK, StoredBefore, ForceHolds, WindowHolds, Keys, NoKey, Never

\* Provisioning keeps the windows: a rotation closes them now, and a version that
\* is stored again opens its window to the end without moving its beginning.
LEMMA ProvisionStep ==
  ASSUME KInv, NEW p \in Phones, Provision(p)
  PROVE  KInv'
<1> DEFINE w == wanted[p]
<1> USE DEF KInv
<1>1. w \in Requested
  BY DEF KeyTypeOK, Provision, NoRequest
<1>2. \A v \in KeyVersions :
        key'[v] = IF v = w.version THEN Upserted(Rotated(w.rotate, w.version)[v], w.pair)
                  ELSE Rotated(w.rotate, w.version)[v]
  BY <1>1 DEF Provision, Rotated, Requested
<1>3. \A v \in KeyVersions : v # w.version =>
        key'[v] = IF w.rotate /\ key[v].status = "ACTIVE"
                  THEN [key[v] EXCEPT !.status = "ROTATED", !.until = clock] ELSE key[v]
  BY <1>2 DEF Rotated
<1>4. key'[w.version] = Upserted(key[w.version], w.pair)
  BY <1>1, <1>2 DEF Rotated, Requested
<1>5. KeyTypeOK'
  <2>1. \A v \in KeyVersions : v # w.version => key'[v] \in Keys
    <3>1. SUFFICES ASSUME NEW v \in KeyVersions, v # w.version PROVE key'[v] \in Keys
      OBVIOUS
    <3>2. key[v] \in Keys /\ clock \in 0..Never
      BY KeyAssumption DEF KeyTypeOK, Never
    <3>3. [key[v] EXCEPT !.status = "ROTATED", !.until = clock] \in Keys
      BY <3>2 DEF Keys
    <3> QED
      BY <3>1, <3>2, <3>3, <1>3
  <2>2. key'[w.version] \in Keys
    <3>1. key[w.version] \in Keys /\ w.pair \in Pairs
      BY <1>1 DEF KeyTypeOK, Requested
    <3> QED
      BY <3>1, <1>4, KeyAssumption DEF KeyTypeOK, Keys, Upserted, Never
  <2>3. key' = [v \in KeyVersions |-> key'[v]]
    BY DEF Provision, Rotated
  <2>4. CredentialOf(w) \in Credentials
    BY <1>1 DEF CredentialOf, Credentials, Requested
  <2>5. wanted' \in [Phones -> Requested \cup {NoRequest}]
    BY <1>1 DEF KeyTypeOK, Provision, Requested
  <2> QED
    BY <2>1, <2>2, <2>3, <2>4, <2>5 DEF KeyTypeOK, Provision
<1>6. ForceHolds'
  <2> SUFFICES ASSUME NEW c \in inForce'
               PROVE  key'[c.version].status = "ACTIVE" /\ key'[c.version].until = Never
    BY DEF ForceHolds, Provision
  <2>1. CASE c = CredentialOf(w)
    BY <2>1, <1>4 DEF Upserted, CredentialOf
  <2>2. CASE c # CredentialOf(w)
    <3>1. c \in inForce /\ ~w.rotate /\ c.version # w.version
      BY <2>2 DEF Provision
    <3>2. c.version \in KeyVersions
      BY <3>1 DEF KeyTypeOK, Credentials
    <3> QED
      BY <3>1, <3>2, <1>3 DEF ForceHolds
  <2> QED
    BY <2>1, <2>2
<1>7. StoredBefore'
  <2>1. clock \in 0..MaxTime /\ w.version \in KeyVersions
    BY <1>1 DEF KeyTypeOK, Requested
  <2>2. key'[w.version].from <= clock'
    BY <2>1, <1>4 DEF StoredBefore, Upserted, Provision
  <2>3. \A v \in KeyVersions : v # w.version => key'[v].from <= clock'
    <3>1. SUFFICES ASSUME NEW v \in KeyVersions, v # w.version PROVE key'[v].from <= clock'
      OBVIOUS
    <3>2. key[v] \in Keys /\ key[v].from <= clock
      BY DEF KeyTypeOK, StoredBefore
    <3>3. [key[v] EXCEPT !.status = "ROTATED", !.until = clock].from = key[v].from
      BY <3>2 DEF Keys
    <3> QED
      BY <3>1, <3>2, <3>3, <1>3 DEF Provision
  <2> QED
    BY <2>2, <2>3 DEF StoredBefore
<1>8. WindowHolds'
  <2> SUFFICES ASSUME NEW b \in printed
               PROVE  /\ b.issuedAt <= clock
                      /\ b.good => /\ key'[b.version].status # "NONE"
                                   /\ KeyUsable(key'[b.version], b.issuedAt)
    BY DEF WindowHolds, Provision
  <2>1. /\ b.version \in KeyVersions /\ b.issuedAt \in 0..MaxTime
        /\ key[b.version] \in Keys /\ clock \in 0..MaxTime
    BY DEF KeyTypeOK
  <2>2. /\ b.issuedAt <= clock
        /\ b.good => key[b.version].status # "NONE" /\ key[b.version].from <= b.issuedAt
                     /\ b.issuedAt <= key[b.version].until
    BY DEF WindowHolds, KeyUsable
  <2>3. CASE b.version = w.version
    BY <2>1, <2>2, <2>3, <1>4, KeyAssumption DEF Upserted, KeyUsable, Keys, Never
  <2>4. CASE b.version # w.version
    BY <2>1, <2>2, <2>4, <1>3 DEF KeyUsable, Keys
  <2> QED
    BY <2>3, <2>4
<1> QED
  BY <1>5, <1>6, <1>7, <1>8

\* Every step keeps the invariant.
LEMMA KInvStep ==
  ASSUME KInv, [KeyNext]_keyVars
  PROVE  KInv'
<1> USE DEF KInv
<1>1. CASE Tick
  <2>1. clock' \in 0..MaxTime /\ clock < clock'
    BY <1>1, KeyAssumption DEF Tick, KeyTypeOK
  <2>2. KeyTypeOK'
    BY <1>1, <2>1 DEF Tick, KeyTypeOK
  <2>3. StoredBefore' /\ ForceHolds'
    BY <1>1, <2>1 DEF Tick, KeyTypeOK, StoredBefore, ForceHolds, Keys
  <2>4. WindowHolds'
    BY <1>1, <2>1 DEF Tick, KeyTypeOK, WindowHolds, KeyUsable
  <2> QED
    BY <2>2, <2>3, <2>4
<1>2. CASE UpdateStatus \/ Reassign
  BY <1>2 DEF UpdateStatus, Reassign, KeyTypeOK, StoredBefore, ForceHolds, WindowHolds
<1>3. ASSUME NEW p \in Phones, Ask(p) PROVE KInv'
  <2>1. wanted' \in [Phones -> Requested \cup {NoRequest}]
    BY <1>3 DEF Ask, KeyTypeOK, Requested, Pairs
  <2> QED
    BY <1>3, <2>1 DEF Ask, KeyTypeOK, StoredBefore, ForceHolds, WindowHolds
<1>4. ASSUME NEW p \in Phones, Provision(p) PROVE KInv'
  BY <1>4, ProvisionStep
<1>5. ASSUME NEW p \in Phones, Receive(p) \/ LoseAnswer(p) PROVE KInv'
  <2>1. Receive(p) => CredentialOf(wanted[p]) \in Credentials
    BY DEF Receive, KeyTypeOK, CredentialOf, Credentials, Requested, NoRequest
  <2> QED
    BY <1>5, <2>1 DEF Receive, LoseAnswer, KeyTypeOK, StoredBefore, ForceHolds, WindowHolds
<1>6. ASSUME NEW p \in Phones, PrintBadge(p) PROVE KInv'
  <2> DEFINE new == [version |-> hand[p].version, pair |-> hand[p].pair, issuedAt |-> clock,
                     good |-> hand[p] \in inForce]
  <2>1. hand[p] \in Credentials
    BY <1>6 DEF PrintBadge, KeyTypeOK
  <2>2. KeyTypeOK'
    <3>1. new \in [version : KeyVersions, pair : Pairs, issuedAt : 0..MaxTime, good : BOOLEAN]
      BY <2>1 DEF KeyTypeOK, Credentials
    <3> QED
      BY <1>6, <3>1 DEF PrintBadge, KeyTypeOK
  <2>3. new.good => /\ key[new.version].status # "NONE"
                    /\ KeyUsable(key[new.version], clock)
    <3>1. SUFFICES ASSUME hand[p] \in inForce
                   PROVE  /\ key[hand[p].version].status # "NONE"
                          /\ KeyUsable(key[hand[p].version], clock)
      OBVIOUS
    <3>2. /\ hand[p].version \in KeyVersions /\ clock \in 0..MaxTime
          /\ key[hand[p].version].from <= clock
      BY <2>1 DEF KeyTypeOK, Credentials, StoredBefore
    <3>3. /\ key[hand[p].version].status = "ACTIVE"
          /\ key[hand[p].version].until = MaxTime + 1
      BY <3>1 DEF ForceHolds, Never
    <3> QED
      BY <3>2, <3>3, KeyAssumption DEF KeyUsable
  <2> QED
    BY <1>6, <2>2, <2>3 DEF PrintBadge, KeyTypeOK, StoredBefore, ForceHolds, WindowHolds
<1>7. CASE UNCHANGED keyVars
  BY <1>7 DEF keyVars, KeyTypeOK, StoredBefore, ForceHolds, WindowHolds, KeyUsable
<1> QED
  BY <1>1, <1>2, <1>3, <1>4, <1>5, <1>6, <1>7 DEF KeyNext

\* Types, the credentials in force and the windows of good badges, in every
\* state of provisionDevicePublicKey and of the phones that call it.
THEOREM KeysInductive == KeySpec => []KInv
<1>1. KInv /\ [KeyNext]_keyVars => KInv'
  BY KInvStep
<1> QED
  BY <1>1, KInvInit, PTL DEF KeySpec

\* What verifySignedOfflineQr asks of a good badge follows from the window of its
\* version and from its pair.
THEOREM PrintedBadgesHold == KeySpec => []PrintedBadgeHolds
<1>1. KInv => PrintedBadgeHolds
  BY DEF KInv, WindowHolds, PrintedBadgeHolds, Verifies, Replaced
<1> QED
  BY <1>1, KeysInductive, PTL

-----------------------------------------------------------------------------
(* QR tokens.                                                              *)

USE QrAssumption

\* The types of the rows that are read and written.
LEMMA RowTyped ==
  ASSUME TypeOK
  PROVE  /\ row.status \in {"NONE", "ACTIVE", "REVOKED"}
         /\ row.tokenId \in Tokens \cup {NoToken}
         /\ Valid \in Tokens \cup {NoToken}
         /\ row = [status |-> row.status, tokenId |-> row.tokenId]
  BY DEF TypeOK, Rows, Valid

-----------------------------------------------------------------------------
\* Every action keeps the types.
LEMMA StepTyped ==
  ASSUME TypeOK, DrawsSound, [Next]_vars
  PROVE  TypeOK'
<1> USE DEF TypeOK
<1>1. ASSUME NEW r \in Requests, Begin(r) PROVE TypeOK'
  BY <1>1, RowTyped DEF Begin, Goto, Valid
<1>2. ASSUME NEW r \in Requests, FindExisting(r) PROVE TypeOK'
  BY <1>2, RowTyped DEF FindExisting, Goto, Reply, Refuse, history
<1>3. ASSUME NEW r \in Requests, Create(r) PROVE TypeOK'
  <2>1. CASE registered /\ row.status = "NONE" /\ Issue(mine[r]) /\ Reply(r, mine[r])
    <3>1. pc[r] = "create" /\ mine[r] \in Tokens
      BY <1>3 DEF Create, DrawsSound, Fresh
    <3> QED
      BY <1>3, <2>1, <3>1 DEF Create, Goto, Reply, Issue, Rows
  <2>2. CASE ~(registered /\ row.status = "NONE" /\ Issue(mine[r]) /\ Reply(r, mine[r]))
    BY <1>3, <2>2 DEF Create, Goto, Refuse, history
  <2> QED
    BY <2>1, <2>2
<1>4. ASSUME NEW r \in Requests, Refresh(r) PROVE TypeOK'
  <2>1. CASE Issue(mine[r]) /\ Goto(r, "reread")
    <3>1. pc[r] = "refresh" /\ mine[r] \in Tokens
      BY <1>4 DEF Refresh, DrawsSound, Fresh
    <3> QED
      BY <1>4, <2>1, <3>1 DEF Refresh, Goto, Issue, Rows
  <2>2. CASE ~(Issue(mine[r]) /\ Goto(r, "reread"))
    BY <1>4, <2>2 DEF Refresh, Goto, history
  <2> QED
    BY <2>1, <2>2
<1>5. ASSUME NEW r \in Requests, Reread(r) \/ AdoptWinner(r) PROVE TypeOK'
  BY <1>5, RowTyped DEF Reread, AdoptWinner, Goto, Reply, Refuse, history
<1>6. ASSUME NEW r \in Requests, BeginRevoke(r) PROVE TypeOK'
  BY <1>6 DEF BeginRevoke, Goto, history
<1>7. ASSUME NEW r \in Requests, Revoke(r) PROVE TypeOK'
  BY <1>7, RowTyped DEF Revoke, Goto, Withdraw, Rows, Valid, history
<1>8. CASE Remove
  BY <1>8, RowTyped DEF Remove, Withdraw, Rows, NoRow, Valid, locals
<1>9. CASE UNCHANGED vars
  BY <1>9 DEF vars, locals, history
<1> QED
  BY <1>1, <1>2, <1>3, <1>4, <1>5, <1>6, <1>7, <1>8, <1>9 DEF Next, Step

\* The rows stay sound: only generate writes a token, one that is new.
LEMMA RowKept ==
  ASSUME IInv, [Next]_vars
  PROVE  RowSound'
<1> USE DEF IInv, RowSound, NoRow
<1>1. ASSUME NEW r \in Requests, Begin(r) \/ Reread(r) \/ AdoptWinner(r) \/ BeginRevoke(r)
      PROVE  RowSound'
  BY <1>1 DEF Begin, Reread, AdoptWinner, BeginRevoke, history
<1>2. ASSUME NEW r \in Requests, FindExisting(r) PROVE RowSound'
  BY <1>2 DEF FindExisting, history
<1>3. ASSUME NEW r \in Requests, pc[r] \in {"create", "refresh"}, registered,
             Issue(mine[r]), UNCHANGED drawn
      PROVE  RowSound'
  BY <1>3 DEF Issue, DrawsSound, Fresh
<1>4. ASSUME NEW r \in Requests, Create(r) PROVE RowSound'
  BY <1>3, <1>4 DEF Create, history
<1>5. ASSUME NEW r \in Requests, Refresh(r) PROVE RowSound'
  <2>1. UnchangedSince(r) => registered
    BY <1>5 DEF Refresh, UnchangedSince, DrawsSound
  <2> QED
    BY <1>3, <1>5, <2>1 DEF Refresh, history
<1>6. ASSUME NEW r \in Requests, Revoke(r) PROVE RowSound'
  BY <1>6, RowTyped DEF Revoke, Withdraw, Valid, history, TypeOK, Rows
<1>7. CASE Remove
  BY <1>7, RowTyped DEF Remove, Withdraw, Valid
<1>8. CASE UNCHANGED vars
  BY <1>8 DEF vars, history
<1> QED
  BY <1>1, <1>2, <1>4, <1>5, <1>6, <1>7, <1>8 DEF Next, Step

\* A drawn token stays its request's own until the request writes it.
LEMMA DrawsKept ==
  ASSUME IInv, [Next]_vars
  PROVE  DrawsSound'
<1> USE DEF IInv, DrawsSound, TypeOK
<1>1. ASSUME NEW r \in Requests, Begin(r) \/ Reread(r) \/ AdoptWinner(r) \/ BeginRevoke(r)
      PROVE  DrawsSound'
  BY <1>1 DEF Begin, Reread, AdoptWinner, BeginRevoke, Goto, Reply, Refuse, Fresh, history
<1>2. ASSUME NEW r \in Requests, FindExisting(r) PROVE DrawsSound'
  <2>1. CASE UNCHANGED <<drawn, known, mine>>
    BY <1>2, <2>1 DEF FindExisting, Goto, Reply, Refuse, Fresh, history
  <2>2. ASSUME NEW t \in Tokens \ drawn,
               mine' = [mine EXCEPT ![r] = t], drawn' = drawn \cup {t},
               known' = [known EXCEPT ![r] = row],
               row.status # "ACTIVE", Goto(r, IF row.status = "NONE" THEN "create" ELSE "refresh"),
               UNCHANGED <<row, registered, history>>
        PROVE  DrawsSound'
    <3>1. t # NoToken /\ t # row.tokenId /\ t \notin retired
      BY <2>2, QrAssumption DEF RowSound
    <3>2. \A q \in Requests : mine[q] # t
      BY <2>2
    <3>3. row.status \in {"NONE", "REVOKED"}
      BY <2>2, RowTyped
    <3>4. Fresh(r)'
      BY <2>2, <3>1, <3>2 DEF Fresh, history
    <3>5. \A q \in Requests \ {r} : Fresh(q) => Fresh(q)'
      BY <2>2, <3>2 DEF Fresh, history
    <3> QED
      BY <2>2, <3>3, <3>4, <3>5 DEF Goto, history
  <2> QED
    BY <1>2, <2>1, <2>2 DEF FindExisting
<1>3. ASSUME NEW r \in Requests, pc[r] \in {"create", "refresh"}, Issue(mine[r]),
             UNCHANGED <<drawn, known, mine>>,
             pc' = [pc EXCEPT ![r] = "answered"] \/ pc' = [pc EXCEPT ![r] = "reread"]
      PROVE  DrawsSound'
  BY <1>3 DEF Issue, Fresh
<1>4. ASSUME NEW r \in Requests, Create(r) PROVE DrawsSound'
  <2>1. CASE registered /\ row.status = "NONE" /\ Issue(mine[r]) /\ Reply(r, mine[r])
    BY <1>3, <1>4, <2>1 DEF Create, Reply, Goto
  <2>2. CASE ~(registered /\ row.status = "NONE" /\ Issue(mine[r]) /\ Reply(r, mine[r]))
    BY <1>4, <2>2 DEF Create, Goto, Refuse, Fresh, history
  <2> QED
    BY <2>1, <2>2
<1>5. ASSUME NEW r \in Requests, Refresh(r) PROVE DrawsSound'
  <2>1. CASE Issue(mine[r]) /\ Goto(r, "reread")
    BY <1>3, <1>5, <2>1 DEF Refresh, Goto
  <2>2. CASE ~(Issue(mine[r]) /\ Goto(r, "reread"))
    BY <1>5, <2>2 DEF Refresh, Goto, Fresh, history
  <2> QED
    BY <2>1, <2>2
<1>6. ASSUME NEW newRow \in Rows, Withdraw(newRow), newRow.tokenId \in {row.tokenId, NoToken},
             UNCHANGED <<drawn, mine, known>>,
             \A r \in Requests : pc'[r] = pc[r] \/ pc'[r] = "idle"
      PROVE  DrawsSound'
  <2>1. ASSUME NEW r \in Requests, Fresh(r) PROVE Fresh(r)'
    <3>1. mine[r] # NoToken /\ mine[r] # Valid
      BY <2>1, QrAssumption DEF Fresh, Valid
    <3> QED
      BY <1>6, <2>1, <3>1 DEF Withdraw, Fresh
  <2> QED
    BY <1>6, <2>1 DEF Withdraw
<1>7. ASSUME NEW r \in Requests, Revoke(r) PROVE DrawsSound'
  <2>1. CASE row.status # "NONE"
    <3>1. [row EXCEPT !.status = "REVOKED"] \in Rows
          /\ [row EXCEPT !.status = "REVOKED"].tokenId = row.tokenId
      BY DEF Rows
    <3> QED
      BY <1>6, <1>7, <2>1, <3>1 DEF Revoke, Goto
  <2>2. CASE row.status = "NONE"
    BY <1>7, <2>2 DEF Revoke, Goto, Fresh, history
  <2> QED
    BY <2>1, <2>2
<1>8. CASE Remove
  BY <1>6, <1>8 DEF Remove, NoRow, Rows, locals
<1>9. CASE UNCHANGED vars
  BY <1>9 DEF vars, locals, history, Fresh
<1> QED
  BY <1>1, <1>2, <1>4, <1>5, <1>7, <1>8, <1>9 DEF Next, Step

\* What generate answers was valid while the request ran.
LEMMA AnswersKept ==
  ASSUME IInv, [Next]_vars
  PROVE  AnswersSound'
<1> USE DEF IInv, AnswersSound, AnswerWasValid, TypeOK
<1>1. ASSUME NEW r \in Requests, Begin(r) PROVE AnswersSound'
  <2>1. row.status = "ACTIVE" => row.tokenId \in served'[r]
    <3>1. row.status = "ACTIVE" => row.tokenId # NoToken
      BY QrAssumption DEF RowSound
    <3> QED
      BY <1>1, <3>1 DEF Begin, Valid
  <2> QED
    BY <1>1, <2>1 DEF Begin, Goto
<1>2. ASSUME NEW r \in Requests, FindExisting(r) PROVE AnswersSound'
  BY <1>2 DEF FindExisting, Goto, Reply, Refuse, history
<1>3. ASSUME NEW r \in Requests, Create(r) PROVE AnswersSound'
  <2>1. CASE registered /\ row.status = "NONE" /\ Issue(mine[r]) /\ Reply(r, mine[r])
    BY <1>3, <2>1 DEF Create, Issue, Reply, Goto
  <2>2. CASE ~(registered /\ row.status = "NONE" /\ Issue(mine[r]) /\ Reply(r, mine[r]))
    BY <1>3, <2>2 DEF Create, Goto, Refuse, history
  <2> QED
    BY <2>1, <2>2
<1>4. ASSUME NEW r \in Requests, Refresh(r) PROVE AnswersSound'
  BY <1>4 DEF Refresh, Goto, Issue, history
<1>5. ASSUME NEW r \in Requests, Reread(r) \/ AdoptWinner(r) PROVE AnswersSound'
  BY <1>5 DEF Reread, AdoptWinner, Goto, Reply, Refuse, history
<1>6. ASSUME NEW r \in Requests, BeginRevoke(r) PROVE AnswersSound'
  BY <1>6 DEF BeginRevoke, Goto, history
<1>7. ASSUME NEW r \in Requests, Revoke(r) PROVE AnswersSound'
  BY <1>7 DEF Revoke, Goto, Withdraw, Rows, history
<1>8. CASE Remove
  BY <1>8 DEF Remove, Withdraw, NoRow, locals
<1>9. CASE UNCHANGED vars
  BY <1>9 DEF vars, locals, history
<1> QED
  BY <1>1, <1>2, <1>3, <1>4, <1>5, <1>6, <1>7, <1>8, <1>9 DEF Next, Step

\* A request is refused only when it was disturbed.
LEMMA RacesKept ==
  ASSUME IInv, [Next]_vars
  PROVE  RacesSound'
<1> USE DEF IInv, RacesSound, RefusalIsExcused, TypeOK
<1>1. ASSUME NEW r \in Requests, Begin(r) PROVE RacesSound'
  BY <1>1 DEF Begin, Goto
<1>2. ASSUME NEW r \in Requests, FindExisting(r) PROVE RacesSound'
  BY <1>2, RowTyped DEF FindExisting, Goto, Reply, Refuse, history
<1>3. ASSUME NEW r \in Requests, Create(r) PROVE RacesSound'
  <2>1. CASE registered /\ row.status = "NONE" /\ Issue(mine[r]) /\ Reply(r, mine[r])
    BY <1>3, <2>1 DEF Create, Issue, Reply, Goto
  <2>2. CASE ~(registered /\ row.status = "NONE" /\ Issue(mine[r]) /\ Reply(r, mine[r]))
    BY <1>3, <2>2, RowTyped DEF Create, Goto, Refuse, history
  <2> QED
    BY <2>1, <2>2
<1>4. ASSUME NEW r \in Requests, Refresh(r) PROVE RacesSound'
  BY <1>4 DEF Refresh, UnchangedSince, Goto, Issue, history
<1>5. ASSUME NEW r \in Requests, Reread(r) \/ AdoptWinner(r) PROVE RacesSound'
  BY <1>5 DEF Reread, AdoptWinner, Goto, Reply, Refuse, history
<1>6. ASSUME NEW r \in Requests, BeginRevoke(r) PROVE RacesSound'
  BY <1>6 DEF BeginRevoke, Goto, history
<1>7. ASSUME NEW r \in Requests, Revoke(r) PROVE RacesSound'
  BY <1>7 DEF Revoke, Goto, Withdraw, history
<1>8. CASE Remove
  BY <1>8 DEF Remove, Withdraw, locals
<1>9. CASE UNCHANGED vars
  BY <1>9 DEF vars, locals, history
<1> QED
  BY <1>1, <1>2, <1>3, <1>4, <1>5, <1>6, <1>7, <1>8, <1>9 DEF Next, Step

-----------------------------------------------------------------------------
\* The inductive invariant: rows, drawn tokens, answers and races are sound in
\* every state generate, revoke and the removal of a registration can reach.
THEOREM Inductive == Spec => []IInv
<1>1. Init => IInv
  BY DEF Init, IInv, TypeOK, RowSound, DrawsSound, Fresh, AnswersSound, AnswerWasValid,
         RacesSound, RefusalIsExcused, NoRow, Rows
<1>2. IInv /\ [Next]_vars => IInv'
  BY StepTyped, RowKept, DrawsKept, AnswersKept, RacesKept DEF IInv
<1> QED
  BY <1>1, <1>2, PTL DEF Spec

\* The token generate answers was valid at some time during the request.
THEOREM AnswersWereValid == Spec => []AnswerWasValid
<1>1. IInv => AnswerWasValid
  BY DEF IInv, AnswersSound
<1> QED
  BY <1>1, Inductive, PTL

\* generate refuses only requests that a revocation or a removal disturbed.
THEOREM RefusalsAreExcused == Spec => []RefusalIsExcused
<1>1. IInv => RefusalIsExcused
  BY DEF IInv, RacesSound
<1> QED
  BY <1>1, Inductive, PTL

\* Every step of QrTokens is a step of QrLedger or leaves it unchanged: the
\* code never replaces a token that is valid, and never revives a retired one.
LEMMA StepRefines ==
  ASSUME IInv, [Next]_vars
  PROVE  [Ledger!Next]_(Ledger!ledger)
<1> USE DEF Ledger!Next, Ledger!Issue, Ledger!Retire, Ledger!ledger
<1>1. ASSUME UNCHANGED <<row, retired>> PROVE UNCHANGED <<Valid, retired>>
  BY <1>1 DEF Valid
<1>2. ASSUME NEW r \in Requests, pc[r] \in {"create", "refresh"}, row.status # "ACTIVE",
             Issue(mine[r])
      PROVE  Ledger!Next
  <2>1. mine[r] \in Tokens /\ mine[r] \notin retired
    BY <1>2 DEF IInv, TypeOK, DrawsSound, Fresh
  <2> QED
    BY <1>2, <2>1 DEF Issue, Valid
<1>3. ASSUME NEW newRow, newRow.status # "ACTIVE", Withdraw(newRow)
      PROVE  [Ledger!Next]_(Ledger!ledger)
  BY <1>3 DEF Withdraw, Valid
<1>4. ASSUME NEW r \in Requests,
             Begin(r) \/ FindExisting(r) \/ Reread(r) \/ AdoptWinner(r) \/ BeginRevoke(r)
      PROVE  UNCHANGED <<row, retired>>
  BY <1>4 DEF Begin, FindExisting, Reread, AdoptWinner, BeginRevoke, history
<1>5. ASSUME NEW r \in Requests, Create(r) PROVE [Ledger!Next]_(Ledger!ledger)
  BY <1>1, <1>2, <1>5 DEF Create, history
<1>6. ASSUME NEW r \in Requests, Refresh(r) PROVE [Ledger!Next]_(Ledger!ledger)
  <2>1. UnchangedSince(r) => row.status # "ACTIVE"
    BY <1>6 DEF Refresh, UnchangedSince, IInv, DrawsSound
  <2> QED
    BY <1>1, <1>2, <1>6, <2>1 DEF Refresh, history
<1>7. ASSUME NEW r \in Requests, Revoke(r) PROVE [Ledger!Next]_(Ledger!ledger)
  <2>1. [row EXCEPT !.status = "REVOKED"].status # "ACTIVE"
    BY DEF IInv, TypeOK, Rows
  <2> QED
    BY <1>1, <1>3, <1>7, <2>1 DEF Revoke, history
<1>8. CASE Remove
  BY <1>3, <1>8 DEF Remove, NoRow
<1>9. CASE UNCHANGED vars
  BY <1>1, <1>9 DEF vars, history
<1> QED
  BY <1>1, <1>4, <1>5, <1>6, <1>7, <1>8, <1>9 DEF Next, Step

\* The badge of a registration behaves like QrLedger.
THEOREM LedgerImplemented == Spec => ImplementsQrLedger
<1>1. Init => Ledger!Init
  BY DEF Init, Ledger!Init, Valid, NoRow
<1>2. IInv /\ [Next]_vars => [Ledger!Next]_(Ledger!ledger)
  BY StepRefines
<1> QED
  BY <1>1, <1>2, Inductive, PTL DEF Spec, ImplementsQrLedger, Ledger!Spec
=============================================================================
