------------------------------ MODULE QrTokens ------------------------------
(***************************************************************************)
(* QrService: the one QrToken row of a registration, generated by the      *)
(* public form, the pipeline job, sync and the dashboards at once, and     *)
(* revoked or removed by an admin meanwhile.  The refusals of an archived  *)
(* event change nothing and are left out; no code sets EXPIRED.            *)
(***************************************************************************)
EXTENDS Naturals, FiniteSets

CONSTANTS Tokens,    \* token ids generateTokenId may draw
          Requests,  \* requests in flight
          NoToken

ASSUME QrAssumption == NoToken \notin Tokens

VARIABLES
  row,         \* the QrToken row: its status, and its tokenId
  registered,  \* the registration exists
  drawn,       \* token ids drawn so far
  pc,
  known,       \* existingQrToken, as a request read it
  mine,        \* the tokenId a request drew
  answer,      \* what a request answered: a token, or nothing
  served,      \* tokens that were valid while a request ran (history)
  disturbed,   \* requests during which the badge was revoked or removed (history)
  retired      \* tokens that are no longer valid (history)

locals == <<pc, known, mine, answer>>
history == <<served, disturbed, retired>>
vars == <<row, registered, drawn, locals, history>>

NoRow == [status |-> "NONE", tokenId |-> NoToken]
Rows == [status : {"NONE", "ACTIVE", "REVOKED"}, tokenId : Tokens \cup {NoToken}]

TypeOK ==
  /\ row \in Rows
  /\ registered \in BOOLEAN
  /\ drawn \subseteq Tokens
  /\ pc \in [Requests -> {"idle", "find", "create", "refresh", "reread", "winner",
                          "answered", "refused", "revoke"}]
  /\ known \in [Requests -> Rows]
  /\ mine \in [Requests -> Tokens \cup {NoToken}]
  /\ answer \in [Requests -> Tokens \cup {NoToken}]
  /\ served \in [Requests -> SUBSET Tokens]
  /\ disturbed \subseteq Requests
  /\ retired \subseteq Tokens

Valid == IF row.status = "ACTIVE" THEN row.tokenId ELSE NoToken

-----------------------------------------------------------------------------
Goto(r, step) == pc' = [pc EXCEPT ![r] = step]

Reply(r, t) == Goto(r, "answered") /\ answer' = [answer EXCEPT ![r] = t]

Refuse(r) == Goto(r, "refused") /\ UNCHANGED answer

\* The row becomes valid under a new token, seen by every request in flight.
Issue(t) ==
  /\ row' = [status |-> "ACTIVE", tokenId |-> t]
  /\ served' = [r \in Requests |-> served[r] \cup {t}]
  /\ UNCHANGED <<registered, disturbed, retired>>

\* The row stops being valid.
Withdraw(newRow) ==
  /\ row' = newRow
  /\ disturbed' = Requests
  /\ retired' = IF Valid = NoToken THEN retired ELSE retired \cup {Valid}
  /\ UNCHANGED served

-----------------------------------------------------------------------------
(* generate.                                                               *)

Begin(r) ==
  /\ pc[r] \in {"idle", "answered", "refused"}
  /\ Goto(r, "find")
  /\ answer' = [answer EXCEPT ![r] = NoToken]
  /\ served' = [served EXCEPT ![r] = {Valid} \ {NoToken}]
  /\ disturbed' = disturbed \ {r}
  /\ UNCHANGED <<row, registered, drawn, known, mine, retired>>

\* An ACTIVE token is reused; otherwise a tokenId is drawn that no row has
\* (64 random bits: taken to be new).
FindExisting(r) ==
  /\ pc[r] = "find"
  /\ \/ /\ ~registered
        /\ Refuse(r)
        /\ UNCHANGED <<drawn, known, mine>>
     \/ /\ registered
        /\ row.status = "ACTIVE"
        /\ Reply(r, row.tokenId)
        /\ UNCHANGED <<drawn, known, mine>>
     \/ /\ registered
        /\ row.status # "ACTIVE"
        /\ \E t \in Tokens \ drawn :
             /\ mine' = [mine EXCEPT ![r] = t]
             /\ drawn' = drawn \cup {t}
        /\ known' = [known EXCEPT ![r] = row]
        /\ Goto(r, IF row.status = "NONE" THEN "create" ELSE "refresh")
        /\ UNCHANGED answer
  /\ UNCHANGED <<row, registered, history>>

\* registrationId is unique: of two first requests one inserts.
Create(r) ==
  /\ pc[r] = "create"
  /\ \/ registered /\ row.status = "NONE" /\ Issue(mine[r]) /\ Reply(r, mine[r])
     \/ /\ row.status # "NONE"
        /\ Goto(r, "winner")
        /\ UNCHANGED <<row, registered, answer, history>>
     \/ ~registered /\ Refuse(r) /\ UNCHANGED <<row, registered, history>>
  /\ UNCHANGED <<drawn, known, mine>>

\* Mutant: the update finds the row by its id alone.
UnchangedSinceAny(r) == row.status # "NONE"

\* updateMany where id, tokenId and status are those read before.
UnchangedSince(r) == row = known[r]

\* The row is rotated in place, then read once more.
Refresh(r) ==
  /\ pc[r] = "refresh"
  /\ \/ UnchangedSince(r) /\ Issue(mine[r]) /\ Goto(r, "reread")
     \/ ~UnchangedSince(r) /\ Goto(r, "winner") /\ UNCHANGED <<row, registered, history>>
  /\ UNCHANGED <<drawn, known, mine, answer>>

\* refreshedQrToken: whatever the row is by now.
Reread(r) ==
  /\ pc[r] = "reread"
  /\ \/ row.status # "NONE" /\ Reply(r, row.tokenId)
     \/ row.status = "NONE" /\ Refuse(r)
  /\ UNCHANGED <<row, registered, drawn, known, mine, history>>

\* Mutant: the loser answers the token it drew.
AdoptOwn(r) ==
  /\ pc[r] = "winner"
  /\ Reply(r, mine[r])
  /\ UNCHANGED <<row, registered, drawn, known, mine, history>>

\* The loser answers the winner's token, if it is still ACTIVE.
AdoptWinner(r) ==
  /\ pc[r] = "winner"
  /\ \/ row.status = "ACTIVE" /\ Reply(r, row.tokenId)
     \/ row.status # "ACTIVE" /\ Refuse(r)
  /\ UNCHANGED <<row, registered, drawn, known, mine, history>>

-----------------------------------------------------------------------------
(* revoke, and the removal of the registration.                            *)

BeginRevoke(r) ==
  /\ pc[r] \in {"idle", "answered", "refused"}
  /\ row.status # "NONE"
  /\ Goto(r, "revoke")
  /\ answer' = [answer EXCEPT ![r] = NoToken]
  /\ UNCHANGED <<row, registered, drawn, known, mine, history>>

\* The update names the registration, not the token that was read.
Revoke(r) ==
  /\ pc[r] = "revoke"
  /\ IF row.status # "NONE"
     THEN Withdraw([row EXCEPT !.status = "REVOKED"])
     ELSE UNCHANGED <<row, history>>
  /\ Goto(r, "idle")
  /\ UNCHANGED <<registered, drawn, known, mine, answer>>

Remove ==
  /\ registered
  /\ registered' = FALSE
  /\ Withdraw(NoRow)
  /\ UNCHANGED <<drawn, locals>>

-----------------------------------------------------------------------------
Init ==
  /\ row = NoRow
  /\ registered = TRUE
  /\ drawn = {}
  /\ pc = [r \in Requests |-> "idle"]
  /\ known = [r \in Requests |-> NoRow]
  /\ mine = [r \in Requests |-> NoToken]
  /\ answer = [r \in Requests |-> NoToken]
  /\ served = [r \in Requests |-> {}]
  /\ disturbed = {}
  /\ retired = {}

Step(r) ==
  \/ Begin(r) \/ FindExisting(r) \/ Create(r) \/ Refresh(r) \/ Reread(r)
  \/ AdoptWinner(r) \/ BeginRevoke(r) \/ Revoke(r)

Next == Remove \/ \E r \in Requests : Step(r)

Spec == Init /\ [][Next]_vars

-----------------------------------------------------------------------------
(* Properties.                                                             *)

\* The badge of a registration behaves like QrLedger: no two requests of
\* createOrRefreshQrToken replace each other's token, and no revoked or
\* replaced token opens the gate again.
Ledger == INSTANCE QrLedger WITH valid <- Valid
ImplementsQrLedger == Ledger!Spec

\* The token generate answers was valid at some time during the request, also
\* for the request that lost the race: nobody prints a badge that never worked.
AnswerWasValid ==
  \A r \in Requests : answer[r] # NoToken => answer[r] \in served[r]

\* generate refuses only when the badge was revoked or the registration removed
\* during the request, or before it: the comment of createOrRefreshQrToken says
\* that the queue and the public form may ask for the QR at the same time.
RefusalIsExcused ==
  \A r \in Requests : pc[r] = "refused" => (r \in disturbed \/ ~registered)

-----------------------------------------------------------------------------
(* The inductive invariant.                                                *)

\* A row carries a token that was drawn; a valid one was never retired.
RowSound ==
  /\ row.status # "NONE" => row.tokenId \in drawn
  /\ row.status = "NONE" => row.tokenId = NoToken
  /\ row.status = "ACTIVE" => row.tokenId \notin retired
  /\ retired \subseteq drawn
  /\ ~registered => row = NoRow

\* A token drawn and not yet written is nobody else's, and was never valid.
Fresh(r) ==
  /\ mine[r] \in drawn \ retired
  /\ mine[r] # row.tokenId
  /\ \A q \in Requests \ {r} : mine[q] # mine[r]

DrawsSound ==
  \A r \in Requests :
    /\ mine[r] \in drawn \cup {NoToken}
    /\ pc[r] \in {"create", "refresh"} => Fresh(r)
    /\ pc[r] = "refresh" => known[r].status = "REVOKED"

\* What a request under way may answer was valid while it ran.
AnswersSound ==
  /\ AnswerWasValid
  /\ \A r \in Requests :
       pc[r] \in {"find", "create", "refresh", "reread", "winner"} =>
         /\ row.status = "ACTIVE" => row.tokenId \in served[r]
         /\ (pc[r] = "reread" /\ row.status # "NONE") => row.tokenId \in served[r]

\* The loser of a race finds the winner's token, unless it was disturbed.
RacesSound ==
  /\ RefusalIsExcused
  /\ \A r \in Requests \ disturbed :
       /\ pc[r] = "create" => row.status # "REVOKED"
       /\ pc[r] = "refresh" => (row = known[r] \/ row.status = "ACTIVE")
       /\ pc[r] = "reread" => row.status # "NONE"
       /\ pc[r] = "winner" => row.status = "ACTIVE"

IInv == TypeOK /\ RowSound /\ DrawsSound /\ AnswersSound /\ RacesSound
=============================================================================
