---------------------------- MODULE Registrations ----------------------------
(***************************************************************************)
(* RegistrationsService: the registrations of one event, their duplicate   *)
(* rules, and what an administrator or a visitor does to them.  The rules  *)
(* are checked before the write, and the unique keys of the table decide   *)
(* at the write; both answer with the same conflict, so that a request is  *)
(* one step here.  Statuses are in ScanIngest, the queued pipeline of a    *)
(* new registration in TicketFiles.                                        *)
(***************************************************************************)
EXTENDS Naturals, FiniteSets

CONSTANTS
  MaxRegistrations,   \* bound on registrations ever created
  Strategy,           \* duplicateStrategy of the event
  Types,              \* attendee types of the event
  Forms,              \* what visitors and administrators register
  Edits               \* what administrators change, with None where they do not

ASSUME RegistrationsAssumption ==
  /\ MaxRegistrations \in Nat
  /\ Strategy \in {"NONE", "PHONE", "EMAIL", "PHONE_OR_EMAIL", "EXTERNAL_ID"}

VARIABLES
  reg,        \* Registration rows, numbered as they were created
  types,      \* the active attendee types
  archived    \* the event is archived

Ids == 1..MaxRegistrations
NoData == [kind |-> "none", phone |-> "none", email |-> "none", externalId |-> "none"]
Free == [status |-> "free", made |-> 0, data |-> NoData]
Live == {i \in Ids : reg[i].status = "live"}
Identifiers == {"phone", "email", "externalId"}

Shares(i, data, f) == data[f] # "none" /\ reg[i].data[f] = data[f]

\* The fields ensureDuplicateAllowed compares.
Compared ==
  CASE Strategy = "PHONE"          -> {"phone"}
    [] Strategy = "EMAIL"          -> {"email"}
    [] Strategy = "PHONE_OR_EMAIL" -> {"phone", "email"}
    [] Strategy = "EXTERNAL_ID"    -> {"externalId"}
    [] Strategy = "NONE"           -> {}

DuplicateAllowed(data, except) ==
  \A i \in Live \ except : \A f \in Compared : ~Shares(i, data, f)

\* The unique keys (eventId, phone), (eventId, email) and (eventId, externalId).
KeysAllow(data, except) ==
  \A i \in Live \ except : \A f \in Identifiers : ~Shares(i, data, f)

Accepted(data, except) == DuplicateAllowed(data, except) /\ KeysAllow(data, except)

\* The next registration, made by row number maker of an import, or else by a form.
NextId == Cardinality({i \in Ids : reg[i] # Free}) + 1
Added(data, maker) == [reg EXCEPT ![NextId] =
  [status |-> "live", made |-> maker, data |-> [f \in DOMAIN NoData |-> data[f]]]]

-----------------------------------------------------------------------------
\* create, for POST /registrations and for the public form.
Register ==
  /\ ~archived /\ NextId \in Ids
  /\ \E data \in Forms :
       /\ data.kind \in types
       /\ Accepted(data, {})
       /\ reg' = Added(data, 0)
  /\ UNCHANGED <<types, archived>>

\* The row after an update that leaves alone what the edit does not name.
Merged(i, edit) == [f \in DOMAIN NoData |->
                      IF f \in DOMAIN edit /\ edit[f] # "none" THEN edit[f] ELSE reg[i].data[f]]
Updated(i, edit) == [reg EXCEPT ![i].data = Merged(i, edit)]

\* update refuses an attendee type that is not active, when it is given one.
MayUpdate(i, edit) ==
  /\ i \in Live /\ ~archived
  /\ "kind" \in DOMAIN edit => edit.kind \in types
  /\ Accepted(Merged(i, edit), {i})

Update(i) ==
  /\ \E edit \in Edits : MayUpdate(i, edit) /\ reg' = Updated(i, edit)
  /\ UNCHANGED <<types, archived>>

\* remove deletes the row with all that refers to it.
Delete(i) ==
  /\ i \in Live /\ ~archived
  /\ reg' = [reg EXCEPT ![i] = [Free EXCEPT !.status = "removed"]]
  /\ UNCHANGED <<types, archived>>

\* An administrator switches an attendee type off, or archives the event.
Retire ==
  /\ \/ \E t \in types : types' = types \ {t} /\ UNCHANGED archived
     \/ ~archived /\ archived' = TRUE /\ UNCHANGED types
  /\ UNCHANGED reg

InitRegistrations ==
  /\ reg = [i \in Ids |-> Free]
  /\ types = Types
  /\ archived = FALSE
=============================================================================
