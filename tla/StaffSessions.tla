---------------------------- MODULE StaffSessions ----------------------------
(***************************************************************************)
(* StaffSessionsService and StaffAssignmentsService: staff members are     *)
(* assigned to a device at a gate of an event, and open a scanner session  *)
(* there.  A transaction is one step: its updateMany calls lock the rows   *)
(* of the staff member and the device they scan, so two of them on the     *)
(* same rows follow one another (or deadlock, and one is rolled back).     *)
(* Any check of a device, gate, event or user may refuse a request.        *)
(* StaffAccessService checks the scans and batches a session sends.        *)
(***************************************************************************)
EXTENDS Naturals, FiniteSets

CONSTANTS
  Staff, Events, Devices, Gates,
  EventOf,      \* the event of a device and of a gate
  Postings,     \* the devices and gates administrators post each one to
  Requests,     \* requests in flight
  MaxSessions   \* bound on sessions

Nobody == "nobody"

ASSUME StaffAssumption ==
  /\ EventOf \in [Devices \cup Gates -> Events]
  /\ MaxSessions \in Nat /\ Nobody \notin Staff \cup Devices \cup Gates
  /\ Postings \subseteq Staff \X [device : Devices, gate : Gates]

VARIABLES
  session,     \* StaffSession rows, numbered
  assigned,    \* StaffAssignment row of an event and a staff member
  pc, via,     \* next step of a request, and the endpoint it serves
  who, place,  \* its staff member, and the place it has read or was given
  pick,        \* the sessions it has read
  raced        \* staff members two of whose changes overlapped (history)

vars == <<session, assigned, pc, via, who, place, pick, raced>>

Ids == 1..MaxSessions
NoPlace == [device |-> Nobody, gate |-> Nobody]
Places == {[device |-> d, gate |-> g] : d \in Devices, g \in Gates}
PlacesOf(e) == {p \in Places : EventOf[p.device] = e /\ EventOf[p.gate] = e}
PostsOf(s, e) == {p \in PlacesOf(e) : <<s, p>> \in Postings}
NoSession == [status |-> "NONE", staff |-> Nobody, place |-> NoPlace]
NotAssigned == [active |-> FALSE, place |-> NoPlace]

TypeOK ==
  /\ session \in [Ids -> [status : {"NONE", "ACTIVE", "ENDED"},
                          staff : Staff \cup {Nobody}, place : Places \cup {NoPlace}]]
  /\ assigned \in [Events \X Staff -> [active : BOOLEAN, place : Places \cup {NoPlace}]]
  /\ pc \in [Requests -> {"idle", "find", "bind", "start", "refresh", "end", "update", "move", "scan"}]
  /\ via \in [Requests -> {"none", "mine", "start", "end", "update", "scan", "batch"}]
  /\ who \in [Requests -> Staff \cup {Nobody}]
  /\ place \in [Requests -> Places \cup {NoPlace}]
  /\ pick \in [Requests -> SUBSET Ids]
  /\ raced \subseteq Staff

EventAt(p) == EventOf[p.device]
Open(s) == {i \in Ids : session[i].status = "ACTIVE" /\ session[i].staff = s}
OpenIn(s, e) == {i \in Open(s) : EventAt(session[i].place) = e}
OpenOn(d) == {i \in Ids : session[i].status = "ACTIVE" /\ session[i].place.device = d}

End(ids) == [i \in Ids |-> IF i \in ids THEN [session[i] EXCEPT !.status = "ENDED"] ELSE session[i]]

-----------------------------------------------------------------------------
Goto(r, step) == pc' = [pc EXCEPT ![r] = step]

\* Something about the staff members of S begins, or happens at once, while
\* a request of theirs is served.
NoteRace(S) == raced' = raced \cup {s \in S : \E q \in Requests : who[q] = s}

\* Those whose sessions are among ids.
StaffOf(ids) == {session[i].staff : i \in ids}

Begin(r, endpoint, step, s, p) ==
  /\ pc[r] = "idle"
  /\ Goto(r, step)
  /\ via' = [via EXCEPT ![r] = endpoint]
  /\ who' = [who EXCEPT ![r] = s]
  /\ place' = [place EXCEPT ![r] = p]
  /\ NoteRace({s})

Answer(r) ==
  /\ Goto(r, "idle")
  /\ via' = [via EXCEPT ![r] = "none"]
  /\ who' = [who EXCEPT ![r] = Nobody]
  /\ place' = [place EXCEPT ![r] = NoPlace]
  /\ pick' = [pick EXCEPT ![r] = {}]

\* A check fails, or the request dies.
Refuse(r) ==
  /\ pc[r] # "idle"
  /\ Answer(r)
  /\ UNCHANGED <<session, assigned, raced>>

-----------------------------------------------------------------------------
(* StaffSessionsService.                                                   *)

\* ensureActiveAssignmentBinding.
Bound(s, p) == assigned[<<EventAt(p), s>>] = [active |-> TRUE, place |-> p]

\* POST /staff-sessions checks the place against the assignment.
BeginStart(r, s, e) ==
  /\ \E p \in PlacesOf(e) : Bound(s, p) /\ Begin(r, "start", "start", s, p)
  /\ UNCHANGED <<session, assigned, pick>>

\* startMySession reads the active assignment ...
BeginMine(r, s) ==
  /\ \E e \in Events :
       /\ assigned[<<e, s>>].active
       /\ assigned[<<e, s>>].place # NoPlace
       /\ Begin(r, "mine", "find", s, assigned[<<e, s>>].place)
  /\ UNCHANGED <<session, assigned, pick>>

\* ... and looks for a session at that place.
FindReusable(r) ==
  /\ pc[r] = "find"
  /\ LET reusable == {i \in Open(who[r]) : session[i].place = place[r]}
     IN \/ \E i \in reusable :
             /\ pick' = [pick EXCEPT ![r] = {i}]
             /\ Goto(r, "refresh")
        \/ /\ reusable = {}
           /\ Goto(r, "bind")
           /\ UNCHANGED pick
  /\ UNCHANGED <<session, assigned, via, who, place, raced>>

\* startMySession goes on with start, which checks the place once more.
Bind(r) ==
  /\ pc[r] = "bind"
  /\ Bound(who[r], place[r])
  /\ Goto(r, "start")
  /\ UNCHANGED <<session, assigned, via, who, place, pick, raced>>

\* Mutant: the sessions of the device are left open.
SupersededByStaff(r) == Open(who[r])

\* The sessions a new one of request r replaces.
Superseded(r) == Open(who[r]) \cup OpenOn(place[r].device)

\* start's transaction.
Start(r) ==
  /\ pc[r] = "start"
  /\ \E i \in Ids :
       /\ session[i] = NoSession
       /\ \A j \in Ids : session[j] = NoSession => i <= j
       /\ session' = [End(Superseded(r)) EXCEPT
                        ![i] = [status |-> "ACTIVE", staff |-> who[r], place |-> place[r]]]
  /\ NoteRace(StaffOf(Superseded(r)) \ {who[r]})
  /\ Answer(r)
  /\ UNCHANGED assigned

\* Mutant: refreshing ends every session of the staff member.
RefreshAnew(r) ==
  /\ pc[r] = "refresh"
  /\ session' = End(Superseded(r))
  /\ NoteRace(StaffOf(Superseded(r)) \ {who[r]})
  /\ Answer(r)
  /\ UNCHANGED assigned

\* The session read before is kept, whatever it has become; only lastSeenAt
\* is written to it.
Refresh(r) ==
  /\ pc[r] = "refresh"
  /\ session' = End(Superseded(r) \ pick[r])
  /\ NoteRace(StaffOf(Superseded(r)) \ {who[r]})
  /\ Answer(r)
  /\ UNCHANGED assigned

\* endMySession: the sessions are listed, then those still ACTIVE are ended.
BeginEndMine(r, s) ==
  /\ Open(s) # {}
  /\ Begin(r, "end", "end", s, NoPlace)
  /\ pick' = [pick EXCEPT ![r] = Open(s)]
  /\ UNCHANGED <<session, assigned>>

EndMine(r) ==
  /\ pc[r] = "end"
  /\ session' = End({i \in pick[r] : session[i].status = "ACTIVE"})
  /\ Answer(r)
  /\ UNCHANGED <<assigned, raced>>

\* end and remove, by an administrator.
EndOne(i) ==
  /\ session[i].status = "ACTIVE"
  /\ session' = End({i})
  /\ NoteRace(StaffOf({i}))
  /\ UNCHANGED <<assigned, pc, via, who, place, pick>>

-----------------------------------------------------------------------------
(* StaffAccessService.                                                     *)

\* Mutant: the status of the session is not looked at.
LoadAnyContext(s, e, i) == assigned[<<e, s>>].active /\ assigned[<<e, s>>].place # NoPlace

\* loadStaffContext reads the assignment and the session in one transaction;
\* both must be active.
LoadContext(s, e, i) ==
  /\ assigned[<<e, s>>].active /\ assigned[<<e, s>>].place # NoPlace
  /\ session[i].status = "ACTIVE"

\* Assignment and session name the staff member and the place of the request.
BoundTo(s, i, p) ==
  /\ assigned[<<EventAt(p), s>>].place = p
  /\ session[i].staff = s /\ session[i].place = p

\* assertStaffCanScan, for a scan at place p that names session i.
BeginScan(r, s, i) ==
  /\ \E p \in Places :
       LoadContext(s, EventAt(p), i) /\ BoundTo(s, i, p) /\ Begin(r, "scan", "scan", s, p)
  /\ pick' = [pick EXCEPT ![r] = {i}]
  /\ UNCHANGED <<session, assigned>>

\* An operation of a batch from place p is at that device, gate and event; its
\* movement type is then the mode of the session.
InScope(o, p) == EventAt(o) = EventAt(p) /\ o.device = p.device /\ o.gate = p.gate

\* assertStaffCanSubmitSyncBatch: the batch names a device, the gate is that of
\* its session, and o is the place of a scan in the batch.
BeginBatch(r, s, i) ==
  /\ \E p \in Places :
       /\ LoadContext(s, EventAt(p), i)
       /\ p.gate = session[i].place.gate
       /\ BoundTo(s, i, p)
       /\ \E o \in Places : InScope(o, p) /\ Begin(r, "batch", "scan", s, o)
  /\ pick' = [pick EXCEPT ![r] = {i}]
  /\ UNCHANGED <<session, assigned>>

\* The scan, or batch, is recorded under the session; nothing is checked again.
RecordScan(r) ==
  /\ pc[r] = "scan"
  /\ Answer(r)
  /\ UNCHANGED <<session, assigned, raced>>

-----------------------------------------------------------------------------
(* StaffAssignmentsService.                                                *)

\* The staff member's only active assignment becomes that of event e.
OnlyActive(e, s, p) ==
  [x \in Events \X Staff |->
     IF x = <<e, s>> THEN [active |-> TRUE, place |-> p]
     ELSE IF x[2] = s THEN [assigned[x] EXCEPT !.active = FALSE]
     ELSE assigned[x]]

\* create, or activate with the place unchanged.
Assign(e, s, p) ==
  /\ session' = End(Open(s))
  /\ assigned' = OnlyActive(e, s, p)
  /\ NoteRace({s})
  /\ UNCHANGED <<pc, via, who, place, pick>>

\* deactivate and remove.
Deactivate(e, s) ==
  /\ assigned[<<e, s>>].place # NoPlace
  /\ session' = End(OpenIn(s, e))
  /\ assigned' = [assigned EXCEPT ![<<e, s>>].active = FALSE]
  /\ NoteRace({s})
  /\ UNCHANGED <<pc, via, who, place, pick>>

\* Mutant: a new gate on the same device does not count as a change.
MovedToDevice(old, new) == old.device # new.device

\* checkpointChanged or deviceChanged.
Moved(old, new) == old.device # new.device \/ old.gate # new.gate

\* update reads the assignment and compares it with the new place ...
BeginUpdate(r, e, s) ==
  /\ assigned[<<e, s>>].place # NoPlace
  /\ \E p \in PostsOf(s, e) :
       Begin(r, "update", IF Moved(assigned[<<e, s>>].place, p) THEN "move" ELSE "update", s, p)
  /\ UNCHANGED <<session, assigned, pick>>

\* ... and writes it; the sessions end if the place was seen to change, or the
\* assignment is switched off with it.
Update(r) ==
  /\ pc[r] \in {"update", "move"}
  /\ \E off \in BOOLEAN :
       LET e == EventAt(place[r]) IN
       /\ session' = IF off \/ pc[r] = "move" THEN End(OpenIn(who[r], e)) ELSE session
       /\ assigned' = [assigned EXCEPT ![<<e, who[r]>>] =
                         [active |-> @.active /\ ~off, place |-> place[r]]]
  /\ Answer(r)
  /\ UNCHANGED raced

-----------------------------------------------------------------------------
Init ==
  /\ session = [i \in Ids |-> NoSession]
  /\ assigned = [x \in Events \X Staff |-> NotAssigned]
  /\ pc = [r \in Requests |-> "idle"]
  /\ via = [r \in Requests |-> "none"]
  /\ who = [r \in Requests |-> Nobody]
  /\ place = [r \in Requests |-> NoPlace]
  /\ pick = [r \in Requests |-> {}]
  /\ raced = {}

Serve(r) ==
  \/ FindReusable(r) \/ Bind(r) \/ Start(r) \/ Refresh(r) \/ EndMine(r) \/ Update(r)
  \/ RecordScan(r) \/ Refuse(r)

Next ==
  \/ \E r \in Requests, s \in Staff :
       \/ BeginMine(r, s) \/ BeginEndMine(r, s)
       \/ \E e \in Events : BeginStart(r, s, e) \/ BeginUpdate(r, e, s)
       \/ \E i \in Ids : BeginScan(r, s, i) \/ BeginBatch(r, s, i)
  \/ \E r \in Requests : Serve(r)
  \/ \E e \in Events, s \in Staff :
       Deactivate(e, s) \/ \E p \in PostsOf(s, e) : Assign(e, s, p)
  \/ \E i \in Ids : EndOne(i)

Spec == Init /\ [][Next]_vars

-----------------------------------------------------------------------------
(* Properties.                                                             *)

\* Comments of start: a staff member must not own two active sessions, even in
\* two events; a device must not be used by two active sessions.
OneSession ==
  /\ \A s \in Staff : Cardinality(Open(s)) <= 1
  /\ \A d \in Devices : Cardinality(OpenOn(d)) <= 1

Fits(i) == Bound(session[i].staff, session[i].place)

\* A step of startMySession ends a session that matches the assignment.
EndsFitting(r) ==
  /\ via[r] = "mine" /\ pc'[r] = "idle"
  /\ \E i \in Open(who[r]) : Fits(i) /\ session'[i].status = "ENDED"

\* The comment of update in StaffAssignmentsService: no session may stay linked
\* to a device or a gate that does not match the assignment any more.  It holds
\* for a staff member unless two requests or changes of the assignment that
\* concern them overlapped.
MismatchNeedsRace ==
  \A i \in Ids : session[i].status = "ACTIVE" => Fits(i) \/ session[i].staff \in raced

\* The comment of startMySession: starting or refreshing the page must not end a
\* valid session; only those that do not match the assignment are ended.  Two
\* starts at once end each other's; nothing else does.
LossNeedsRace == [][\A r \in Requests : EndsFitting(r) => who[r] \in raced]_vars

\* The comment of assertStaffCanScan: a staff member scans in a session of
\* their own that is open, at the place they are assigned to, even when the
\* device was taken over, the session ended or the assignment moved before.  A
\* scan only outlives its session if one of these overlapped its request.
ScanNeedsRace ==
  \A r \in Requests : pc[r] = "scan" =>
    \/ \A i \in pick[r] : session[i].status = "ACTIVE" /\ Fits(i)
    \/ who[r] \in raced
=============================================================================
