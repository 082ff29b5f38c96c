--------------------------- MODULE SessionProofs ---------------------------
(***************************************************************************)
(* Proofs about StaffSessions and Accounts, for all staff, events, places, *)
(* devices, clients, users, logins and requests: one session per staff     *)
(* member and device, and sessions that are lost, scanned in or left at    *)
(* another place only by an overlap; a refresh token has one successor,    *)
(* passwords and deactivations end the sessions they are about, and an     *)
(* access account is not replaced.                                         *)
(***************************************************************************)
EXTENDS StaffSessions, Accounts, FiniteSetTheorems, TLAPS

-----------------------------------------------------------------------------
(* StaffSessions.                                                          *)

Active(i) == session[i].status = "ACTIVE"

\* Two open sessions share neither the staff member nor the device.
Alone ==
  \A i, j \in Ids :
    /\ Active(i) /\ Active(j)
    /\ \/ session[i].staff = session[j].staff
       \/ session[i].place.device = session[j].place.device
    => i = j

\* An open session has a staff member and a place.
Rows == \A i \in Ids : Active(i) => session[i].staff \in Staff /\ session[i].place \in Places

\* A request that is served has a staff member, and a place where it needs one;
\* the sessions it has read are rows of this staff member.
Serves(r) ==
  /\ pc[r] = "idle" => who[r] = Nobody /\ via[r] = "none" /\ pick[r] = {}
  /\ pc[r] # "idle" => who[r] \in Staff
  /\ pc[r] \in {"find", "bind", "start", "refresh", "update", "move"} => place[r] \in Places
  /\ via[r] = "mine" => pc[r] \in {"find", "bind", "start", "refresh"}
  /\ \A i \in pick[r] : session[i].status # "NONE" /\ session[i].staff = who[r]
Serving == \A r \in Requests : Serves(r)

\* Two requests of one staff member overlap.
Overlap ==
  \A q, r \in Requests : q # r /\ who[q] = who[r] /\ who[r] # Nobody => who[r] \in raced

\* The row of an event names a place of it, and one row of a staff member is active.
Posted ==
  /\ \A e \in Events, s \in Staff :
       /\ assigned[<<e, s>>].place # NoPlace => EventAt(assigned[<<e, s>>].place) = e
       /\ assigned[<<e, s>>].active => assigned[<<e, s>>].place # NoPlace
  /\ \A s \in Staff : \A e, f \in Events :
       assigned[<<e, s>>].active /\ assigned[<<f, s>>].active => e = f

\* What a request has read is still so, unless something overlapped it.
Knows(r) ==
  /\ pc[r] \in {"find", "bind", "start"} => Bound(who[r], place[r])
  /\ via[r] = "mine" /\ pc[r] \in {"bind", "start"} =>
       \A i \in Open(who[r]) : session[i].place # place[r]
  /\ pc[r] = "refresh" => pick[r] # {} /\ \A i \in pick[r] : Active(i)
  /\ pc[r] = "update" => assigned[<<EventAt(place[r]), who[r]>>].place = place[r]
  /\ pc[r] = "scan" => \A i \in pick[r] : Active(i) /\ Fits(i)
Knowing == \A r \in Requests : who[r] \in raced \/ Knows(r)

Shape == TypeOK /\ Alone /\ Rows /\ Serving /\ Overlap /\ Posted
SInv == Shape /\ Knowing /\ MismatchNeedsRace

\* A step leaves the assignments and the sessions of a staff member alone.
Untouched(s) ==
  /\ \A e \in Events : assigned'[<<e, s>>] = assigned[<<e, s>>]
  /\ \A i \in Ids : Active(i) /\ session[i].staff = s => session'[i] = session[i]
  /\ \A i \in Ids : session'[i].status = "ACTIVE" /\ session'[i].staff = s
                      => session'[i] = session[i]

-----------------------------------------------------------------------------
\* Places have an event.
LEMMA PlaceEvent == \A p \in Places : EventAt(p) \in Events
  BY StaffAssumption DEF Places, EventAt

\* Ending sessions changes nothing but their status.
LEMMA Ending ==
  ASSUME TypeOK, NEW ids \in SUBSET Ids
  PROVE  /\ End(ids) \in [Ids -> [status : {"NONE", "ACTIVE", "ENDED"},
                                  staff : Staff \cup {Nobody}, place : Places \cup {NoPlace}]]
         /\ \A i \in Ids : /\ End(ids)[i].staff = session[i].staff
                           /\ End(ids)[i].place = session[i].place
                           /\ End(ids)[i].status = IF i \in ids THEN "ENDED" ELSE session[i].status
                           /\ i \notin ids => End(ids)[i] = session[i]
  BY DEF TypeOK, End

\* Nothing is open and nobody is served.
LEMMA SInvInit == Init => SInv
<1> SUFFICES ASSUME Init PROVE SInv
  OBVIOUS
<1> USE DEF Init
<1>1. TypeOK
  BY DEF TypeOK, NoSession, NotAssigned
<1>2. Alone /\ Rows /\ MismatchNeedsRace
  BY DEF Alone, Rows, MismatchNeedsRace, Active, NoSession
<1>3. Serving /\ Overlap /\ Knowing
  BY DEF Serving, Serves, Overlap, Knowing, Knows
<1>4. Posted
  BY DEF Posted, NotAssigned
<1> QED
  BY <1>1, <1>2, <1>3, <1>4 DEF SInv, Shape

\* What a request knows survives the steps that leave its staff member alone.
LEMMA KnowsKept ==
  ASSUME SInv, NEW q \in Requests, Serves(q), who[q] \notin raced',
         raced \subseteq raced', who[q] # Nobody => Untouched(who[q]),
         pc'[q] = pc[q], via'[q] = via[q], who'[q] = who[q], place'[q] = place[q],
         pick'[q] = pick[q]
  PROVE  Knows(q)'
<1>1. Knows(q)
  BY DEF SInv, Knowing
<1>2. CASE pc[q] = "idle"
  BY <1>2 DEF Knows, Serves
<1>3. CASE pc[q] # "idle"
  <2>1. who[q] \in Staff /\ Untouched(who[q])
    BY <1>3, StaffAssumption DEF Serves
  <2>2. \A p \in Places : assigned'[<<EventAt(p), who[q]>>] = assigned[<<EventAt(p), who[q]>>]
    BY <2>1, PlaceEvent DEF Untouched
  <2>3. \A i \in pick[q] : i \in Ids /\ session[i].staff = who[q]
    BY DEF Serves, SInv, Shape, TypeOK
  <2>4. \A i \in pick[q] : Active(i) => session'[i] = session[i]
    BY <2>1, <2>3 DEF Untouched
  <2>5. pc[q] \in {"find", "bind", "start"} => Bound(who[q], place[q])'
    BY <1>1, <2>2 DEF Knows, Bound, Serves, EventAt
  <2>6. via[q] = "mine" /\ pc[q] \in {"bind", "start"} =>
          \A i \in Open(who[q])' : session'[i].place # place[q]
    BY <1>1, <2>1 DEF Knows, Open, Untouched, Active
  <2>7. pc[q] = "refresh" => pick[q] # {} /\ \A i \in pick[q] : Active(i)'
    BY <1>1, <2>4 DEF Knows, Active
  <2>8. pc[q] = "update" => assigned'[<<EventAt(place[q]), who[q]>>].place = place[q]
    BY <1>1, <2>2 DEF Knows, Serves
  <2>9. pc[q] = "scan" => \A i \in pick[q] : Active(i)' /\ Fits(i)'
    <3> SUFFICES ASSUME pc[q] = "scan", NEW i \in pick[q] PROVE Active(i)' /\ Fits(i)'
      OBVIOUS
    <3>1. i \in Ids /\ Active(i) /\ Fits(i) /\ session'[i] = session[i] /\ session[i].staff = who[q]
      BY <1>1, <2>3, <2>4 DEF Knows
    <3>2. session[i].place \in Places
      BY <3>1 DEF SInv, Shape, Rows
    <3> QED
      BY <3>1, <3>2, <2>2 DEF Fits, Bound, Active, EventAt
  <2> QED
    BY <2>5, <2>6, <2>7, <2>8, <2>9 DEF Knows
<1> QED
  BY <1>2, <1>3

\* A session of a staff member that a step leaves alone matches as before.
LEMMA MatchKept ==
  ASSUME SInv, NEW i \in Ids, raced \subseteq raced',
         session'[i].status = "ACTIVE", Untouched(session'[i].staff)
  PROVE  Fits(i)' \/ session'[i].staff \in raced'
<1>1. session'[i] = session[i] /\ Active(i)
  BY DEF Untouched, Active
<1>2. session[i].place \in Places /\ (Fits(i) \/ session[i].staff \in raced)
  BY <1>1 DEF SInv, Shape, Rows, MismatchNeedsRace, Active
<1>3. EventAt(session[i].place) \in Events
  BY <1>2, PlaceEvent
<1> QED
  BY <1>1, <1>2, <1>3 DEF Fits, Bound, Untouched, EventAt

-----------------------------------------------------------------------------
\* A step after which each request has gone, or is as it was before with its staff
\* member left alone or counted as raced, needs no more than the rows in order.
LEMMA OthersKeep ==
  ASSUME SInv, TypeOK', Alone', Rows', Posted', MismatchNeedsRace', raced \subseteq raced',
         \A i \in Ids : session[i].status # "NONE" =>
           session'[i].status # "NONE" /\ session'[i].staff = session[i].staff,
         \A q \in Requests :
           \/ pc'[q] = "idle" /\ via'[q] = "none" /\ who'[q] = Nobody /\ pick'[q] = {}
           \/ /\ pc'[q] = pc[q] /\ via'[q] = via[q] /\ who'[q] = who[q]
              /\ place'[q] = place[q] /\ pick'[q] = pick[q]
              /\ who[q] # Nobody => who[q] \in raced' \/ Untouched(who[q])
  PROVE  SInv'
<1> DEFINE Gone(q) == pc'[q] = "idle" /\ via'[q] = "none" /\ who'[q] = Nobody /\ pick'[q] = {}
<1>1. \A q \in Requests : pick[q] \subseteq Ids /\ Serves(q)
  BY DEF SInv, Shape, TypeOK, Serving
<1>2. Serving'
  BY <1>1 DEF Serving, Serves
<1>3. Overlap'
  BY DEF Overlap, SInv, Shape
<1>4. Knowing'
  <2> SUFFICES ASSUME NEW q \in Requests, who'[q] \notin raced' PROVE Knows(q)'
    BY DEF Knowing
  <2>1. CASE Gone(q)
    BY <2>1 DEF Knows
  <2>2. CASE ~Gone(q)
    BY <2>2, <1>1, KnowsKept
  <2> QED
    BY <2>1, <2>2
<1> QED
  BY <1>2, <1>3, <1>4 DEF SInv, Shape

\* A request begins that has read what it must know.
LEMMA BeginStep ==
  ASSUME SInv, NEW r \in Requests, NEW s \in Staff, NEW p \in Places \cup {NoPlace},
         NEW endpoint \in {"mine", "start", "end", "update", "scan", "batch"},
         NEW step \in {"find", "start", "end", "update", "move", "scan"},
         NEW ids \in SUBSET Ids,
         Begin(r, endpoint, step, s, p), UNCHANGED <<session, assigned>>,
         pick' = [pick EXCEPT ![r] = ids],
         endpoint = "mine" => step = "find",
         step \in {"find", "start", "update", "move"} => p \in Places,
         step \in {"find", "start"} => Bound(s, p),
         step = "update" => assigned[<<EventAt(p), s>>].place = p,
         \A i \in ids : session[i].status # "NONE" /\ session[i].staff = s,
         step = "scan" => \A i \in ids : Active(i) /\ Fits(i)
  PROVE  SInv'
<1> USE DEF SInv, Shape
<1>1. /\ pc \in [Requests -> {"idle", "find", "bind", "start", "refresh", "end", "update", "move", "scan"}]
      /\ via \in [Requests -> {"none", "mine", "start", "end", "update", "scan", "batch"}]
      /\ who \in [Requests -> Staff \cup {Nobody}]
      /\ place \in [Requests -> Places \cup {NoPlace}]
      /\ pick \in [Requests -> SUBSET Ids] /\ raced \subseteq Staff
  BY DEF TypeOK
<1>2. /\ pc[r] = "idle" /\ pc' = [pc EXCEPT ![r] = step] /\ via' = [via EXCEPT ![r] = endpoint]
      /\ who' = [who EXCEPT ![r] = s] /\ place' = [place EXCEPT ![r] = p]
      /\ raced' = raced \cup {x \in {s} : \E q \in Requests : who[q] = x}
  BY DEF Begin, Goto, NoteRace
<1>3. TypeOK'
  <2>1. /\ pc' \in [Requests -> {"idle", "find", "bind", "start", "refresh", "end", "update", "move", "scan"}]
        /\ via' \in [Requests -> {"none", "mine", "start", "end", "update", "scan", "batch"}]
    BY <1>1, <1>2
  <2>2. who' \in [Requests -> Staff \cup {Nobody}] /\ place' \in [Requests -> Places \cup {NoPlace}]
    BY <1>1, <1>2
  <2>3. pick' \in [Requests -> SUBSET Ids] /\ raced' \subseteq Staff
    BY <1>1, <1>2
  <2> QED
    BY <2>1, <2>2, <2>3 DEF TypeOK
<1>4. Alone' /\ Rows' /\ Posted'
  BY DEF Alone, Rows, Posted, Active, EventAt
<1>5. /\ pc'[r] = step /\ via'[r] = endpoint /\ who'[r] = s /\ place'[r] = p /\ pick'[r] = ids
      /\ \A q \in Requests \ {r} : /\ pc'[q] = pc[q] /\ via'[q] = via[q] /\ who'[q] = who[q]
                                   /\ place'[q] = place[q] /\ pick'[q] = pick[q]
  BY <1>1, <1>2
<1>6. Serving'
  <2>1. Serves(r)'
    BY <1>5, StaffAssumption DEF Serves
  <2>2. \A q \in Requests \ {r} : Serves(q)'
    BY <1>5 DEF Serving, Serves
  <2> QED
    BY <2>1, <2>2 DEF Serving
<1>7. Overlap'
  BY <1>2, <1>5 DEF Overlap
<1>8. Knowing'
  <2>1. Knows(r)'
    <3>1. step \in {"find", "start"} => Bound(s, p)'
      BY DEF Bound, EventAt
    <3>2. step = "scan" => \A i \in ids : Active(i)' /\ Fits(i)'
      BY DEF Active, Fits, Bound, EventAt
    <3> QED
      BY <1>5, <3>1, <3>2 DEF Knows, EventAt
  <2>2. ASSUME NEW q \in Requests \ {r}, who'[q] \notin raced' PROVE Knows(q)'
    <3>1. Untouched(who[q])
      BY DEF Untouched
    <3>2. Serves(q) /\ raced \subseteq raced' /\ q \in Requests
      BY <1>2 DEF Serving
    <3> QED
      BY <2>2, <1>5, <3>1, <3>2, KnowsKept
  <2> QED
    BY <2>1, <2>2 DEF Knowing
<1>9. MismatchNeedsRace'
  BY <1>2 DEF MismatchNeedsRace, Fits, Bound, EventAt
<1> QED
  BY <1>3, <1>4, <1>6, <1>7, <1>8, <1>9

\* The requests begin with what the checks before their first step have read.
LEMMA BeginSteps ==
  ASSUME SInv, NEW r \in Requests, NEW s \in Staff,
         \/ BeginMine(r, s) \/ BeginEndMine(r, s)
         \/ \E e \in Events : BeginStart(r, s, e) \/ BeginUpdate(r, e, s)
         \/ \E i \in Ids : BeginScan(r, s, i) \/ BeginBatch(r, s, i)
  PROVE  SInv'
<1>1. pc[r] = "idle" /\ pick \in [Requests -> SUBSET Ids] => pick = [pick EXCEPT ![r] = {}]
  BY DEF SInv, Shape, Serving, Serves
<1>2. pick \in [Requests -> SUBSET Ids] /\ {} \in SUBSET Ids
  BY DEF SInv, Shape, TypeOK
<1>3. CASE BeginMine(r, s)
  <2>1. PICK e \in Events : /\ assigned[<<e, s>>].active /\ assigned[<<e, s>>].place # NoPlace
                            /\ Begin(r, "mine", "find", s, assigned[<<e, s>>].place)
    BY <1>3 DEF BeginMine
  <2>2. /\ assigned[<<e, s>>] \in [active : BOOLEAN, place : Places \cup {NoPlace}]
        /\ EventAt(assigned[<<e, s>>].place) = e
    BY <2>1 DEF SInv, Shape, TypeOK, Posted
  <2>3. Bound(s, assigned[<<e, s>>].place) /\ assigned[<<e, s>>].place \in Places
    BY <2>1, <2>2 DEF Bound
  <2>4. pick' = [pick EXCEPT ![r] = {}] /\ UNCHANGED <<session, assigned>>
    BY <1>1, <1>2, <1>3, <2>1 DEF BeginMine, Begin
  <2> DEFINE ids == {}
  <2>5. /\ ids \in SUBSET Ids /\ pick' = [pick EXCEPT ![r] = ids]
        /\ session' = session /\ assigned' = assigned
        /\ \A i \in ids : session[i].status # "NONE" /\ session[i].staff = s
    BY <2>4
  <2> HIDE DEF ids
  <2> DEFINE p == assigned[<<e, s>>].place
  <2>6. /\ p \in Places \cup {NoPlace} /\ p \in Places /\ Bound(s, p)
        /\ Begin(r, "mine", "find", s, p)
    BY <2>1, <2>3
  <2> HIDE DEF p
  <2> QED
    BY <2>5, <2>6, BeginStep
<1>4. CASE BeginEndMine(r, s)
  <2>1. Open(s) \in SUBSET Ids /\ \A i \in Open(s) : session[i].status # "NONE" /\ session[i].staff = s
    BY DEF Open
  <2> QED
    BY <1>4, <2>1, BeginStep DEF BeginEndMine
<1>5. ASSUME NEW e \in Events, BeginStart(r, s, e) PROVE SInv'
  <2>1. PICK p \in Places : Bound(s, p) /\ Begin(r, "start", "start", s, p)
    BY <1>5 DEF BeginStart, PlacesOf
  <2>2. pick' = [pick EXCEPT ![r] = {}] /\ UNCHANGED <<session, assigned>>
    BY <1>1, <1>2, <1>5, <2>1 DEF BeginStart, Begin
  <2> DEFINE ids == {}
  <2>3. /\ ids \in SUBSET Ids /\ pick' = [pick EXCEPT ![r] = ids]
        /\ session' = session /\ assigned' = assigned
        /\ \A i \in ids : session[i].status # "NONE" /\ session[i].staff = s
    BY <2>2
  <2> HIDE DEF ids
  <2>4. p \in Places \cup {NoPlace}
    BY <2>1
  <2> QED
    BY <2>1, <2>3, <2>4, BeginStep
<1>6. ASSUME NEW e \in Events, BeginUpdate(r, e, s) PROVE SInv'
  <2> DEFINE step(p) == IF Moved(assigned[<<e, s>>].place, p) THEN "move" ELSE "update"
  <2>1. PICK p \in PostsOf(s, e) : Begin(r, "update", step(p), s, p)
    BY <1>6 DEF BeginUpdate
  <2>2. p \in Places /\ EventAt(p) = e
    BY <2>1 DEF PostsOf, PlacesOf, EventAt
  <2>3. pick' = [pick EXCEPT ![r] = {}] /\ UNCHANGED <<session, assigned>>
    BY <1>1, <1>2, <1>6, <2>1 DEF BeginUpdate, Begin
  <2>4. step(p) = "update" => assigned[<<EventAt(p), s>>].place = p
    <3>1. assigned[<<e, s>>].place \in Places
      BY <1>6 DEF BeginUpdate, SInv, Shape, TypeOK
    <3>2. \A q \in Places : q.device = p.device /\ q.gate = p.gate => q = p
      BY <2>2 DEF Places
    <3>3. ~Moved(assigned[<<e, s>>].place, p) => assigned[<<e, s>>].place = p
      BY <3>1, <3>2 DEF Moved
    <3> QED
      BY <2>2, <3>3
  <2> DEFINE ids == {}
  <2>6. /\ ids \in SUBSET Ids /\ pick' = [pick EXCEPT ![r] = ids]
        /\ session' = session /\ assigned' = assigned
        /\ \A i \in ids : session[i].status # "NONE" /\ session[i].staff = s
    BY <2>3
  <2> HIDE DEF ids
  <2>7. p \in Places \cup {NoPlace}
    BY <2>2
  <2>8. CASE step(p) = "move"
    <3>1. Begin(r, "update", "move", s, p)
      BY <2>1, <2>8
    <3> HIDE DEF step
    <3> QED
      BY <2>2, <2>6, <2>7, <3>1, BeginStep
  <2>9. CASE step(p) = "update"
    <3>1. Begin(r, "update", "update", s, p) /\ assigned[<<EventAt(p), s>>].place = p
      BY <2>1, <2>4, <2>9
    <3> HIDE DEF step
    <3> QED
      BY <2>2, <2>6, <2>7, <3>1, BeginStep
  <2> QED
    BY <2>8, <2>9
<1>7. ASSUME NEW i \in Ids, BeginScan(r, s, i) PROVE SInv'
  <2>1. PICK p \in Places : /\ LoadContext(s, EventAt(p), i) /\ BoundTo(s, i, p)
                            /\ Begin(r, "scan", "scan", s, p)
    BY <1>7 DEF BeginScan
  <2>2. EventAt(p) \in Events
    BY PlaceEvent
  <2>3. Active(i) /\ session[i].staff = s /\ Fits(i)
    BY <2>1, <2>2 DEF LoadContext, BoundTo, Active, Fits, Bound, SInv, Shape, TypeOK
  <2> DEFINE ids == {i}
  <2>4. /\ ids \in SUBSET Ids /\ pick' = [pick EXCEPT ![r] = ids]
        /\ session' = session /\ assigned' = assigned
        /\ \A j \in ids : session[j].status # "NONE" /\ session[j].staff = s
        /\ \A j \in ids : Active(j) /\ Fits(j)
    BY <1>7, <2>3 DEF BeginScan, Active
  <2> HIDE DEF ids
  <2>5. p \in Places \cup {NoPlace}
    BY <2>1
  <2> QED
    BY <2>1, <2>4, <2>5, BeginStep
<1>8. ASSUME NEW i \in Ids, BeginBatch(r, s, i) PROVE SInv'
  <2>1. PICK p \in Places, o \in Places :
           /\ LoadContext(s, EventAt(p), i) /\ BoundTo(s, i, p) /\ Begin(r, "batch", "scan", s, o)
    BY <1>8 DEF BeginBatch
  <2>2. EventAt(p) \in Events
    BY PlaceEvent
  <2>3. Active(i) /\ session[i].staff = s /\ Fits(i)
    BY <2>1, <2>2 DEF LoadContext, BoundTo, Active, Fits, Bound, SInv, Shape, TypeOK
  <2> DEFINE ids == {i}
  <2>4. /\ ids \in SUBSET Ids /\ pick' = [pick EXCEPT ![r] = ids]
        /\ session' = session /\ assigned' = assigned
        /\ \A j \in ids : session[j].status # "NONE" /\ session[j].staff = s
        /\ \A j \in ids : Active(j) /\ Fits(j)
    BY <1>8, <2>3 DEF BeginBatch, Active
  <2> HIDE DEF ids
  <2>5. o \in Places \cup {NoPlace}
    BY <2>1
  <2> QED
    BY <2>1, <2>4, <2>5, BeginStep
<1> QED
  BY <1>3, <1>4, <1>5, <1>6, <1>7, <1>8

-----------------------------------------------------------------------------
\* startMySession finds a session to refresh, or none, and goes on to start.
LEMMA FindStep ==
  ASSUME SInv, NEW r \in Requests, FindReusable(r) \/ Bind(r)
  PROVE  SInv'
<1> USE DEF SInv, Shape
<1>1. /\ pc[r] \in {"find", "bind"} /\ pc' = [pc EXCEPT ![r] = pc'[r]]
      /\ UNCHANGED <<session, assigned, via, who, place, raced>>
      /\ pick' \in [Requests -> SUBSET Ids] /\ pc'[r] \in {"refresh", "bind", "start"}
      /\ \A i \in pick'[r] : session[i].status # "NONE" /\ session[i].staff = who[r]
      /\ \A q \in Requests \ {r} : pick'[q] = pick[q]
  BY DEF FindReusable, Bind, Goto, TypeOK, Open, Serving, Serves
<1>2. TypeOK' /\ Alone' /\ Rows' /\ Overlap' /\ Posted'
  BY <1>1 DEF TypeOK, Alone, Rows, Overlap, Posted, Active, EventAt
<1>3. \A q \in Requests \ {r} : pc'[q] = pc[q]
  BY <1>1 DEF TypeOK
<1>4. Serving'
  BY <1>1, <1>3 DEF Serving, Serves
<1>5. Knowing'
  <2>1. ASSUME NEW q \in Requests \ {r}, who'[q] \notin raced' PROVE Knows(q)'
    <3>1. Untouched(who[q]) /\ Serves(q)
      BY <1>1 DEF Untouched, Serving
    <3> QED
      BY <2>1, <1>1, <1>3, <3>1, KnowsKept
  <2>2. ASSUME who[r] \notin raced PROVE Knows(r)'
    <3>1. Bound(who[r], place[r]) /\ Knows(r)
      BY <1>1, <2>2 DEF Knowing, Knows
    <3>2. CASE FindReusable(r) /\ pc'[r] = "refresh"
      BY <3>2, <1>1 DEF FindReusable, Goto, TypeOK, Knows, Open, Active
    <3>3. CASE FindReusable(r) /\ pc'[r] = "bind"
      <4>1. \A i \in Open(who[r]) : session[i].place # place[r]
        BY <3>3, <1>1 DEF FindReusable, Goto, TypeOK
      <4> QED
        BY <3>1, <3>3, <4>1, <1>1 DEF Knows, Bound, Open, EventAt
    <3>4. CASE Bind(r)
      BY <3>1, <3>4, <1>1 DEF Bind, Goto, TypeOK, Knows, Bound, Open, EventAt
    <3>5. FindReusable(r) => pc'[r] \in {"refresh", "bind"}
      BY DEF FindReusable, Goto, TypeOK
    <3> QED
      BY <3>2, <3>3, <3>4, <3>5
  <2> QED
    BY <1>1, <2>1, <2>2 DEF Knowing
<1>6. MismatchNeedsRace'
  BY <1>1 DEF MismatchNeedsRace, Fits, Bound, EventAt
<1> QED
  BY <1>2, <1>4, <1>5, <1>6

\* A request that has answered is gone.
LEMMA Answered ==
  ASSUME TypeOK, NEW r \in Requests, Answer(r)
  PROVE  /\ pc'[r] = "idle" /\ via'[r] = "none" /\ who'[r] = Nobody /\ pick'[r] = {}
         /\ \A q \in Requests \ {r} : /\ pc'[q] = pc[q] /\ via'[q] = via[q] /\ who'[q] = who[q]
                                      /\ place'[q] = place[q] /\ pick'[q] = pick[q]
         /\ session' \in [Ids -> [status : {"NONE", "ACTIVE", "ENDED"},
                                   staff : Staff \cup {Nobody}, place : Places \cup {NoPlace}]]
            /\ assigned' \in [Events \X Staff -> [active : BOOLEAN, place : Places \cup {NoPlace}]]
            /\ raced' \subseteq Staff
            => TypeOK'
  BY DEF TypeOK, Answer, Goto

\* What ends sessions keeps them apart and keeps their rows; and it leaves those
\* alone that have none among them.
LEMMA Ended ==
  ASSUME SInv, NEW ids \in SUBSET Ids, session' = End(ids)
  PROVE  /\ Alone' /\ Rows'
         /\ \A i \in Ids : session'[i].status = "ACTIVE" => session'[i] = session[i] /\ Active(i)
         /\ (\A i \in ids : Active(i)) =>
              \A i \in Ids : session[i].status # "NONE" =>
                session'[i].status # "NONE" /\ session'[i].staff = session[i].staff
         /\ \A s \in Staff : assigned' = assigned /\ s \notin StaffOf(ids) => Untouched(s)
<1>1. \A i \in Ids :
        /\ session'[i].staff = session[i].staff /\ session'[i].place = session[i].place
        /\ session'[i].status = IF i \in ids THEN "ENDED" ELSE session[i].status
        /\ i \notin ids => session'[i] = session[i]
  BY Ending DEF SInv, Shape
<1>2. Alone' /\ Rows'
  BY <1>1 DEF SInv, Shape, Alone, Rows, Active
<1>3. \A i \in Ids : session'[i].status = "ACTIVE" => session'[i] = session[i] /\ Active(i)
  BY <1>1 DEF Active
<1>4. \A s \in Staff : assigned' = assigned /\ s \notin StaffOf(ids) => Untouched(s)
  BY <1>1, <1>3 DEF Untouched, StaffOf, Active
<1> QED
  BY <1>1, <1>2, <1>3, <1>4 DEF Active

\* Requests that end without a trace.
LEMMA LeaveStep ==
  ASSUME SInv, NEW r \in Requests, Refuse(r) \/ RecordScan(r)
  PROVE  SInv'
<1>1. Answer(r) /\ UNCHANGED <<session, assigned, raced>> /\ TypeOK
  BY DEF Refuse, RecordScan, SInv, Shape
<1>2. Alone' /\ Rows' /\ Posted' /\ MismatchNeedsRace'
  BY <1>1 DEF SInv, Shape, Alone, Rows, Posted, MismatchNeedsRace, Active, Fits, Bound, EventAt
<1>3. TypeOK'
  BY <1>1, Answered DEF TypeOK
<1>4. \A s \in Staff : Untouched(s)
  BY <1>1 DEF Untouched
<1>5. \A q \in Requests : who[q] # Nobody => who[q] \in Staff
  BY <1>1 DEF TypeOK
<1> QED
  BY <1>1, <1>2, <1>3, <1>4, <1>5, Answered, OthersKeep

\* Sessions are ended while the assignments stay, by a request or by an
\* administrator: those whose session it was, and who are served, count as raced.
LEMMA EndStep ==
  ASSUME SInv, NEW ids \in SUBSET Ids, session' = End(ids), assigned' = assigned,
         \A i \in ids : Active(i), raced' \subseteq Staff, raced \subseteq raced', TypeOK',
         \A q \in Requests :
           \/ pc'[q] = "idle" /\ via'[q] = "none" /\ who'[q] = Nobody /\ pick'[q] = {}
           \/ /\ pc'[q] = pc[q] /\ via'[q] = via[q] /\ who'[q] = who[q]
              /\ place'[q] = place[q] /\ pick'[q] = pick[q]
              /\ who[q] \in StaffOf(ids) => who[q] \in raced'
  PROVE  SInv'
<1>1. Posted'
  BY DEF SInv, Shape, Posted, EventAt
<1>2. MismatchNeedsRace'
  BY Ended DEF SInv, MismatchNeedsRace, Fits, Bound, EventAt, Active
<1>3. \A q \in Requests : who[q] # Nobody => who[q] \in Staff
  BY DEF SInv, Shape, TypeOK
<1>4. \A q \in Requests : who[q] # Nobody /\ who[q] \notin StaffOf(ids) => Untouched(who[q])
  BY <1>3, Ended
<1>5. Alone' /\ Rows'
      /\ \A i \in Ids : session[i].status # "NONE" =>
           session'[i].status # "NONE" /\ session'[i].staff = session[i].staff
  BY Ended
<1> QED
  BY <1>1, <1>2, <1>4, <1>5, OthersKeep

\* Refresh and endMySession.
LEMMA EndSteps ==
  ASSUME SInv, NEW r \in Requests, Refresh(r) \/ EndMine(r)
  PROVE  SInv'
<1>0. TypeOK /\ Serves(r) /\ \A i \in Ids : Active(i) => session[i].staff \in Staff
  BY DEF SInv, Shape, Serving, Rows
<1>1. CASE Refresh(r)
  <2> DEFINE ids == Superseded(r) \ pick[r]
  <2>1. ids \in SUBSET Ids /\ \A i \in ids : Active(i)
    BY DEF Superseded, Open, OpenOn, Active
  <2>2. /\ session' = End(ids) /\ assigned' = assigned /\ Answer(r)
        /\ raced' = raced \cup {s \in StaffOf(Superseded(r)) \ {who[r]} : \E q \in Requests : who[q] = s}
    BY <1>1 DEF Refresh, NoteRace
  <2>3. StaffOf(Superseded(r)) \subseteq Staff
    BY <1>0 DEF StaffOf, Superseded, Open, OpenOn, Active
  <2>4. raced' \subseteq Staff /\ raced \subseteq raced'
    BY <1>0, <2>2, <2>3 DEF TypeOK
  <2>5. TypeOK'
    BY <1>0, <2>1, <2>2, <2>4, Ending, Answered DEF TypeOK
  <2>6. \A q \in Requests \ {r} : who[q] \in StaffOf(ids) => who[q] \in raced'
    <3>1. SUFFICES ASSUME NEW q \in Requests \ {r}, who[q] \in StaffOf(ids) PROVE who[q] \in raced'
      OBVIOUS
    <3>2. who[q] \in StaffOf(Superseded(r)) /\ who[q] \in Staff
      BY <3>1, <2>3 DEF StaffOf
    <3>3. CASE who[q] = who[r]
      BY <3>2, <3>3, <2>4, StaffAssumption DEF SInv, Shape, Overlap
    <3> QED
      BY <3>2, <3>3, <2>2
  <2> HIDE DEF ids
  <2> QED
    BY <1>0, <2>1, <2>2, <2>4, <2>5, <2>6, Answered, EndStep
<1>2. CASE EndMine(r)
  <2> DEFINE ids == {i \in pick[r] : session[i].status = "ACTIVE"}
  <2>1. ids \in SUBSET Ids /\ (\A i \in ids : Active(i)) /\ StaffOf(ids) \subseteq {who[r]}
    BY <1>0 DEF TypeOK, Active, StaffOf, Serves
  <2>2. session' = End(ids) /\ assigned' = assigned /\ Answer(r) /\ raced' = raced
    BY <1>2 DEF EndMine
  <2>3. TypeOK' /\ raced' \subseteq Staff
    BY <1>0, <2>1, <2>2, Ending, Answered DEF TypeOK
  <2>4. \A q \in Requests \ {r} : who[q] \in StaffOf(ids) => who[q] \in raced'
    <3>1. pc[r] # "idle" /\ who[r] # Nobody
      BY <1>0, <1>2, StaffAssumption DEF EndMine, Serves
    <3> QED
      BY <2>1, <2>2, <3>1 DEF SInv, Shape, Overlap
  <2> HIDE DEF ids
  <2> QED
    BY <1>0, <2>1, <2>2, <2>3, <2>4, Answered, EndStep
<1> QED
  BY <1>1, <1>2

\* end and remove by an administrator.
LEMMA EndOneStep ==
  ASSUME SInv, NEW k \in Ids, EndOne(k)
  PROVE  SInv'
<1> DEFINE ids == {k}
<1>0. TypeOK /\ Rows
  BY DEF SInv, Shape
<1>1. ids \in SUBSET Ids /\ (\A i \in ids : Active(i)) /\ StaffOf(ids) \subseteq Staff
  BY <1>0 DEF EndOne, Active, StaffOf, Rows
<1>2. /\ session' = End(ids) /\ assigned' = assigned
      /\ raced' = raced \cup {s \in StaffOf(ids) : \E q \in Requests : who[q] = s}
      /\ UNCHANGED <<pc, via, who, place, pick>>
  BY DEF EndOne, NoteRace
<1>3. TypeOK' /\ raced' \subseteq Staff /\ raced \subseteq raced'
  BY <1>0, <1>1, <1>2, Ending DEF TypeOK
<1>4. \A q \in Requests : who[q] \in StaffOf(ids) => who[q] \in raced'
  BY <1>2
<1> HIDE DEF ids
<1> QED
  BY <1>1, <1>2, <1>3, <1>4, EndStep

\* start's transaction ends the sessions it must, and opens the new one at a place
\* that was checked.
LEMMA StartStep ==
  ASSUME SInv, NEW r \in Requests, Start(r)
  PROVE  SInv'
<1> DEFINE ids == Superseded(r)
           new == [status |-> "ACTIVE", staff |-> who[r], place |-> place[r]]
<1>0. TypeOK /\ Serves(r) /\ Rows
  BY DEF SInv, Shape, Serving
<1>1. PICK n \in Ids : session[n] = NoSession /\ session' = [End(ids) EXCEPT ![n] = new]
  BY DEF Start
<1>2. /\ Answer(r) /\ assigned' = assigned /\ pc[r] = "start"
      /\ raced' = raced \cup {s \in StaffOf(ids) \ {who[r]} : \E q \in Requests : who[q] = s}
  BY DEF Start, NoteRace
<1>3. ids \in SUBSET Ids /\ (\A i \in ids : Active(i)) /\ StaffOf(ids) \subseteq Staff
  BY <1>0 DEF Superseded, Open, OpenOn, Active, StaffOf, Rows
<1>4. who[r] \in Staff /\ who[r] # Nobody /\ place[r] \in Places
  BY <1>0, <1>2, StaffAssumption DEF Serves
<1>5. /\ session'[n].status = "ACTIVE" /\ session'[n].staff = who[r] /\ session'[n].place = place[r]
      /\ \A i \in Ids \ {n} : i \notin ids => session'[i] = session[i]
      /\ \A i \in Ids \ {n} : session'[i].status = "ACTIVE" => i \notin ids
      /\ \A i \in ids \ {n} : session'[i].status = "ENDED" /\ session'[i].staff = session[i].staff
  <2> HIDE DEF ids
  <2>1. DOMAIN End(ids) = Ids
    BY DEF End
  <2>2. session'[n] = new /\ \A i \in Ids \ {n} : session'[i] = End(ids)[i]
    BY <1>1, <2>1
  <2>3. \A i \in Ids :
          /\ End(ids)[i].staff = session[i].staff
          /\ End(ids)[i].status = IF i \in ids THEN "ENDED" ELSE session[i].status
          /\ i \notin ids => End(ids)[i] = session[i]
    BY <1>0, <1>3, Ending
  <2>4. new.status = "ACTIVE" /\ new.staff = who[r] /\ new.place = place[r]
    OBVIOUS
  <2> HIDE DEF new
  <2>5. \A i \in Ids \ {n} : session'[i].status = "ACTIVE" => i \notin ids
    BY <2>2, <2>3
  <2>6. \A i \in ids \ {n} : session'[i].status = "ENDED" /\ session'[i].staff = session[i].staff
    BY <1>3, <2>2, <2>3
  <2>7. \A i \in Ids \ {n} : i \notin ids => session'[i] = session[i]
    BY <2>2, <2>3
  <2> QED
    BY <2>2, <2>4, <2>5, <2>6, <2>7
<1>6. raced' \subseteq Staff /\ raced \subseteq raced'
  BY <1>0, <1>2, <1>3 DEF TypeOK
<1>7. TypeOK'
  <2>1. session' \in [Ids -> [status : {"NONE", "ACTIVE", "ENDED"},
                              staff : Staff \cup {Nobody}, place : Places \cup {NoPlace}]]
    BY <1>0, <1>1, <1>3, <1>4, Ending
  <2> QED
    BY <1>0, <1>2, <1>6, <2>1, Answered DEF TypeOK
<1>8. Alone'
  <2> SUFFICES ASSUME NEW i \in Ids, NEW j \in Ids, Active(i)', Active(j)',
                      \/ session'[i].staff = session'[j].staff
                      \/ session'[i].place.device = session'[j].place.device
               PROVE  i = j
    BY DEF Alone
  <2>1. \A x \in Ids \ {n} : Active(x)' => /\ Active(x) /\ session'[x] = session[x]
                                         /\ session[x].staff # who[r]
                                         /\ session[x].place.device # place[r].device
    <3>1. SUFFICES ASSUME NEW x \in Ids \ {n}, Active(x)'
                   PROVE  /\ Active(x) /\ session'[x] = session[x] /\ session[x].staff # who[r]
                          /\ session[x].place.device # place[r].device
      OBVIOUS
    <3>2. x \notin ids /\ session'[x] = session[x] /\ Active(x)
      BY <3>1, <1>5 DEF Active
    <3> QED
      BY <3>2 DEF Active, Superseded, Open, OpenOn
  <2> QED
    BY <1>5, <2>1 DEF SInv, Shape, Alone
<1>9. Rows' /\ Posted'
  <2> HIDE DEF ids, new
  <2>1. Rows'
    BY <1>0, <1>4, <1>5 DEF Rows, Active
  <2>2. Posted'
    BY <1>2 DEF SInv, Shape, Posted, EventAt
  <2> QED
    BY <2>1, <2>2
<1>10. \A i \in Ids : session[i].status # "NONE" =>
         session'[i].status # "NONE" /\ session'[i].staff = session[i].staff
  <2> HIDE DEF ids, new
  <2>1. \A i \in Ids : session[i].status # "NONE" => i # n
    BY <1>1 DEF NoSession
  <2> QED
    BY <1>5, <2>1
<1>11. MismatchNeedsRace'
  <2> SUFFICES ASSUME NEW i \in Ids, session'[i].status = "ACTIVE"
               PROVE  Fits(i)' \/ session'[i].staff \in raced'
    BY DEF MismatchNeedsRace
  <2>1. CASE i = n
    <3>1. Bound(who[r], place[r]) \/ who[r] \in raced
      BY <1>2 DEF SInv, Knowing, Knows
    <3> QED
      BY <2>1, <3>1, <1>2, <1>5, <1>6 DEF Fits, Bound, EventAt
  <2>2. CASE i # n
    <3> HIDE DEF ids, new
    <3>1. session'[i] = session[i] /\ (Fits(i) \/ session[i].staff \in raced)
      BY <2>2, <1>5 DEF SInv, MismatchNeedsRace
    <3> QED
      BY <3>1, <1>2, <1>6 DEF Fits, Bound, EventAt
  <2> QED
    BY <2>1, <2>2
<1>12. \A q \in Requests \ {r} : who[q] # Nobody => who[q] \in raced' \/ Untouched(who[q])
  <2> SUFFICES ASSUME NEW q \in Requests \ {r}, who[q] # Nobody, who[q] \notin raced'
               PROVE  Untouched(who[q])
    OBVIOUS
  <2>1. who[q] # who[r]
    BY <1>4, <1>6 DEF SInv, Shape, Overlap
  <2>2. who[q] \notin StaffOf(ids)
    BY <1>2, <2>1
  <2>3. \A i \in Ids : session[i].staff = who[q] => i \notin ids
    BY <2>2 DEF StaffOf
  <2>4. \A i \in Ids : Active(i) => i # n
    BY <1>1 DEF Active, NoSession
  <2> QED
    <3> HIDE DEF ids, new
    <3>1. \A i \in Ids : Active(i) /\ session[i].staff = who[q] => session'[i] = session[i]
      BY <1>5, <2>3, <2>4
    <3>2. \A i \in Ids : session'[i].status = "ACTIVE" /\ session'[i].staff = who[q]
                          => session'[i] = session[i]
      BY <1>5, <2>1
    <3> QED
      BY <1>2, <3>1, <3>2 DEF Untouched
<1> HIDE DEF ids, new
<1> QED
  BY <1>0, <1>2, <1>6, <1>7, <1>8, <1>9, <1>10, <1>11, <1>12, Answered, OthersKeep

\* The assignments of one staff member change, and sessions of theirs end.
LEMMA PostStep ==
  ASSUME SInv, NEW s \in Staff, NEW ids \in SUBSET Open(s), session' = End(ids),
         TypeOK', Posted', raced \subseteq raced',
         \A e \in Events, x \in Staff : x # s => assigned'[<<e, x>>] = assigned[<<e, x>>],
         \A i \in Open(s) \ ids :
           s \in raced' \/ (LET e == EventAt(session[i].place) IN
                             assigned'[<<e, s>>] = assigned[<<e, s>>]),
         \A q \in Requests :
           \/ pc'[q] = "idle" /\ via'[q] = "none" /\ who'[q] = Nobody /\ pick'[q] = {}
           \/ /\ pc'[q] = pc[q] /\ via'[q] = via[q] /\ who'[q] = who[q]
              /\ place'[q] = place[q] /\ pick'[q] = pick[q]
              /\ who[q] = s => s \in raced'
  PROVE  SInv'
<1>1. ids \in SUBSET Ids /\ (\A i \in ids : Active(i)) /\ StaffOf(ids) \subseteq {s}
  BY DEF Open, Active, StaffOf
<1>2. /\ Alone' /\ Rows'
      /\ \A i \in Ids : session[i].status # "NONE" =>
           session'[i].status # "NONE" /\ session'[i].staff = session[i].staff
  BY <1>1, Ended
<1>3. \A i \in Ids : session'[i].status = "ACTIVE" =>
        session'[i] = session[i] /\ Active(i) /\ i \notin ids
  BY <1>1, Ending DEF SInv, Shape, Active
<1>4. \A i \in Ids \ ids : session'[i] = session[i]
  BY <1>1, Ending DEF SInv, Shape
<1>5. ASSUME NEW x \in Staff, x # s PROVE Untouched(x)
  <2>1. \A i \in Ids : session[i].staff = x => i \notin ids
    BY <1>1, <1>5 DEF StaffOf
  <2> QED
    BY <1>3, <1>4, <1>5, <2>1 DEF Untouched
<1>6. MismatchNeedsRace'
  <2> SUFFICES ASSUME NEW i \in Ids, session'[i].status = "ACTIVE"
               PROVE  Fits(i)' \/ session'[i].staff \in raced'
    BY DEF MismatchNeedsRace
  <2>1. session'[i] = session[i] /\ Active(i) /\ i \notin ids /\ session[i].staff \in Staff
    BY <1>3 DEF SInv, Shape, Rows
  <2>2. CASE session[i].staff = s
    <3>1. Fits(i) \/ s \in raced
      BY <2>1, <2>2 DEF SInv, MismatchNeedsRace, Active
    <3>2. s \in raced' \/ assigned'[<<EventAt(session[i].place), s>>]
                            = assigned[<<EventAt(session[i].place), s>>]
      BY <2>1, <2>2 DEF Open, Active
    <3> QED
      BY <2>1, <2>2, <3>1, <3>2 DEF Fits, Bound, EventAt
  <2>3. CASE session[i].staff # s
    BY <2>1, <2>3, <1>5, MatchKept
  <2> QED
    BY <2>2, <2>3
<1>7. \A q \in Requests : who[q] # Nobody => who[q] \in Staff
  BY DEF SInv, Shape, TypeOK
<1>8. \A q \in Requests : who[q] # Nobody /\ who[q] # s => Untouched(who[q])
  BY <1>5, <1>7
<1> QED
  BY <1>2, <1>6, <1>8, OthersKeep

\* Administrators assign, activate, deactivate and remove.
LEMMA AdministerStep ==
  ASSUME SInv, NEW e \in Events, NEW s \in Staff, NEW p,
         (p \in PostsOf(s, e) /\ Assign(e, s, p)) \/ Deactivate(e, s)
  PROVE  SInv'
<1>0. TypeOK /\ raced' = raced \cup {x \in {s} : \E q \in Requests : who[q] = x}
      /\ UNCHANGED <<pc, via, who, place, pick>>
  BY DEF SInv, Shape, Assign, Deactivate, NoteRace
<1>1. raced \subseteq raced' /\ raced' \subseteq Staff /\ \A q \in Requests : who[q] = s => s \in raced'
  BY <1>0 DEF TypeOK
<1>2. Open(s) \in SUBSET Ids /\ OpenIn(s, e) \in SUBSET Ids /\ OpenIn(s, e) \in SUBSET Open(s)
  BY DEF Open, OpenIn
<1>3. CASE p \in PostsOf(s, e) /\ Assign(e, s, p)
  <2>1. /\ session' = End(Open(s)) /\ assigned' = OnlyActive(e, s, p)
        /\ EventAt(p) = e /\ p # NoPlace /\ p \in Places
    BY <1>3, StaffAssumption DEF Assign, PostsOf, PlacesOf, EventAt, Places, NoPlace
  <2>2. /\ assigned' \in [Events \X Staff -> [active : BOOLEAN, place : Places \cup {NoPlace}]]
        /\ assigned'[<<e, s>>] = [active |-> TRUE, place |-> p]
        /\ \A f \in Events : f # e => assigned'[<<f, s>>] = [assigned[<<f, s>>] EXCEPT !.active = FALSE]
        /\ \A f \in Events, x \in Staff : x # s => assigned'[<<f, x>>] = assigned[<<f, x>>]
    BY <1>0, <2>1 DEF OnlyActive, TypeOK
  <2>3. TypeOK'
    BY <1>0, <1>1, <1>2, <2>1, <2>2, Ending DEF TypeOK
  <2>4. Posted'
    <3>1. \A f \in Events : f # e => ~assigned'[<<f, s>>].active
                                  /\ assigned'[<<f, s>>].place = assigned[<<f, s>>].place
      <4>1. \A f \in Events : assigned[<<f, s>>] \in [active : BOOLEAN, place : Places \cup {NoPlace}]
        BY <1>0 DEF TypeOK
      <4> QED
        BY <2>2, <4>1
    <3> QED
      BY <2>1, <2>2, <3>1 DEF SInv, Shape, Posted, EventAt
  <2> DEFINE ids == Open(s)
  <2>5. ids \in SUBSET Open(s) /\ session' = End(ids) /\ Open(s) \ ids = {}
    BY <2>1
  <2> HIDE DEF ids
  <2> QED
    BY <1>0, <1>1, <2>2, <2>3, <2>4, <2>5, PostStep
<1>4. CASE Deactivate(e, s)
  <2> DEFINE ids == OpenIn(s, e)
  <2>1. session' = End(ids) /\ assigned' = [assigned EXCEPT ![<<e, s>>].active = FALSE]
    BY <1>4 DEF Deactivate
  <2>2. /\ assigned' \in [Events \X Staff -> [active : BOOLEAN, place : Places \cup {NoPlace}]]
        /\ \A f \in Events, x \in Staff : <<f, x>> # <<e, s>> => assigned'[<<f, x>>] = assigned[<<f, x>>]
        /\ ~assigned'[<<e, s>>].active /\ assigned'[<<e, s>>].place = assigned[<<e, s>>].place
    BY <1>0, <2>1 DEF TypeOK
  <2>3. TypeOK'
    BY <1>0, <1>1, <1>2, <2>1, <2>2, Ending DEF TypeOK
  <2>4. \A f \in Events, x \in Staff : x # s => assigned'[<<f, x>>] = assigned[<<f, x>>]
    BY <2>2
  <2>5. Posted'
    <3>1. \A f \in Events, x \in Staff :
            /\ assigned'[<<f, x>>].place = assigned[<<f, x>>].place
            /\ assigned'[<<f, x>>].active => assigned[<<f, x>>].active
      BY <2>2
    <3> QED
      BY <3>1 DEF SInv, Shape, Posted, EventAt
  <2>6. \A i \in Open(s) \ ids : LET f == EventAt(session[i].place) IN
                                  assigned'[<<f, s>>] = assigned[<<f, s>>]
    <3> SUFFICES ASSUME NEW i \in Open(s) \ ids
                 PROVE  assigned'[<<EventAt(session[i].place), s>>]
                          = assigned[<<EventAt(session[i].place), s>>]
      OBVIOUS
    <3>1. EventAt(session[i].place) # e
      BY DEF OpenIn
    <3>2. EventAt(session[i].place) \in Events
      BY PlaceEvent DEF Open, SInv, Shape, Rows, Active
    <3> QED
      BY <2>2, <3>1, <3>2
  <2>7. ids \in SUBSET Open(s)
    BY <1>2
  <2> HIDE DEF ids
  <2> QED
    BY <1>0, <1>1, <2>1, <2>3, <2>5, <2>6, <2>7, <2>4, PostStep
<1> QED
  BY <1>3, <1>4

\* update writes the row; the sessions it leaves open match it as they did, unless the
\* row it had read was changed in between.
LEMMA UpdateStep ==
  ASSUME SInv, NEW r \in Requests, Update(r)
  PROVE  SInv'
<1> DEFINE e == EventAt(place[r])
           s == who[r]
<1>0. TypeOK /\ Serves(r) /\ Rows
  BY DEF SInv, Shape, Serving
<1>1. PICK off \in BOOLEAN :
        /\ session' = IF off \/ pc[r] = "move" THEN End(OpenIn(s, e)) ELSE session
        /\ assigned' = [assigned EXCEPT ![<<e, s>>] = [active |-> @.active /\ ~off, place |-> place[r]]]
  BY DEF Update
<1>2. /\ pc[r] \in {"update", "move"} /\ Answer(r) /\ raced' = raced
      /\ s \in Staff /\ s # Nobody /\ place[r] \in Places /\ e \in Events /\ place[r] # NoPlace
  BY <1>0, PlaceEvent, StaffAssumption DEF Update, Serves, Places, NoPlace
<1> DEFINE ids == IF off \/ pc[r] = "move" THEN OpenIn(s, e) ELSE {}
<1>3. ids \in SUBSET Open(s) /\ Open(s) \in SUBSET Ids
  BY DEF Open, OpenIn
<1>4. session' = End(ids)
  <2>1. CASE off \/ pc[r] = "move"
    BY <1>1, <2>1
  <2>2. CASE ~(off \/ pc[r] = "move")
    BY <1>0, <1>1, <2>2 DEF End, TypeOK
  <2> QED
    BY <2>1, <2>2
<1>5. assigned[<<e, s>>] \in [active : BOOLEAN, place : Places \cup {NoPlace}]
  BY <1>0, <1>2 DEF TypeOK
<1>6. /\ assigned' \in [Events \X Staff -> [active : BOOLEAN, place : Places \cup {NoPlace}]]
      /\ \A f \in Events, x \in Staff : <<f, x>> # <<e, s>> => assigned'[<<f, x>>] = assigned[<<f, x>>]
      /\ assigned'[<<e, s>>] = [active |-> assigned[<<e, s>>].active /\ ~off, place |-> place[r]]
  <2> HIDE DEF e, s
  <2> DEFINE row == [active |-> assigned[<<e, s>>].active /\ ~off, place |-> place[r]]
  <2>1. assigned' = [assigned EXCEPT ![<<e, s>>] = row]
    BY <1>1
  <2>2. row \in [active : BOOLEAN, place : Places \cup {NoPlace}]
    BY <1>2, <1>5
  <2> HIDE DEF row
  <2>3. /\ assigned' \in [Events \X Staff -> [active : BOOLEAN, place : Places \cup {NoPlace}]]
        /\ assigned'[<<e, s>>] = row
        /\ \A f \in Events, x \in Staff : <<f, x>> # <<e, s>> => assigned'[<<f, x>>] = assigned[<<f, x>>]
    BY <1>0, <1>2, <2>1, <2>2 DEF TypeOK
  <2> QED
    BY <2>3 DEF row
<1>7. TypeOK'
  <2> HIDE DEF e, s, ids
  <2>1. ids \in SUBSET Ids /\ raced' \subseteq Staff
    BY <1>0, <1>2, <1>3 DEF TypeOK
  <2>2. session' \in [Ids -> [status : {"NONE", "ACTIVE", "ENDED"},
                              staff : Staff \cup {Nobody}, place : Places \cup {NoPlace}]]
    BY <1>0, <1>4, <2>1, Ending
  <2> QED
    BY <1>0, <1>2, <1>6, <2>1, <2>2, Answered
<1>8. Posted'
  <2>1. \A f \in Events, x \in Staff :
          /\ assigned'[<<f, x>>].active => assigned[<<f, x>>].active
          /\ \/ assigned'[<<f, x>>].place = assigned[<<f, x>>].place
             \/ f = e /\ assigned'[<<f, x>>].place = place[r]
    <3> SUFFICES ASSUME NEW f \in Events, NEW x \in Staff
                 PROVE  /\ assigned'[<<f, x>>].active => assigned[<<f, x>>].active
                        /\ \/ assigned'[<<f, x>>].place = assigned[<<f, x>>].place
                           \/ f = e /\ assigned'[<<f, x>>].place = place[r]
      OBVIOUS
    <3> HIDE DEF e, s, ids
    <3>1. CASE f = e /\ x = s
      BY <1>6, <3>1
    <3>2. CASE <<f, x>> # <<e, s>>
      BY <1>6, <3>2
    <3> QED
      BY <3>1, <3>2
  <2>2. \A f \in Events, x \in Staff :
          /\ assigned'[<<f, x>>].place # NoPlace => EventAt(assigned'[<<f, x>>].place) = f
          /\ assigned'[<<f, x>>].active => assigned'[<<f, x>>].place # NoPlace
    <3> SUFFICES ASSUME NEW f \in Events, NEW x \in Staff
                 PROVE  /\ assigned'[<<f, x>>].place # NoPlace => EventAt(assigned'[<<f, x>>].place) = f
                        /\ assigned'[<<f, x>>].active => assigned'[<<f, x>>].place # NoPlace
      OBVIOUS
    <3>1. /\ assigned[<<f, x>>].place # NoPlace => EventAt(assigned[<<f, x>>].place) = f
          /\ assigned[<<f, x>>].active => assigned[<<f, x>>].place # NoPlace
      BY DEF SInv, Shape, Posted
    <3>2. CASE assigned'[<<f, x>>].place = assigned[<<f, x>>].place
      BY <2>1, <3>1, <3>2
    <3>3. CASE f = e /\ assigned'[<<f, x>>].place = place[r]
      BY <1>2, <3>3
    <3> QED
      BY <2>1, <3>2, <3>3
  <2>3. \A x \in Staff : \A f, g \in Events :
          assigned'[<<f, x>>].active /\ assigned'[<<g, x>>].active => f = g
    BY <2>1 DEF SInv, Shape, Posted
  <2> QED
    BY <2>2, <2>3 DEF Posted, EventAt
<1>9. \A i \in Open(s) \ ids :
        s \in raced' \/ (LET f == EventAt(session[i].place) IN
                          assigned'[<<f, s>>] = assigned[<<f, s>>])
  <2> SUFFICES ASSUME NEW i \in Open(s) \ ids, s \notin raced
               PROVE  assigned'[<<EventAt(session[i].place), s>>]
                        = assigned[<<EventAt(session[i].place), s>>]
    BY <1>2
  <2>1. EventAt(session[i].place) \in Events
    BY <1>0, PlaceEvent DEF Open, Rows, Active
  <2>2. CASE EventAt(session[i].place) # e
    BY <1>2, <1>6, <2>1, <2>2
  <2>3. CASE EventAt(session[i].place) = e
    <3>1. ~off /\ pc[r] = "update"
      BY <1>2, <2>3 DEF OpenIn
    <3>2. assigned[<<e, s>>].place = place[r]
      BY <3>1 DEF SInv, Knowing, Knows
    <3>3. assigned'[<<e, s>>] = [active |-> assigned[<<e, s>>].active, place |-> place[r]]
      BY <1>5, <1>6, <3>1
    <3> HIDE DEF e, s
    <3> QED
      BY <1>5, <2>3, <3>2, <3>3
  <2> QED
    BY <2>2, <2>3
<1>10. \A q \in Requests \ {r} : who[q] = s => s \in raced'
  BY <1>2 DEF SInv, Shape, Overlap
<1>11. \A f \in Events, x \in Staff : x # s => assigned'[<<f, x>>] = assigned[<<f, x>>]
  BY <1>6
<1> HIDE DEF e, s, ids
<1> QED
  BY <1>0, <1>2, <1>3, <1>4, <1>7, <1>8, <1>9, <1>10, <1>11, Answered, PostStep

-----------------------------------------------------------------------------
\* Every step of a request, of an administrator, and every stutter keeps it.
LEMMA SInvStep ==
  ASSUME SInv, [Next]_vars
  PROVE  SInv'
<1>1. CASE \E r \in Requests, s \in Staff :
             \/ BeginMine(r, s) \/ BeginEndMine(r, s)
             \/ \E e \in Events : BeginStart(r, s, e) \/ BeginUpdate(r, e, s)
             \/ \E i \in Ids : BeginScan(r, s, i) \/ BeginBatch(r, s, i)
  BY <1>1, BeginSteps
<1>2. CASE \E r \in Requests : Serve(r)
  <2>1. PICK r \in Requests : Serve(r)
    BY <1>2
  <2>2. CASE FindReusable(r) \/ Bind(r)
    BY <2>2, FindStep
  <2>3. CASE Refuse(r) \/ RecordScan(r)
    BY <2>3, LeaveStep
  <2>4. CASE Refresh(r) \/ EndMine(r)
    BY <2>4, EndSteps
  <2> QED
    BY <2>1, <2>2, <2>3, <2>4, StartStep, UpdateStep DEF Serve
<1>3. CASE \E e \in Events, s \in Staff :
             Deactivate(e, s) \/ \E p \in PostsOf(s, e) : Assign(e, s, p)
  BY <1>3, AdministerStep
<1>4. CASE \E i \in Ids : EndOne(i)
  BY <1>4, EndOneStep
<1>5. CASE UNCHANGED vars
  <2> USE <1>5 DEF vars, SInv, Shape
  <2>1. TypeOK' /\ Alone' /\ Rows'
    BY DEF TypeOK, Alone, Rows, Active
  <2>2. Serving' /\ Overlap' /\ Posted'
    BY DEF Serving, Serves, Overlap, Posted, EventAt
  <2>3. Knowing' /\ MismatchNeedsRace'
    BY DEF Knowing, Knows, MismatchNeedsRace, Fits, Bound, Active, Open, EventAt
  <2> QED
    BY <2>1, <2>2, <2>3
<1> QED
  BY <1>1, <1>2, <1>3, <1>4, <1>5 DEF Next

\* The invariant holds in every state of start, refresh, end, assign, update and scan.
THEOREM SessionsInductive == Spec => []SInv
<1>1. SInv /\ [Next]_vars => SInv'
  BY SInvStep
<1> QED
  BY SInvInit, <1>1, PTL DEF Spec

\* Every row, request and history keeps its type.
THEOREM TypeCorrect == Spec => []TypeOK
  BY SessionsInductive, PTL DEF SInv, Shape

\* Distinct elements would be two of a set in which all are equal.
LEMMA OneAtMost ==
  ASSUME NEW S, \A i, j \in S : i = j
  PROVE  Cardinality(S) <= 1
<1>1. CASE S = {}
  BY <1>1, FS_EmptySet
<1>2. CASE S # {}
  <2>1. PICK x \in S : S = {x}
    BY <1>2
  <2> QED
    BY <2>1, FS_Singleton
<1> QED
  BY <1>1, <1>2

\* start's transaction leaves a staff member one open session, and a device one,
\* whatever the requests before it have read.
THEOREM OneSessionHolds == Spec => []OneSession
<1>1. SInv => OneSession
  <2> SUFFICES ASSUME SInv PROVE OneSession
    OBVIOUS
  <2>1. \A s \in Staff : \A i, j \in Open(s) : i = j
    BY DEF SInv, Shape, Alone, Active, Open
  <2>2. \A d \in Devices : \A i, j \in OpenOn(d) : i = j
    BY DEF SInv, Shape, Alone, Active, OpenOn
  <2>3. \A s \in Staff : Cardinality(Open(s)) <= 1
    BY <2>1, OneAtMost
  <2>4. \A d \in Devices : Cardinality(OpenOn(d)) <= 1
    BY <2>2, OneAtMost
  <2> QED
    BY <2>3, <2>4 DEF OneSession
<1> QED
  BY <1>1, SessionsInductive, PTL

\* A session stays open beside an assignment that moved away only if two requests or
\* changes about its staff member overlapped.
THEOREM MismatchesNeedRace == Spec => []MismatchNeedsRace
  BY SessionsInductive, PTL DEF SInv

\* assertStaffCanScan's answer still holds when the scan is recorded, unless
\* something overlapped the request.
THEOREM ScansNeedRace == Spec => []ScanNeedsRace
<1>1. SInv => ScanNeedsRace
  BY DEF SInv, Knowing, Knows, Active, ScanNeedsRace
<1> QED
  BY <1>1, SessionsInductive, PTL

\* startMySession ends a session that matches the assignment only if another request
\* or change about its staff member overlapped it.
THEOREM LossesNeedRace == Spec => LossNeedsRace
<1>1. SInv /\ [Next]_vars => [\A r \in Requests : EndsFitting(r) => who[r] \in raced]_vars
  <2> SUFFICES ASSUME SInv, Next, NEW r \in Requests, EndsFitting(r), who[r] \notin raced PROVE FALSE
    OBVIOUS
  <2>1. /\ pc[r] \in {"find", "bind", "start", "refresh"} /\ via[r] = "mine" /\ pc'[r] = "idle"
        /\ TypeOK /\ Knows(r)
    BY DEF EndsFitting, SInv, Shape, Serving, Serves, Knowing
  <2>2. PICK i \in Open(who[r]) : Fits(i) /\ session'[i].status = "ENDED"
    BY DEF EndsFitting
  <2>3. i \in Ids /\ Active(i) /\ session[i].staff = who[r] /\ session'[i] # session[i]
    BY <2>2 DEF Open, Active
  <2>4. PICK q \in Requests : Serve(q)
    <3>1. pc' # pc /\ session' # session
      BY <2>1, <2>3
    <3> QED
      BY <3>1 DEF Next, BeginMine, BeginEndMine, BeginStart, BeginUpdate, BeginScan, BeginBatch,
                  Deactivate, Assign, EndOne
  <2>5. q = r
    <3>1. \A x \in Requests \ {q} : pc'[x] = pc[x]
      BY <2>1, <2>4 DEF TypeOK, Serve, FindReusable, Bind, Start, Refresh, EndMine, Update, RecordScan,
                        Refuse, Answer, Goto
    <3> QED
      BY <2>1, <3>1
  <2>6. Start(r) \/ Refresh(r)
    BY <2>1, <2>3, <2>4, <2>5 DEF Serve, FindReusable, Bind, EndMine, Update, RecordScan, Refuse
  <2>7. Rows /\ Alone /\ Posted
    BY DEF SInv, Shape
  <2>8. CASE Start(r)
    <3>1. Bound(who[r], place[r]) /\ session[i].place # place[r]
      BY <2>1, <2>2, <2>8 DEF Start, Knows
    <3>2. Bound(who[r], session[i].place) /\ place[r] \in Places /\ session[i].place \in Places
          /\ who[r] \in Staff
      BY <2>1, <2>2, <2>3, <2>7 DEF Fits, Rows, SInv, Shape, Serving, Serves
    <3>3. EventAt(place[r]) = EventAt(session[i].place)
      BY <2>7, <3>1, <3>2, PlaceEvent DEF Bound, Posted
    <3> QED
      BY <3>1, <3>2, <3>3 DEF Bound
  <2>9. CASE Refresh(r)
    <3>1. pick[r] \in SUBSET Ids /\ pick[r] # {} /\ \A j \in pick[r] : Active(j) /\ session[j].staff = who[r]
      BY <2>1, <2>9 DEF Refresh, Knows, TypeOK, SInv, Shape, Serving, Serves
    <3>2. i \in pick[r]
      BY <2>3, <2>7, <3>1 DEF Alone
    <3>3. session' = End(Superseded(r) \ pick[r])
      BY <2>9 DEF Refresh
    <3>4. session'[i] = session[i]
      BY <2>3, <3>2, <3>3 DEF End
    <3> QED
      BY <2>3, <3>4
  <2> QED
    BY <2>6, <2>8, <2>9
<1> QED
  BY <1>1, SessionsInductive, PTL DEF LossNeedsRace, Spec

-----------------------------------------------------------------------------
(* Accounts.                                                               *)

USE AccountsAssumption

States     == {"NONE", "ACTIVE", "INACTIVE", "DELETED"}
Roles      == {"OTHER", "CLIENT_VIEWER"}
ClientRows == [state : States, primary : Users \cup {None}]
UserRows   == [status : {"NONE", "ACTIVE", "SUSPENDED", "DELETED"}, role : Roles,
               client : Clients \cup {None}, login : Logins \cup {None}, password : Nat]
Tokens     == [user : Users, state : {"LIVE", "ROTATED", "REVOKED"}, parent : Nat,
               password : Nat, late : BOOLEAN, tainted : BOOLEAN]

\* What a request has read when it is about to store a token, and otherwise.
Issuers == [op : {"LOGIN", "READ_USER", "REFRESH"}, user : Users, parent : Nat,
            password : Nat, late : BOOLEAN, tainted : BOOLEAN]
Edits   == [op : {"UPDATE_USER"}, user : Users, place : Roles \X (Clients \cup {None}),
            login : Logins]
Accesses == [op : {"UPDATE_ACCESS"}, user : Users, login : Logins, changed : BOOLEAN]
Resets   == [op : {"RESET_ACCESS"}, user : Users]
Moves    == [op : {"OPEN_ACCESS", "DELETE"}, on : Clients]
Switches == [op : {"SET_STATUS"}, on : Clients, state : {"ACTIVE", "INACTIVE"}]
Pending  == {Idle} \cup Issuers \cup Edits \cup Accesses \cup Resets \cup Moves \cup Switches

AccountsTypeOK ==
  /\ client \in [Clients -> ClientRows]
  /\ user \in [Users -> UserRows]
  /\ token \in Seq(Tokens)
  /\ req \in [Calls -> Pending]
  /\ strayed \subseteq Users
  /\ changes \in Nat

-----------------------------------------------------------------------------
(* The inductive invariant.                                                *)

LockedOut(u) == user[u].client # None /\ client[user[u].client].state = "INACTIVE"

\* A session, stored or about to be, goes back to the password of its user and may
\* not come back with a client, unless what ended the others overlapped its line.
Current(x) ==
  \/ x.tainted
  \/ /\ x.password = user[x.user].password
     /\ LockedOut(x.user) => x.user \in strayed

UsersHold ==
  \A u \in Users :
    /\ user[u].status = "NONE" => user[u] = NoUser
    /\ user[u].role = "OTHER" => user[u].client = None

ClientsHold == \A c \in Clients : client[c].state = "NONE" => client[c].primary = None

TokensHold ==
  \A k \in 1..Len(token) :
    /\ token[k].parent < k
    /\ user[token[k].user].status # "NONE"
    /\ token[k].state = "LIVE" => Current(token[k])

\* Only an exchange that was not overtaken has a parent it may still rotate.
IssuerHolds(q) ==
  /\ user[q.user].status # "NONE"
  /\ Current(q)
  /\ q.op = "LOGIN" <=> q.parent = 0
  /\ q.parent <= Len(token)
  /\ q.parent > 0 => /\ token[q.parent].user = q.user
                     /\ q.late \/ token[q.parent].state = "LIVE"

IssuersHold == \A r \in Calls : Issues(req[r]) => IssuerHolds(req[r])

\* The requests that go on to write a user have seen the row.
ActsOn(q) == q.op \in {"UPDATE_USER", "UPDATE_ACCESS", "RESET_ACCESS"}
StepsHold == \A r \in Calls : ActsOn(req[r]) => user[req[r].user].status # "NONE"

SessionsHold == TokensHold /\ IssuersHold /\ StepsHold /\ OneSuccessor

AInv == AccountsTypeOK /\ UsersHold /\ ClientsHold /\ SessionsHold

-----------------------------------------------------------------------------
(* Records, requests and tokens.                                           *)

LEMMA AccountRows ==
  ASSUME AccountsTypeOK
  PROVE  /\ \A c \in Clients : client[c] \in ClientRows
         /\ \A u \in Users : user[u] \in UserRows
         /\ DOMAIN token = 1..Len(token)
         /\ Len(token) \in Nat
         /\ \A k \in 1..Len(token) : token[k] \in Tokens
         /\ \A r \in Calls : req[r] \in Pending
BY DEF AccountsTypeOK

\* What a request carries follows from what it does.
LEMMA Carried ==
  ASSUME NEW q \in Pending
  PROVE  /\ Issues(q) => q \in Issuers
         /\ q.op = "UPDATE_USER" => q \in Edits
         /\ q.op = "UPDATE_ACCESS" => q \in Accesses
         /\ q.op = "RESET_ACCESS" => q \in Resets
         /\ q.op = "OPEN_ACCESS" => q \in Moves
         /\ q.op = "DELETE" => q \in Moves
         /\ q.op = "SET_STATUS" => q \in Switches
         /\ ActsOn(q) => q.user \in Users /\ ~Issues(q)
<1> USE DEF Pending, Issues, ActsOn, Idle, Issuers, Edits, Accesses, Resets, Moves, Switches
<1>1. CASE q = Idle
  BY <1>1
<1>2. CASE q \in Issuers
  BY <1>2
<1>3. CASE q \in Edits
  BY <1>3
<1>4. CASE q \in Accesses
  BY <1>4
<1>5. CASE q \in Resets
  BY <1>5
<1>6. CASE q \in Moves
  BY <1>6
<1>7. CASE q \in Switches
  BY <1>7
<1>8. QED
  BY <1>1, <1>2, <1>3, <1>4, <1>5, <1>6, <1>7

LEMMA IdleIsPending == Idle \in Pending /\ ~Issues(Idle) /\ ~ActsOn(Idle)
BY DEF Pending, Idle, Issues, ActsOn

\* The fields of a token that never change.
SameLine(a, b) ==
  /\ a.user = b.user /\ a.parent = b.parent /\ a.password = b.password
  /\ a.late = b.late /\ a.tainted = b.tainted

\* What revoking leaves of the stored tokens.
LEMMA RevokedRows ==
  ASSUME AccountsTypeOK, NEW ks, NEW how \in {"ROTATED", "REVOKED"}, NEW t, t = Revoked(ks, how)
  PROVE  /\ t \in Seq(Tokens)
         /\ Len(t) = Len(token)
         /\ \A k \in 1..Len(token) :
              /\ t[k] \in Tokens
              /\ SameLine(token[k], t[k])
              /\ t[k].state = IF k \in ks /\ token[k].state = "LIVE" THEN how ELSE token[k].state
<1>1. DOMAIN token = 1..Len(token) /\ Len(token) \in Nat
  BY AccountRows
<1>2. t = [k \in 1..Len(token) |-> IF k \in ks /\ token[k].state = "LIVE"
                                     THEN [token[k] EXCEPT !.state = how] ELSE token[k]]
  BY <1>1 DEF Revoked
<1>3. ASSUME NEW k \in 1..Len(token)
      PROVE  /\ t[k] \in Tokens /\ SameLine(token[k], t[k])
             /\ t[k].state = IF k \in ks /\ token[k].state = "LIVE" THEN how ELSE token[k].state
  <2>1. token[k] \in Tokens
    BY AccountRows
  <2>2. t[k] = IF k \in ks /\ token[k].state = "LIVE"
                 THEN [token[k] EXCEPT !.state = how] ELSE token[k]
    BY <1>2
  <2> HIDE <1>2
  <2>3. CASE k \in ks /\ token[k].state = "LIVE"
    BY <2>1, <2>2, <2>3 DEF Tokens, SameLine
  <2>4. CASE ~(k \in ks /\ token[k].state = "LIVE")
    BY <2>1, <2>2, <2>4 DEF SameLine
  <2>5. QED
    BY <2>3, <2>4
<1>4. t \in [1..Len(token) -> Tokens]
  <2>1. t = [k \in 1..Len(token) |-> t[k]]
    BY <1>2
  <2>2. QED
    BY <1>3, <2>1
<1>5. t \in Seq(Tokens) /\ Len(t) = Len(token)
  BY <1>1, <1>4
<1>6. QED
  BY <1>3, <1>5

\* What time leaves of a request: it is gone, or it goes on with the same line and
\* knows what overtook it.
Ages(old, new, us) ==
  \/ new = Idle
  \/ ~Issues(old) /\ new = old
  \/ /\ Issues(old) /\ new \in Issuers
     /\ new.op = "LOGIN" <=> old.op = "LOGIN"
     /\ new.user = old.user /\ new.parent = old.parent /\ new.password = old.password
     /\ old.late => new.late
     /\ old.tainted \/ old.user \in us => new.tainted

\* No step but an exchange and a login does anything else to the sessions.
Aged(us) ==
  /\ token' \in Seq(Tokens) /\ Len(token') = Len(token)
  /\ \A k \in 1..Len(token) :
       /\ SameLine(token[k], token'[k])
       /\ \/ token'[k].state = token[k].state
          \/ token[k].state = "LIVE" /\ token'[k].state = "REVOKED"
       /\ token[k].user \in us => token'[k].state # "LIVE"
  /\ req' \in [Calls -> Pending]
  /\ \A r \in Calls :
       /\ Ages(req[r], req'[r], us)
       /\ Issues(req[r]) /\ Issues(req'[r]) /\ req[r].parent > 0
            => req'[r].late \/ token'[req[r].parent].state = token[req[r].parent].state

LEMMA OvertakenAges ==
  ASSUME AccountsTypeOK, NEW q \in [Calls -> Pending], NEW us, NEW ks,
         \A r \in Calls : q[r] = req[r] \/ q[r] = Idle,
         NEW n, n = Overtaken(q, us, ks)
  PROVE  /\ n \in [Calls -> Pending]
         /\ \A r \in Calls :
              /\ Ages(req[r], n[r], us)
              /\ Issues(n[r]) => (n[r].late <=> (req[r].late \/ req[r].user \in us \/ req[r].parent \in ks))
<1>1. ASSUME NEW r \in Calls
      PROVE  /\ n[r] \in Pending /\ Ages(req[r], n[r], us)
             /\ Issues(n[r]) =>
                  (n[r].late <=> (req[r].late \/ req[r].user \in us \/ req[r].parent \in ks))
  <2>1. n[r] = IF Issues(q[r])
                 THEN [q[r] EXCEPT !.late = @ \/ q[r].user \in us \/ q[r].parent \in ks,
                                   !.tainted = @ \/ q[r].user \in us]
                 ELSE q[r]
    BY DEF Overtaken
  <2>2. q[r] \in Pending /\ req[r] \in Pending
    BY AccountRows
  <2>3. CASE Issues(q[r])
    <3>1. q[r] = req[r] /\ q[r] \in Issuers
      BY <2>2, <2>3, Carried, IdleIsPending
    <3> DEFINE l == q[r].late \/ q[r].user \in us \/ q[r].parent \in ks
               t == q[r].tainted \/ q[r].user \in us
    <3>2. l \in BOOLEAN /\ t \in BOOLEAN
      OBVIOUS
    <3>3. n[r] = [q[r] EXCEPT !.late = l, !.tainted = t]
      BY <2>1, <2>3
    <3> DEFINE o == q[r]
    <3>4. /\ o = [op |-> o.op, user |-> o.user, parent |-> o.parent, password |-> o.password,
                  late |-> o.late, tainted |-> o.tainted]
          /\ o.op \in {"LOGIN", "READ_USER", "REFRESH"} /\ o.user \in Users /\ o.parent \in Nat
          /\ o.password \in Nat
      BY <3>1 DEF Issuers
    <3> HIDE DEF l, t, o
    <3>5. n[r] = [o EXCEPT !.late = l, !.tainted = t]
      BY <3>3 DEF o
    <3>6. n[r] = [op |-> o.op, user |-> o.user, parent |-> o.parent, password |-> o.password,
                  late |-> l, tainted |-> t]
      BY <3>4, <3>5
    <3>7. n[r] \in Issuers
      BY <3>2, <3>4, <3>6 DEF Issuers
    <3>8. /\ n[r] \in Issuers /\ n[r] \in Pending /\ Issues(n[r])
          /\ n[r].op = o.op /\ n[r].user = o.user /\ n[r].parent = o.parent
          /\ n[r].password = o.password
          /\ n[r].late = l /\ n[r].tainted = t
      BY <3>4, <3>6, <3>7 DEF Pending, Issues
    <3>9. (n[r].late <=> l) /\ (n[r].tainted <=> t)
      BY <3>8
    <3> QED BY <2>3, <3>1, <3>8, <3>9 DEF Ages, o, l, t
  <2>4. CASE ~Issues(q[r])
    BY <2>1, <2>2, <2>4, IdleIsPending DEF Ages
  <2>5. QED
    BY <2>3, <2>4
<1>2. n = [r \in Calls |-> n[r]]
  BY DEF Overtaken
<1>3. n \in [Calls -> Pending]
  BY <1>1, <1>2
<1>4. QED
  BY <1>1, <1>3

\* Sessions are ended: those of users, or a single one.
LEMMA EndingAges ==
  ASSUME AccountsTypeOK, IssuersHold, NEW us, NEW ks, NEW ls, NEW q \in [Calls -> Pending],
         \A r \in Calls : q[r] = req[r] \/ q[r] = Idle,
         token' = Revoked(ks, "REVOKED"), req' = Overtaken(q, us, ls),
         \A k \in 1..Len(token) : k \in ks <=> (token[k].user \in us \/ k \in ls)
  PROVE  Aged(us)
<1>1. /\ token' \in Seq(Tokens) /\ Len(token') = Len(token)
      /\ \A k \in 1..Len(token) :
           /\ SameLine(token[k], token'[k])
           /\ token'[k].state = IF k \in ks /\ token[k].state = "LIVE"
                                  THEN "REVOKED" ELSE token[k].state
  BY RevokedRows
<1>2. /\ req' \in [Calls -> Pending]
      /\ \A r \in Calls :
           /\ Ages(req[r], req'[r], us)
           /\ Issues(req'[r]) =>
                (req'[r].late <=> (req[r].late \/ req[r].user \in us \/ req[r].parent \in ls))
  BY OvertakenAges
<1>3. ASSUME NEW r \in Calls, Issues(req[r]), Issues(req'[r]), req[r].parent > 0
      PROVE  req'[r].late \/ token'[req[r].parent].state = token[req[r].parent].state
  <2>1. req[r].parent \in 1..Len(token) /\ token[req[r].parent].user = req[r].user
    BY <1>3, AccountRows, Carried DEF IssuersHold, IssuerHolds, Issuers
  <2>2. QED
    BY <1>1, <1>2, <1>3, <2>1
<1>4. QED
  BY <1>1, <1>2, <1>3 DEF Aged

\* EndSessions, with the request that does it or without.
LEMMA SessionsEnd ==
  ASSUME AccountsTypeOK, IssuersHold, NEW us \in SUBSET Users, NEW q \in [Calls -> Pending],
         \A r \in Calls : q[r] = req[r] \/ q[r] = Idle, EndSessions(us, q)
  PROVE  Aged(us)
<1> DEFINE ks == {k \in DOMAIN token : OwnerOf(k) \in us}
<1>1. token' = Revoked(ks, "REVOKED") /\ req' = Overtaken(q, us, {})
  BY DEF EndSessions
<1>2. \A k \in 1..Len(token) : k \in ks <=> (token[k].user \in us \/ k \in {})
  BY AccountRows DEF OwnerOf
<1> HIDE DEF ks
<1>3. QED
  BY <1>1, <1>2, EndingAges

\* A request goes on or is over, and the tokens stay.
LEMMA RequestAges ==
  ASSUME AccountsTypeOK, UNCHANGED token, NEW q \in [Calls -> Pending], req' = q,
         \A r \in Calls : Ages(req[r], q[r], {})
  PROVE  Aged({})
BY AccountRows DEF Aged, SameLine, AccountsTypeOK

LEMMA Ends ==
  ASSUME AccountsTypeOK, NEW r \in Calls
  PROVE  /\ Finished(r) \in [Calls -> Pending]
         /\ \A s \in Calls : /\ Finished(r)[s] = req[s] \/ Finished(r)[s] = Idle
                             /\ Ages(req[s], Finished(r)[s], {})
<1>1. Finished(r) \in [Calls -> Pending]
  BY IdleIsPending DEF AccountsTypeOK, Finished
<1>2. ASSUME NEW s \in Calls PROVE Finished(r)[s] = req[s] \/ Finished(r)[s] = Idle
  BY DEF AccountsTypeOK, Finished
<1>3. ASSUME NEW s \in Calls PROVE Ages(req[s], req[s], {})
  BY Carried, AccountRows DEF Ages
<1>4. QED
  BY <1>1, <1>2, <1>3 DEF Ages

-----------------------------------------------------------------------------
(* What keeps the sessions.                                                *)

\* The users that exist go on, with their passwords unless their sessions end, and
\* none is locked out behind a session that goes on.
UserStep(us) ==
  \A u \in Users :
    user[u].status # "NONE" =>
      /\ user'[u].status # "NONE"
      /\ u \notin us =>
           /\ user'[u].password = user[u].password
           /\ LockedOut(u)' => u \in strayed' \/ (LockedOut(u) /\ u \notin strayed)

LEMMA AgedTokens ==
  ASSUME AccountsTypeOK, TokensHold, NEW us, UserStep(us), Aged(us)
  PROVE  TokensHold'
<1> SUFFICES ASSUME NEW k \in 1..Len(token)
             PROVE  /\ token'[k].parent < k
                    /\ user'[token'[k].user].status # "NONE"
                    /\ token'[k].state = "LIVE" => Current(token[k])'
  BY AccountRows DEF Aged, TokensHold
<1>1. token[k] \in Tokens /\ token[k].user \in Users
  BY AccountRows DEF Tokens
<1>2. SameLine(token[k], token'[k]) /\ user[token[k].user].status # "NONE" /\ token[k].parent < k
  BY DEF Aged, TokensHold
<1>3. token'[k].parent < k /\ user'[token'[k].user].status # "NONE"
  BY <1>1, <1>2 DEF SameLine, UserStep
<1>4. ASSUME token'[k].state = "LIVE" PROVE Current(token[k])'
  <2>1. token[k].state = "LIVE" /\ token[k].user \notin us /\ Current(token[k])
    BY <1>4 DEF Aged, TokensHold
  <2>2. /\ token'[k].user = token[k].user /\ token'[k].password = token[k].password
        /\ token[k].tainted => token'[k].tainted
    BY <1>2 DEF SameLine
  <2>3. QED
    BY <1>1, <1>2, <2>1, <2>2 DEF UserStep, Current, LockedOut
<1>5. QED
  BY <1>3, <1>4

LEMMA AgedIssuers ==
  ASSUME AccountsTypeOK, IssuersHold, NEW us, UserStep(us), Aged(us)
  PROVE  IssuersHold'
<1> SUFFICES ASSUME NEW r \in Calls, Issues(req'[r])
             PROVE  IssuerHolds(req[r])'
  BY DEF IssuersHold, Issues
<1>1. Issues(req[r]) /\ req[r] \in Issuers
  BY AccountRows, Carried, IdleIsPending DEF Aged, Ages
<1>2. /\ req'[r] \in Issuers
      /\ req'[r].op = "LOGIN" <=> req[r].op = "LOGIN"
      /\ req'[r].user = req[r].user /\ req'[r].parent = req[r].parent
      /\ req'[r].password = req[r].password
      /\ req[r].late => req'[r].late
      /\ req[r].tainted \/ req[r].user \in us => req'[r].tainted
  BY <1>1, IdleIsPending DEF Aged, Ages
<1>3. IssuerHolds(req[r])
  BY <1>1 DEF IssuersHold
<1>4. user'[req'[r].user].status # "NONE"
  BY <1>1, <1>2, <1>3 DEF IssuerHolds, UserStep, Issuers
<1>5. Current(req[r])'
  BY <1>1, <1>2, <1>3 DEF IssuerHolds, UserStep, Current, LockedOut, Issuers
<1>6. (req'[r].op = "LOGIN" <=> req'[r].parent = 0) /\ req'[r].parent <= Len(token')
  BY <1>2, <1>3 DEF IssuerHolds, Aged
<1>7. ASSUME req'[r].parent > 0
      PROVE  /\ token'[req'[r].parent].user = req'[r].user
             /\ req'[r].late \/ token'[req'[r].parent].state = "LIVE"
  <2>1. /\ req[r].parent \in 1..Len(token)
        /\ token[req[r].parent].user = req[r].user
        /\ req[r].late \/ token[req[r].parent].state = "LIVE"
    BY <1>1, <1>2, <1>3, <1>7, AccountRows DEF IssuerHolds, Issuers
  <2>2. /\ token'[req[r].parent].user = token[req[r].parent].user
        /\ req'[r].late \/ token'[req[r].parent].state = token[req[r].parent].state
    BY <1>1, <1>2, <1>7, <2>1 DEF Aged, SameLine
  <2>3. QED
    BY <1>2, <2>1, <2>2
<1>8. QED
  BY <1>4, <1>5, <1>6, <1>7 DEF IssuerHolds

LEMMA AgedSteps ==
  ASSUME AccountsTypeOK, StepsHold, NEW us, UserStep(us), Aged(us)
  PROVE  StepsHold'
<1> SUFFICES ASSUME NEW r \in Calls, ActsOn(req'[r])
             PROVE  user'[req'[r].user].status # "NONE"
  BY DEF StepsHold, ActsOn
<1>1. ~Issues(req'[r]) /\ req'[r] # Idle
  BY IdleIsPending, Carried DEF Aged
<1>2. req'[r] = req[r]
  BY <1>1, Carried, AccountRows DEF Aged, Ages, Issuers, Issues
<1>3. req[r].user \in Users
  BY <1>2, AccountRows, Carried
<1>4. QED
  BY <1>2, <1>3 DEF StepsHold, UserStep

LEMMA AgedHeirs ==
  ASSUME AccountsTypeOK, OneSuccessor, NEW us, Aged(us)
  PROVE  OneSuccessor'
<1>1. DOMAIN token = 1..Len(token) /\ DOMAIN token' = 1..Len(token)
  BY AccountRows DEF Aged
<1> SUFFICES ASSUME NEW p \in 1..Len(token)
             PROVE  LET heirs == {k \in 1..Len(token) : token'[k].parent = p /\ ~token'[k].late} IN
                    IF token'[p].state = "ROTATED" THEN \A k, l \in heirs : k = l ELSE heirs = {}
  BY <1>1 DEF OneSuccessor
<1>2. {k \in 1..Len(token) : token'[k].parent = p /\ ~token'[k].late}
        = {k \in 1..Len(token) : token[k].parent = p /\ ~token[k].late}
  BY DEF Aged, SameLine
<1>3. token'[p].state = "ROTATED" <=> token[p].state = "ROTATED"
  BY DEF Aged
<1>4. QED
  BY <1>1, <1>2, <1>3 DEF OneSuccessor

LEMMA AgedHold ==
  ASSUME AccountsTypeOK, SessionsHold, NEW us, UserStep(us), Aged(us)
  PROVE  SessionsHold'
BY AgedTokens, AgedIssuers, AgedSteps, AgedHeirs DEF SessionsHold

-----------------------------------------------------------------------------
(* A token is stored, by a login or in place of its parent.                *)

LEMMA RowOfRequest ==
  ASSUME NEW q \in Issuers
  PROVE  /\ Row(q) \in Tokens
         /\ Row(q).user = q.user /\ Row(q).state = "LIVE" /\ Row(q).parent = q.parent
         /\ Row(q).password = q.password /\ Row(q).late = q.late /\ Row(q).tainted = q.tainted
BY DEF Row, Issuers, Tokens

\* What storing does to the tokens and to the requests.
Stored(r) ==
  LET q == req[r]  n == Len(token) + 1 IN
  /\ token' \in Seq(Tokens) /\ Len(token') = n
  /\ token'[n] = Row(q)
  /\ \A k \in 1..Len(token) :
       /\ SameLine(token[k], token'[k])
       /\ token'[k].state = IF k = q.parent /\ token[k].state = "LIVE"
                              THEN "ROTATED" ELSE token[k].state
  /\ req' \in [Calls -> Pending] /\ req'[r] = Idle
  /\ \A s \in Calls :
       /\ Ages(req[s], req'[s], {})
       /\ Issues(req'[s]) /\ q.parent > 0 /\ req[s].parent = q.parent => req'[s].late

LEMMA LoginStores ==
  ASSUME AccountsTypeOK, IssuersHold, NEW r \in Calls, StoreLogin(r)
  PROVE  Stored(r)
<1>1. /\ req[r] \in Issuers /\ req[r].parent = 0
      /\ token' = Append(token, Row(req[r])) /\ req' = Finished(r)
  <2>1. req[r] \in Issuers /\ Issues(req[r])
    BY AccountRows, Carried DEF StoreLogin, Issues
  <2>2. IssuerHolds(req[r])
    BY <2>1 DEF IssuersHold
  <2> QED BY <2>1, <2>2 DEF StoreLogin, IssuerHolds
<1>2. Row(req[r]) \in Tokens
  BY <1>1, RowOfRequest
<1>3. /\ token' \in Seq(Tokens) /\ Len(token') = Len(token) + 1
      /\ token'[Len(token) + 1] = Row(req[r])
      /\ \A k \in 1..Len(token) : token'[k] = token[k]
  BY <1>1, <1>2 DEF AccountsTypeOK
<1>4. \A k \in 1..Len(token) : k # req[r].parent
  BY <1>1, AccountRows
<1>5. req' \in [Calls -> Pending] /\ \A s \in Calls : Ages(req[s], req'[s], {})
  BY <1>1, Ends
<1>6. req'[r] = Idle
  BY <1>1 DEF Finished, AccountsTypeOK
<1>7. QED
  BY <1>1, <1>3, <1>4, <1>5, <1>6 DEF Stored, SameLine

LEMMA RefreshStores ==
  ASSUME AccountsTypeOK, NEW r \in Calls, StoreRefresh(r)
  PROVE  Stored(r)
<1> DEFINE ks == {req[r].parent}
           t == Revoked(ks, "ROTATED")
<1>1. /\ req[r] \in Issuers
      /\ token' = Append(t, Row(req[r])) /\ req' = Overtaken(Finished(r), {}, ks)
  BY AccountRows, Carried DEF StoreRefresh, Issues
<1>2. Row(req[r]) \in Tokens
  BY <1>1, RowOfRequest
<1>3. /\ t \in Seq(Tokens) /\ Len(t) = Len(token)
      /\ \A k \in 1..Len(token) :
           /\ SameLine(token[k], t[k])
           /\ t[k].state = IF k \in ks /\ token[k].state = "LIVE"
                             THEN "ROTATED" ELSE token[k].state
  BY RevokedRows
<1>4. /\ req' \in [Calls -> Pending]
      /\ \A s \in Calls :
           /\ Ages(req[s], req'[s], {})
           /\ Issues(req'[s]) => (req[s].parent \in ks => req'[s].late)
  BY <1>1, Ends, OvertakenAges
<1>5. req'[r] = Idle
  <2>1. Finished(r)[r] = Idle
    BY DEF Finished, AccountsTypeOK
  <2> QED BY <1>1, <2>1, IdleIsPending DEF Overtaken
<1>6. \A k : k \in ks <=> k = req[r].parent
  OBVIOUS
<1> HIDE DEF ks, t
<1>7. /\ token' \in Seq(Tokens) /\ Len(token') = Len(token) + 1
      /\ token'[Len(token) + 1] = Row(req[r])
      /\ \A k \in 1..Len(token) : token'[k] = t[k]
  BY <1>1, <1>2, <1>3
<1>8. QED
  BY <1>3, <1>4, <1>5, <1>6, <1>7 DEF Stored

LEMMA StoredHolds ==
  ASSUME AccountsTypeOK, SessionsHold, NEW r \in Calls, Stored(r), Issues(req[r]), UserStep({})
  PROVE  SessionsHold'
<1> DEFINE q == req[r]
           n == Len(token) + 1
<1>1. q \in Issuers /\ IssuerHolds(q) /\ q.parent \in 0..Len(token)
  BY AccountRows, Carried DEF SessionsHold, IssuersHold, IssuerHolds, Issuers
<1>2. DOMAIN token = 1..Len(token) /\ Len(token) \in Nat /\ DOMAIN token' = 1..n
      /\ Len(token') = n
  BY AccountRows DEF Stored
<1>3. /\ token'[n] = Row(q) /\ Row(q) \in Tokens
      /\ Row(q).user = q.user /\ Row(q).state = "LIVE" /\ Row(q).parent = q.parent
      /\ Row(q).password = q.password /\ Row(q).late = q.late /\ Row(q).tainted = q.tainted
  BY <1>1, RowOfRequest DEF Stored
<1> PICK v \in Users : v = req[r].user
  BY <1>1 DEF Issuers
<1>4. q.tainted \/ (q.password = user'[v].password /\ (LockedOut(v)' => v \in strayed'))
  BY <1>1 DEF IssuerHolds, UserStep, Current, LockedOut
<1>5. TokensHold'
  <2> SUFFICES ASSUME NEW k \in 1..n
               PROVE  /\ token'[k].parent < k
                      /\ user'[token'[k].user].status # "NONE"
                      /\ token'[k].state = "LIVE" => Current(token[k])'
    BY <1>2 DEF TokensHold
  <2>1. CASE k = n
    BY <1>1, <1>2, <1>3, <1>4, <2>1 DEF IssuerHolds, UserStep, Issuers, Current, LockedOut
  <2>2. CASE k \in 1..Len(token)
    <3>1. token[k] \in Tokens /\ token[k].user \in Users
      BY <2>2, AccountRows DEF Tokens
    <3>2. SameLine(token[k], token'[k]) /\ user[token[k].user].status # "NONE"
          /\ token[k].parent < k /\ (token[k].state = "LIVE" => Current(token[k]))
      BY <2>2 DEF Stored, SessionsHold, TokensHold
    <3>3. token'[k].parent < k /\ user'[token'[k].user].status # "NONE"
      BY <3>1, <3>2 DEF SameLine, UserStep
    <3>4. token'[k].state = "LIVE" => token[k].state = "LIVE"
      BY <2>2 DEF Stored
    <3>5. token'[k].state = "LIVE" => Current(token[k])'
      BY <3>1, <3>2, <3>4 DEF SameLine, UserStep, Current, LockedOut
    <3> QED BY <3>3, <3>5
  <2> QED BY <1>2, <2>1, <2>2
<1>6. IssuersHold'
  <2> SUFFICES ASSUME NEW s \in Calls, Issues(req'[s])
               PROVE  IssuerHolds(req[s])'
    BY DEF IssuersHold, Issues
  <2>1. Issues(req[s]) /\ req[s] \in Issuers
    BY AccountRows, Carried, IdleIsPending DEF Stored, Ages
  <2>2. /\ req'[s] \in Issuers
        /\ req'[s].op = "LOGIN" <=> req[s].op = "LOGIN"
        /\ req'[s].user = req[s].user /\ req'[s].parent = req[s].parent
        /\ req'[s].password = req[s].password
        /\ req[s].late => req'[s].late
        /\ req[s].tainted => req'[s].tainted
    BY <2>1, IdleIsPending DEF Stored, Ages
  <2>3. IssuerHolds(req[s])
    BY <2>1 DEF SessionsHold, IssuersHold
  <2>4. user'[req'[s].user].status # "NONE" /\ Current(req[s])'
    BY <2>1, <2>2, <2>3 DEF IssuerHolds, UserStep, Current, LockedOut, Issuers
  <2>5. (req'[s].op = "LOGIN" <=> req'[s].parent = 0) /\ req'[s].parent <= Len(token')
    BY <1>2, <2>1, <2>2, <2>3 DEF IssuerHolds, Issuers
  <2>6. ASSUME req'[s].parent > 0
        PROVE  /\ token'[req'[s].parent].user = req'[s].user
               /\ req'[s].late \/ token'[req'[s].parent].state = "LIVE"
    <3>1. /\ req[s].parent \in 1..Len(token)
          /\ token[req[s].parent].user = req[s].user
          /\ req[s].late \/ token[req[s].parent].state = "LIVE"
      BY <1>2, <2>1, <2>2, <2>3, <2>6 DEF IssuerHolds, Issuers
    <3>2. /\ token'[req[s].parent].user = token[req[s].parent].user
          /\ req'[s].late \/ token'[req[s].parent].state = token[req[s].parent].state
      BY <2>2, <2>6, <3>1 DEF Stored, SameLine
    <3> QED BY <2>2, <3>1, <3>2
  <2> QED BY <2>4, <2>5, <2>6 DEF IssuerHolds
<1>7. StepsHold'
  <2> SUFFICES ASSUME NEW s \in Calls, ActsOn(req'[s])
               PROVE  user'[req'[s].user].status # "NONE"
    BY DEF StepsHold, ActsOn
  <2>1. ~Issues(req'[s]) /\ req'[s] # Idle /\ req'[s] = req[s]
    BY IdleIsPending, Carried, AccountRows DEF Stored, Ages, Issuers, Issues
  <2>2. req[s].user \in Users
    BY <2>1, AccountRows, Carried
  <2> QED BY <2>1, <2>2 DEF SessionsHold, StepsHold, UserStep
<1>8. OneSuccessor'
  <2> DEFINE Heirs(p) == {k \in 1..Len(token) : token[k].parent = p /\ ~token[k].late}
             New(p) == {k \in 1..n : token'[k].parent = p /\ ~token'[k].late}
  <2> SUFFICES ASSUME NEW p \in 1..n
               PROVE  IF token'[p].state = "ROTATED" THEN \A k, l \in New(p) : k = l
                                                     ELSE New(p) = {}
    BY <1>2 DEF OneSuccessor
  <2>1. ASSUME NEW k \in 1..Len(token) PROVE k \in New(p) <=> k \in Heirs(p)
    BY <1>2, <2>1 DEF Stored, SameLine
  <2>2. n \in New(p) <=> (p = q.parent /\ ~q.late)
    BY <1>2, <1>3
  <2>3. New(p) \subseteq 1..n /\ Heirs(p) \subseteq 1..Len(token)
    OBVIOUS
  <2>4. CASE p = n
    <3>1. token'[p].state = "LIVE"
      BY <1>3, <2>4
    <3>2. \A k \in 1..n : token'[k].parent # p
      BY <1>2, <1>5, <2>4 DEF TokensHold
    <3> QED BY <3>1, <3>2
  <2>5. CASE p \in 1..Len(token)
    <3>1. IF token[p].state = "ROTATED" THEN \A k, l \in Heirs(p) : k = l ELSE Heirs(p) = {}
      BY <1>2, <2>5 DEF SessionsHold, OneSuccessor
    <3>2. token'[p].state = IF p = q.parent /\ token[p].state = "LIVE"
                              THEN "ROTATED" ELSE token[p].state
      BY <2>5 DEF Stored
    <3> HIDE DEF Heirs, New, n
    <3>3. CASE p = q.parent /\ ~q.late
      <4>1. token[p].state = "LIVE"
        BY <1>1, <2>5, <3>3 DEF IssuerHolds
      <4>2. Heirs(p) = {} /\ token'[p].state = "ROTATED"
        BY <3>1, <3>2, <3>3, <4>1
      <4>3. \A k \in New(p) : k = n
        BY <1>2, <2>1, <2>3, <4>2 DEF n
      <4> QED BY <4>2, <4>3
    <3>4. CASE ~(p = q.parent /\ ~q.late)
      <4>1. New(p) = Heirs(p)
        <5>1. n \notin New(p)
          BY <2>2, <3>4
        <5>2. ASSUME NEW k \in New(p) PROVE k \in Heirs(p)
          BY <1>2, <2>1, <2>3, <5>1, <5>2 DEF n
        <5>3. ASSUME NEW k \in Heirs(p) PROVE k \in New(p)
          BY <2>1, <2>3, <5>3
        <5> QED BY <5>2, <5>3
      <4>2. CASE token[p].state = "LIVE"
        BY <3>1, <3>2, <4>1, <4>2
      <4>3. CASE token[p].state # "LIVE"
        BY <3>1, <3>2, <4>1, <4>3
      <4> QED BY <4>2, <4>3
    <3> QED BY <3>3, <3>4
  <2> QED BY <1>2, <2>4, <2>5
<1>9. QED
  BY <1>5, <1>6, <1>7, <1>8 DEF SessionsHold

-----------------------------------------------------------------------------
(* The actions.                                                            *)

LEMMA SameUsers ==
  ASSUME NEW us, UNCHANGED <<client, user, strayed>>
  PROVE  UserStep(us)
BY DEF UserStep, LockedOut

LEMMA Changed ==
  ASSUME AccountsTypeOK, Change
  PROVE  changes' \in Nat
BY DEF AccountsTypeOK, Change

\* Everything but a login and an exchange.
LEMMA Held ==
  ASSUME AInv, NEW us, UserStep(us), Aged(us), client' \in [Clients -> ClientRows],
         user' \in [Users -> UserRows], strayed' \subseteq Users, changes' \in Nat,
         UsersHold', ClientsHold'
  PROVE  AInv'
<1>1. SessionsHold'
  BY AgedHold DEF AInv
<1>2. AccountsTypeOK'
  BY DEF AccountsTypeOK, Aged
<1>3. QED
  BY <1>1, <1>2 DEF AInv

LEMMA QuietHolds ==
  ASSUME AInv, NEW us, Aged(us), UNCHANGED <<client, user, strayed, changes>>
  PROVE  AInv'
<1>1. UserStep(us)
  BY SameUsers
<1>2. UsersHold' /\ ClientsHold'
  BY DEF AInv, UsersHold, ClientsHold
<1>3. QED
  BY <1>1, <1>2, Held DEF AInv, AccountsTypeOK

LEMMA StoreHolds ==
  ASSUME AInv, NEW r \in Calls, StoreLogin(r) \/ StoreRefresh(r)
  PROVE  AInv'
<1>1. Stored(r) /\ Issues(req[r])
  BY LoginStores, RefreshStores DEF AInv, SessionsHold, StoreLogin, StoreRefresh, Issues
<1>2. UNCHANGED <<client, user, strayed, changes>>
  BY DEF StoreLogin, StoreRefresh
<1>3. SessionsHold'
  BY <1>1, <1>2, SameUsers, StoredHolds DEF AInv
<1>4. AccountsTypeOK'
  BY <1>1, <1>2 DEF AInv, AccountsTypeOK, Stored
<1>5. UsersHold' /\ ClientsHold'
  BY <1>2 DEF AInv, UsersHold, ClientsHold
<1>6. QED
  BY <1>3, <1>4, <1>5 DEF AInv

\* A request begins.
LEMMA AskHolds ==
  ASSUME AInv, NEW r \in Calls, NEW q \in Pending, Ask(r, q),
         Issues(q) => IssuerHolds(q), ActsOn(q) => user[q.user].status # "NONE"
  PROVE  AInv'
<1>1. UNCHANGED <<client, user, token, strayed, changes>> /\ req' = [req EXCEPT ![r] = q]
  BY DEF Ask
<1>2. req' \in [Calls -> Pending]
      /\ \A s \in Calls : req'[s] = IF s = r THEN q ELSE req[s]
  BY <1>1 DEF AInv, AccountsTypeOK
<1>3. AccountsTypeOK'
  BY <1>1, <1>2 DEF AInv, AccountsTypeOK
<1>4. UsersHold' /\ ClientsHold' /\ TokensHold' /\ OneSuccessor'
  BY <1>1 DEF AInv, UsersHold, ClientsHold, SessionsHold, TokensHold, Current, LockedOut,
              OneSuccessor
<1>5. IssuersHold'
  <2> SUFFICES ASSUME NEW s \in Calls, Issues(req'[s])
               PROVE  IssuerHolds(req'[s])
    BY <1>1 DEF IssuersHold, Issues, IssuerHolds, Current, LockedOut
  <2>1. CASE s = r
    BY <1>2, <2>1
  <2>2. CASE s # r
    BY <1>2, <2>2 DEF AInv, SessionsHold, IssuersHold
  <2> QED BY <2>1, <2>2
<1>6. StepsHold'
  BY <1>1, <1>2 DEF AInv, SessionsHold, StepsHold, ActsOn
<1>7. QED
  BY <1>3, <1>4, <1>5, <1>6 DEF AInv, SessionsHold

LEMMA BeginLoginHolds ==
  ASSUME AInv, NEW r \in Calls, NEW u \in Users, BeginLogin(r, u)
  PROVE  AInv'
<1> DEFINE q == [op |-> "LOGIN", user |-> u, parent |-> 0, password |-> user[u].password,
                 late |-> FALSE, tainted |-> FALSE]
<1>1. user[u] \in UserRows
  BY AccountRows DEF AInv
<1>2. q \in Issuers /\ q \in Pending /\ ~ActsOn(q)
  BY <1>1 DEF Issuers, Pending, UserRows, ActsOn
<1>3. user[u].status = "ACTIVE" /\ ~LockedOut(u)
  BY <1>1 DEF BeginLogin, Allowed, LockedOut, AInv, UsersHold, UserRows, Roles
<1>4. Len(token) \in Nat
  BY AccountRows DEF AInv
<1>5. IssuerHolds(q)
  BY <1>3, <1>4 DEF IssuerHolds, Current
<1>6. Ask(r, q)
  BY DEF BeginLogin
<1> HIDE DEF q
<1>7. QED
  BY <1>2, <1>5, <1>6, AskHolds

LEMMA ReadTokenHolds ==
  ASSUME AInv, NEW r \in Calls, NEW k \in DOMAIN token, ReadToken(r, k)
  PROVE  AInv'
<1> DEFINE q == [op |-> "READ_USER", user |-> OwnerOf(k), parent |-> k,
                 password |-> token[k].password, late |-> FALSE, tainted |-> token[k].tainted]
<1>1. k \in 1..Len(token) /\ Len(token) \in Nat /\ token[k] \in Tokens /\ token[k].state = "LIVE"
  BY AccountRows DEF AInv, ReadToken, Redeemable
<1>2. user[token[k].user].status # "NONE" /\ Current(token[k])
  BY <1>1 DEF AInv, SessionsHold, TokensHold
<1>3. q \in Issuers /\ q \in Pending /\ ~ActsOn(q)
  BY <1>1 DEF Issuers, Pending, Tokens, ActsOn, OwnerOf
<1>4. q.user = token[k].user /\ q.password = token[k].password /\ q.tainted = token[k].tainted
      /\ q.parent = k /\ q.op = "READ_USER"
  BY DEF OwnerOf
<1>5. Ask(r, q)
  BY DEF ReadToken
<1> HIDE DEF q
<1>6. Current(q)
  BY <1>2, <1>4 DEF Current
<1>7. IssuerHolds(q)
  BY <1>1, <1>2, <1>4, <1>6 DEF IssuerHolds
<1>8. QED
  BY <1>3, <1>5, <1>7, AskHolds

\* findPrimaryAccessAccountOrThrow finds a stored user.
LEMMA AccessAccount ==
  ASSUME AccountsTypeOK, UsersHold, NEW c \in Clients, HasAccess(c)
  PROVE  client[c].primary \in Users /\ user[client[c].primary].status # "NONE"
<1>1. client[c].primary \in Users
  BY AccountRows DEF HasAccess, ClientRows
<1>2. user[client[c].primary].role = "CLIENT_VIEWER"
  BY DEF HasAccess
<1>3. QED
  BY <1>1, <1>2 DEF UsersHold, NoUser

LEMMA BeginEditHolds ==
  ASSUME AInv, NEW r \in Calls, NEW u \in Users, NEW l \in Logins, NEW at \in Positions,
         BeginUpdateUser(r, u, at, l)
  PROVE  AInv'
<1> DEFINE q == [op |-> "UPDATE_USER", user |-> u, place |-> at, login |-> l]
<1>1. at \in Roles \X (Clients \cup {None})
  BY DEF Positions, Roles
<1>2. q \in Pending /\ ~Issues(q)
  BY <1>1 DEF Pending, Edits, Issues
<1>3. user[q.user].status # "NONE" /\ Ask(r, q)
  BY DEF BeginUpdateUser
<1> HIDE DEF q
<1>4. QED
  BY <1>2, <1>3, AskHolds

LEMMA BeginAccessHolds ==
  ASSUME AInv, NEW r \in Calls, NEW c \in Clients, NEW l \in Logins,
         BeginUpdateAccess(r, c, l)
  PROVE  AInv'
<1> DEFINE differs == l # user[client[c].primary].login
           q == [op |-> "UPDATE_ACCESS", user |-> client[c].primary, login |-> l,
                 changed |-> differs]
<1>1. differs \in BOOLEAN
  OBVIOUS
<1>2. client[c].primary \in Users /\ user[client[c].primary].status # "NONE"
  BY AccessAccount DEF BeginUpdateAccess, AInv
<1>3. Ask(r, q)
  BY DEF BeginUpdateAccess
<1> HIDE DEF differs
<1>4. q \in Pending /\ ~Issues(q) /\ user[q.user].status # "NONE"
  BY <1>1, <1>2 DEF Pending, Accesses, Issues
<1> HIDE DEF q
<1>5. QED
  BY <1>3, <1>4, AskHolds

LEMMA BeginResetHolds ==
  ASSUME AInv, NEW r \in Calls, NEW c \in Clients, BeginResetAccess(r, c)
  PROVE  AInv'
<1> DEFINE q == [op |-> "RESET_ACCESS", user |-> client[c].primary]
<1>1. client[c].primary \in Users /\ user[client[c].primary].status # "NONE"
  BY AccessAccount DEF BeginResetAccess, AInv
<1>2. q \in Pending /\ ~Issues(q) /\ user[q.user].status # "NONE" /\ Ask(r, q)
  BY <1>1 DEF Pending, Resets, Issues, BeginResetAccess
<1> HIDE DEF q
<1>3. QED
  BY <1>2, AskHolds

LEMMA BeginClientHolds ==
  ASSUME AInv, NEW r \in Calls, NEW c \in Clients,
         \/ BeginOpenAccess(r, c)
         \/ BeginDelete(r, c)
         \/ \E s \in {"ACTIVE", "INACTIVE"} : BeginSetStatus(r, c, s)
  PROVE  AInv'
<1>1. ASSUME NEW q \in Moves \cup Switches, Ask(r, q) PROVE AInv'
  <2>1. q \in Pending /\ ~Issues(q) /\ ~ActsOn(q)
    BY <1>1 DEF Pending, Moves, Switches, Issues, ActsOn
  <2> QED BY <1>1, <2>1, AskHolds
<1>2. CASE BeginOpenAccess(r, c)
  <2>1. [op |-> "OPEN_ACCESS", on |-> c] \in Moves
    BY DEF Moves
  <2> QED BY <1>1, <1>2, <2>1 DEF BeginOpenAccess
<1>3. CASE BeginDelete(r, c)
  <2>1. [op |-> "DELETE", on |-> c] \in Moves
    BY DEF Moves
  <2> QED BY <1>1, <1>3, <2>1 DEF BeginDelete
<1>4. ASSUME NEW s \in {"ACTIVE", "INACTIVE"}, BeginSetStatus(r, c, s) PROVE AInv'
  <2>1. [op |-> "SET_STATUS", on |-> c, state |-> s] \in Switches
    BY DEF Switches
  <2> QED BY <1>1, <1>4, <2>1 DEF BeginSetStatus
<1>5. QED
  BY <1>2, <1>3, <1>4

LEMMA ReadUserHolds ==
  ASSUME AInv, NEW r \in Calls, ReadUser(r)
  PROVE  AInv'
<1> DEFINE n == [req[r] EXCEPT !.op = "REFRESH"]
<1>1. req[r] \in Issuers /\ req[r].op = "READ_USER" /\ Issues(req[r])
  BY AccountRows, Carried DEF ReadUser, Issues, AInv
<1>2. /\ n \in Issuers /\ n.op = "REFRESH" /\ n.user = req[r].user
      /\ n.parent = req[r].parent /\ n.password = req[r].password
      /\ n.late = req[r].late /\ n.tainted = req[r].tainted
  BY <1>1 DEF Issuers
<1>3. req' = [req EXCEPT ![r] = n] /\ UNCHANGED <<client, user, token, strayed, changes>>
  BY DEF ReadUser
<1> HIDE DEF n
<1>4. Ages(req[r], n, {}) /\ n \in Pending
  BY <1>1, <1>2 DEF Ages, Pending
<1>5. /\ req' \in [Calls -> Pending]
      /\ \A s \in Calls : req'[s] = IF s = r THEN n ELSE req[s]
  BY <1>3, <1>4 DEF AInv, AccountsTypeOK
<1>6. \A s \in Calls : Ages(req[s], req'[s], {})
  <2> SUFFICES ASSUME NEW s \in Calls, s # r PROVE Ages(req[s], req[s], {})
    BY <1>4, <1>5
  <2> QED BY AccountRows, Carried DEF AInv, Ages
<1>7. Aged({})
  BY <1>3, <1>5, <1>6, RequestAges DEF AInv
<1>8. QED
  BY <1>3, <1>7, QuietHolds

LEMMA AbandonHolds ==
  ASSUME AInv, NEW r \in Calls, Abandon(r)
  PROVE  AInv'
<1>1. req' = Finished(r) /\ UNCHANGED <<client, user, token, strayed, changes>>
  BY DEF Abandon, Give
<1>2. Aged({})
  BY <1>1, Ends, RequestAges DEF AInv
<1>3. QED
  BY <1>1, <1>2, QuietHolds

LEMMA LogoutHolds ==
  ASSUME AInv, NEW k \in DOMAIN token, Logout(k) \/ Expire(k)
  PROVE  AInv'
<1>1. /\ token' = Revoked({k}, "REVOKED") /\ req' = Overtaken(req, {}, {k})
      /\ UNCHANGED <<client, user, strayed, changes>>
  BY DEF Logout, Expire
<1>2. req \in [Calls -> Pending]
  BY DEF AInv, AccountsTypeOK
<1>3. Aged({})
  BY <1>1, <1>2, EndingAges DEF AInv, SessionsHold
<1>4. QED
  BY <1>1, <1>3, QuietHolds

-----------------------------------------------------------------------------
(* Writes of users and of clients.                                         *)

\* One row of users is written.
LEMMA UserWritten ==
  ASSUME AccountsTypeOK, UsersHold, NEW u \in Users, NEW row \in UserRows,
         user' = [user EXCEPT ![u] = row], row.status = "NONE" => row = NoUser,
         row.role = "OTHER" => row.client = None
  PROVE  /\ user' \in [Users -> UserRows] /\ UsersHold'
         /\ \A v \in Users : user'[v] = IF v = u THEN row ELSE user[v]
BY DEF AccountsTypeOK, UsersHold, NoUser

LEMMA ClientWritten ==
  ASSUME AccountsTypeOK, ClientsHold, NEW c \in Clients, NEW row \in ClientRows,
         client' = [client EXCEPT ![c] = row], row.state = "NONE" => row.primary = None
  PROVE  /\ client' \in [Clients -> ClientRows] /\ ClientsHold'
         /\ \A d \in Clients : client'[d] = IF d = c THEN row ELSE client[d]
BY DEF AccountsTypeOK, ClientsHold

\* The sessions stay, and at most the request that writes is over.
LEMMA Unhurried ==
  ASSUME AccountsTypeOK, UNCHANGED token, NEW r,
         (r \in Calls /\ req' = Finished(r)) \/ UNCHANGED req
  PROVE  Aged({})
<1>1. CASE r \in Calls /\ req' = Finished(r)
  BY <1>1, Ends, RequestAges
<1>2. CASE UNCHANGED req
  <2>1. req \in [Calls -> Pending] /\ \A s \in Calls : Ages(req[s], req[s], {})
    BY AccountRows, Carried DEF AccountsTypeOK, Ages
  <2> QED BY <1>2, <2>1, RequestAges
<1>3. QED
  BY <1>1, <1>2

LEMMA NewUserRow ==
  ASSUME NEW role \in Roles, NEW c \in Clients \cup {None}, NEW l \in Logins
  PROVE  /\ NewUser(role, c, l) \in UserRows /\ NewUser(role, c, l).status = "ACTIVE"
         /\ NewUser(role, c, l).role = role /\ NewUser(role, c, l).client = c
BY DEF NewUser, NoUser, UserRows, Roles

LEMMA CreateUserHolds ==
  ASSUME AInv, NEW u \in Users, NEW at \in Positions, NEW l \in Logins, CreateUser(u, at, l)
  PROVE  AInv'
<1> DEFINE row == NewUser(at[1], at[2], l)
<1>1. at[1] \in Roles /\ at[2] \in Clients \cup {None}
      /\ (at[1] = "OTHER" => at[2] = None)
  BY DEF Positions, Roles
<1>2. row \in UserRows /\ row.status = "ACTIVE" /\ row.role = at[1] /\ row.client = at[2]
  BY <1>1, NewUserRow
<1>3. user' = [user EXCEPT ![u] = row] /\ UNCHANGED <<client, token, req, strayed>> /\ Change
      /\ user[u].status = "NONE"
  BY DEF CreateUser
<1> HIDE DEF row
<1>4. user' \in [Users -> UserRows] /\ UsersHold'
      /\ \A v \in Users : user'[v] = IF v = u THEN row ELSE user[v]
  BY <1>1, <1>2, <1>3, UserWritten DEF AInv
<1>5. UserStep({})
  BY <1>2, <1>3, <1>4 DEF UserStep, LockedOut
<1>6. Aged({})
  BY <1>3, Unhurried DEF AInv
<1>7. client' \in [Clients -> ClientRows] /\ ClientsHold' /\ strayed' \subseteq Users /\ changes' \in Nat
  BY <1>3, Changed DEF AInv, AccountsTypeOK, ClientsHold
<1>8. QED
  BY <1>4, <1>5, <1>6, <1>7, Held

LEMMA SetUserStatusHolds ==
  ASSUME AInv, NEW u \in Users, NEW s \in {"ACTIVE", "SUSPENDED", "DELETED"}, SetUserStatus(u, s)
  PROVE  AInv'
<1> DEFINE row == [user[u] EXCEPT !.status = s]
<1>1. user[u] \in UserRows /\ user[u].status # "NONE"
  BY AccountRows DEF AInv, SetUserStatus
<1>2. /\ row \in UserRows /\ row.status = s /\ row.role = user[u].role
      /\ row.client = user[u].client /\ row.password = user[u].password
  BY <1>1 DEF UserRows
<1>3. user' = [user EXCEPT ![u] = row] /\ UNCHANGED <<client, token, req, strayed>> /\ Change
  BY DEF SetUserStatus
<1> HIDE DEF row
<1>4. user' \in [Users -> UserRows] /\ UsersHold'
      /\ \A v \in Users : user'[v] = IF v = u THEN row ELSE user[v]
  BY <1>2, <1>3, UserWritten DEF AInv, UsersHold
<1>5. UserStep({})
  BY <1>2, <1>3, <1>4 DEF UserStep, LockedOut
<1>6. Aged({})
  BY <1>3, Unhurried DEF AInv
<1>7. client' \in [Clients -> ClientRows] /\ ClientsHold' /\ strayed' \subseteq Users /\ changes' \in Nat
  BY <1>3, Changed DEF AInv, AccountsTypeOK, ClientsHold
<1>8. QED
  BY <1>4, <1>5, <1>6, <1>7, Held

\* A new password of a user whose row is there.
LEMMA NewPasswordHolds ==
  ASSUME AInv, NEW u \in Users, NewPassword(u), user[u].status # "NONE", Aged({u}), Change,
         UNCHANGED <<client, strayed>>
  PROVE  AInv'
<1> DEFINE row == [user[u] EXCEPT !.password = @ + 1]
<1>1. user[u] \in UserRows
  BY AccountRows DEF AInv
<1>2. /\ row \in UserRows /\ row.status = user[u].status /\ row.role = user[u].role
      /\ row.client = user[u].client
  BY <1>1 DEF UserRows
<1>3. user' = [user EXCEPT ![u] = row]
  BY DEF NewPassword
<1> HIDE DEF row
<1>4. user' \in [Users -> UserRows] /\ UsersHold'
      /\ \A v \in Users : user'[v] = IF v = u THEN row ELSE user[v]
  BY <1>2, <1>3, UserWritten DEF AInv, UsersHold
<1>5. UserStep({u})
  BY <1>2, <1>4 DEF UserStep, LockedOut
<1>6. client' \in [Clients -> ClientRows] /\ ClientsHold' /\ strayed' \subseteq Users /\ changes' \in Nat
  BY Changed DEF AInv, AccountsTypeOK, ClientsHold
<1>7. QED
  BY <1>4, <1>5, <1>6, Held

LEMMA ResetPasswordHolds ==
  ASSUME AInv, NEW u \in Users, ResetPassword(u)
  PROVE  AInv'
<1>1. req \in [Calls -> Pending]
  BY DEF AInv, AccountsTypeOK
<1>2. Aged({u})
  BY <1>1, SessionsEnd DEF ResetPassword, AInv, SessionsHold
<1>3. QED
  BY <1>2, NewPasswordHolds DEF ResetPassword

LEMMA ResetAccessHolds ==
  ASSUME AInv, NEW r \in Calls, ResetAccess(r)
  PROVE  AInv'
<1> DEFINE u == req[r].user
<1>1. u \in Users /\ user[u].status # "NONE"
  BY AccountRows, Carried DEF ResetAccess, AInv, SessionsHold, StepsHold, ActsOn
<1>2. EndSessions({u}, Finished(r)) /\ NewPassword(u) /\ Change /\ UNCHANGED <<client, strayed>>
  BY DEF ResetAccess
<1> HIDE DEF u
<1>3. Aged({u})
  BY <1>1, <1>2, Ends, SessionsEnd DEF AInv, SessionsHold
<1>4. QED
  BY <1>1, <1>2, <1>3, NewPasswordHolds

LEMMA UpdateAccessHolds ==
  ASSUME AInv, NEW r \in Calls, UpdateAccess(r)
  PROVE  AInv'
<1> DEFINE u == req[r].user
           row == [user[u] EXCEPT !.login = req[r].login]
<1>1. u \in Users /\ user[u].status # "NONE" /\ req[r].login \in Logins
  BY AccountRows, Carried DEF UpdateAccess, AInv, SessionsHold, StepsHold, ActsOn, Accesses
<1>2. user[u] \in UserRows
  BY <1>1, AccountRows DEF AInv
<1>3. /\ row \in UserRows /\ row.status = user[u].status /\ row.role = user[u].role
      /\ row.client = user[u].client /\ row.password = user[u].password
  BY <1>1, <1>2 DEF UserRows
<1>4. /\ user' = [user EXCEPT ![u] = row] /\ Change /\ UNCHANGED <<client, strayed>>
      /\ EndSessions({u}, Finished(r)) \/ (UNCHANGED token /\ req' = Finished(r))
  BY DEF UpdateAccess
<1> HIDE DEF u, row
<1>5. user' \in [Users -> UserRows] /\ UsersHold'
      /\ \A v \in Users : user'[v] = IF v = u THEN row ELSE user[v]
  BY <1>1, <1>3, <1>4, UserWritten DEF AInv, UsersHold
<1>6. \A us : UserStep(us)
  BY <1>3, <1>4, <1>5 DEF UserStep, LockedOut
<1>7. Aged({u}) \/ Aged({})
  <2>1. CASE EndSessions({u}, Finished(r))
    BY <1>1, <2>1, Ends, SessionsEnd DEF AInv, SessionsHold
  <2>2. CASE UNCHANGED token /\ req' = Finished(r)
    BY <2>2, Unhurried DEF AInv
  <2> QED BY <1>4, <2>1, <2>2
<1>8. client' \in [Clients -> ClientRows] /\ ClientsHold' /\ strayed' \subseteq Users /\ changes' \in Nat
  BY <1>4, Changed DEF AInv, AccountsTypeOK, ClientsHold
<1>9. QED
  BY <1>5, <1>6, <1>7, <1>8, Held

LEMMA UpdateUserHolds ==
  ASSUME AInv, NEW r \in Calls, UpdateUser(r)
  PROVE  AInv'
<1> DEFINE u == req[r].user
           at == req[r].place
           row == [user[u] EXCEPT !.role = at[1], !.client = at[2], !.login = req[r].login]
<1>1. /\ u \in Users /\ user[u].status # "NONE" /\ req[r].login \in Logins
      /\ at[1] \in Roles /\ at[2] \in Clients \cup {None}
      /\ at = <<at[1], at[2]>> /\ (at[1] = "OTHER" => at[2] = None)
  <2>1. req[r] \in Edits /\ user[u].status # "NONE" /\ at \in Positions
    BY AccountRows, Carried DEF UpdateUser, AInv, SessionsHold, StepsHold, ActsOn
  <2>2. u \in Users /\ req[r].login \in Logins
    BY <2>1 DEF Edits
  <2> QED BY <2>1, <2>2 DEF Positions, Roles
<1>2. user[u] \in UserRows
  BY <1>1, AccountRows DEF AInv
<1>3. /\ row \in UserRows /\ row.status = user[u].status /\ row.role = at[1]
      /\ row.client = at[2] /\ row.password = user[u].password
  BY <1>1, <1>2 DEF UserRows
<1>4. /\ user' = [user EXCEPT ![u] = row]
      /\ Change /\ UNCHANGED <<client, token>> /\ req' = Finished(r)
      /\ strayed' = IF ~(at # <<user[u].role, user[u].client>>) THEN strayed
                    ELSE IF at[2] # None /\ client[at[2]].state = "INACTIVE"
                           THEN strayed \cup {u} ELSE strayed \ {u}
  BY DEF UpdateUser
<1> HIDE DEF u, at, row
<1>5. user' \in [Users -> UserRows] /\ UsersHold'
      /\ \A v \in Users : user'[v] = IF v = u THEN row ELSE user[v]
  BY <1>1, <1>3, <1>4, UserWritten DEF AInv, UsersHold
<1>6. UserStep({})
  <2> SUFFICES ASSUME NEW v \in Users, user[v].status # "NONE"
               PROVE  /\ user'[v].status # "NONE" /\ user'[v].password = user[v].password
                      /\ LockedOut(v)' => v \in strayed' \/ (LockedOut(v) /\ v \notin strayed)
    BY DEF UserStep
  <2>1. CASE v # u
    BY <1>4, <1>5, <2>1 DEF LockedOut
  <2>2. CASE v = u
    <3>1. CASE at = <<user[u].role, user[u].client>>
      BY <1>1, <1>3, <1>4, <1>5, <2>2, <3>1 DEF LockedOut
    <3>2. CASE at # <<user[u].role, user[u].client>>
      BY <1>1, <1>3, <1>4, <1>5, <2>2, <3>2 DEF LockedOut
    <3> QED BY <3>1, <3>2
  <2> QED BY <2>1, <2>2
<1>7. Aged({})
  BY <1>4, Unhurried DEF AInv
<1>8. client' \in [Clients -> ClientRows] /\ ClientsHold' /\ strayed' \subseteq Users /\ changes' \in Nat
  BY <1>1, <1>4, Changed DEF AInv, AccountsTypeOK, ClientsHold
<1>9. QED
  BY <1>5, <1>6, <1>7, <1>8, Held

\* A new viewer with a client: nothing was stored for that user before.
LEMMA ViewerCreated ==
  ASSUME AInv, NEW u \in Users, NEW c \in Clients, NEW l \in Logins, NEW row \in ClientRows,
         user[u].status = "NONE", user' = [user EXCEPT ![u] = NewUser("CLIENT_VIEWER", c, l)],
         client' = [client EXCEPT ![c] = row], row.state # "NONE",
         row.state = "INACTIVE" => client[c].state = "INACTIVE", Aged({}), Change, UNCHANGED strayed
  PROVE  AInv'
<1> DEFINE new == NewUser("CLIENT_VIEWER", c, l)
<1>1. new \in UserRows /\ new.status = "ACTIVE" /\ new.role = "CLIENT_VIEWER" /\ new.client = c
  BY NewUserRow DEF Roles
<1> HIDE DEF new
<1>2. user' \in [Users -> UserRows] /\ UsersHold'
      /\ \A v \in Users : user'[v] = IF v = u THEN new ELSE user[v]
  BY <1>1, UserWritten DEF AInv, new
<1>3. client' \in [Clients -> ClientRows] /\ ClientsHold'
      /\ \A d \in Clients : client'[d] = IF d = c THEN row ELSE client[d]
  BY ClientWritten DEF AInv
<1>4. UserStep({})
  <2> SUFFICES ASSUME NEW v \in Users, user[v].status # "NONE"
               PROVE  /\ user'[v].status # "NONE" /\ user'[v].password = user[v].password
                      /\ LockedOut(v)' => v \in strayed' \/ (LockedOut(v) /\ v \notin strayed)
    BY DEF UserStep
  <2>1. user'[v] = user[v] /\ user[v].client \in Clients \cup {None}
    BY <1>2, AccountRows DEF AInv, UserRows
  <2>2. LockedOut(v)' => LockedOut(v)
    BY <1>3, <2>1 DEF LockedOut
  <2> QED BY <2>1, <2>2
<1>5. strayed' \subseteq Users /\ changes' \in Nat
  BY Changed DEF AInv, AccountsTypeOK
<1>6. QED
  BY <1>2, <1>3, <1>4, <1>5, Held

LEMMA CreateWithAccessHolds ==
  ASSUME AInv, NEW c \in Clients, NEW u \in Users, NEW l \in Logins, CreateWithAccess(c, u, l)
  PROVE  AInv'
<1> DEFINE row == [state |-> "ACTIVE", primary |-> u]
<1>1. row \in ClientRows /\ row.state = "ACTIVE"
  BY DEF ClientRows, States
<1>2. /\ client' = [client EXCEPT ![c] = row] /\ user[u].status = "NONE"
      /\ user' = [user EXCEPT ![u] = NewUser("CLIENT_VIEWER", c, l)]
      /\ Change /\ UNCHANGED <<token, req, strayed>>
  BY DEF CreateWithAccess
<1> HIDE DEF row
<1>3. Aged({})
  BY <1>2, Unhurried DEF AInv
<1>4. QED
  BY <1>1, <1>2, <1>3, ViewerCreated

LEMMA OpenAccessHolds ==
  ASSUME AInv, NEW r \in Calls, NEW u \in Users, NEW l \in Logins, OpenAccess(r, u, l)
  PROVE  AInv'
<1> DEFINE c == req[r].on
           row == [client[c] EXCEPT !.primary = u]
<1>1. c \in Clients
  BY AccountRows, Carried DEF AInv, OpenAccess, Moves
<1>2. client[c] \in ClientRows
  BY <1>1, AccountRows DEF AInv
<1>3. row \in ClientRows /\ row.state = client[c].state
  BY <1>2 DEF ClientRows
<1>4. /\ client' = [client EXCEPT ![c] = row] /\ user[u].status = "NONE"
      /\ user' = [user EXCEPT ![u] = NewUser("CLIENT_VIEWER", c, l)]
      /\ client[c].state # "NONE" /\ req' = Finished(r)
      /\ Change /\ UNCHANGED <<token, strayed>>
  BY DEF OpenAccess, Linkable, Exists
<1> HIDE DEF c, row
<1>5. Aged({})
  BY <1>4, Unhurried DEF AInv
<1>6. QED
  BY <1>1, <1>3, <1>4, <1>5, ViewerCreated

LEMMA CreateClientHolds ==
  ASSUME AInv, NEW c \in Clients, CreateClient(c)
  PROVE  AInv'
<1> DEFINE row == [client[c] EXCEPT !.state = "ACTIVE"]
<1>1. client[c] \in ClientRows
  BY AccountRows DEF AInv
<1>2. row \in ClientRows /\ row.state = "ACTIVE"
  BY <1>1 DEF ClientRows, States
<1>3. client' = [client EXCEPT ![c] = row] /\ Change /\ UNCHANGED <<user, token, req, strayed>>
  BY DEF CreateClient
<1> HIDE DEF row
<1>4. client' \in [Clients -> ClientRows] /\ ClientsHold'
      /\ \A d \in Clients : client'[d] = IF d = c THEN row ELSE client[d]
  BY <1>2, <1>3, ClientWritten DEF AInv
<1>5. UserStep({})
  <2> SUFFICES ASSUME NEW v \in Users, LockedOut(v)' PROVE LockedOut(v)
    BY <1>3 DEF UserStep
  <2>1. user'[v] = user[v] /\ user[v].client \in Clients \cup {None}
    BY <1>3, AccountRows DEF AInv, UserRows
  <2> QED BY <1>2, <1>4, <2>1 DEF LockedOut
<1>6. Aged({})
  BY <1>3, Unhurried DEF AInv
<1>7. user' \in [Users -> UserRows] /\ UsersHold' /\ strayed' \subseteq Users /\ changes' \in Nat
  BY <1>3, Changed DEF AInv, AccountsTypeOK, UsersHold
<1>8. QED
  BY <1>4, <1>5, <1>6, <1>7, Held

LEMMA SetStatusHolds ==
  ASSUME AInv, NEW r \in Calls, SetStatus(r)
  PROVE  AInv'
<1> DEFINE c == req[r].on
           s == req[r].state
           row == [client[c] EXCEPT !.state = s]
           us == UsersOf(c)
<1>1. c \in Clients /\ s \in {"ACTIVE", "INACTIVE"}
  BY AccountRows, Carried DEF AInv, SetStatus, Switches
<1>2. client[c] \in ClientRows
  BY <1>1, AccountRows DEF AInv
<1>3. row \in ClientRows /\ row.state = s
  BY <1>1, <1>2 DEF ClientRows, States
<1>4. /\ client' = [client EXCEPT ![c] = row] /\ Change /\ UNCHANGED user
      /\ \/ s = "INACTIVE" /\ EndSessions(us, Finished(r)) /\ strayed' = strayed \ us
         \/ s # "INACTIVE" /\ UNCHANGED <<token, strayed>> /\ req' = Finished(r)
  BY DEF SetStatus
<1>5. us \in SUBSET Users /\ \A v \in Users : v \in us <=> user[v].client = c
  BY DEF UsersOf
<1> HIDE DEF c, s, row, us
<1>6. client' \in [Clients -> ClientRows] /\ ClientsHold'
      /\ \A d \in Clients : client'[d] = IF d = c THEN row ELSE client[d]
  BY <1>1, <1>3, <1>4, ClientWritten DEF AInv
<1>7. \A v \in Users : user'[v] = user[v] /\ user[v].client \in Clients \cup {None}
  BY <1>4, AccountRows DEF AInv, UserRows
<1>8. CASE s = "INACTIVE"
  <2>1. Aged(us)
    BY <1>4, <1>5, <1>8, Ends, SessionsEnd DEF AInv, SessionsHold
  <2>2. UserStep(us)
    <3> SUFFICES ASSUME NEW v \in Users, v \notin us, LockedOut(v)'
                 PROVE  v \in strayed' \/ (LockedOut(v) /\ v \notin strayed)
      BY <1>7 DEF UserStep
    <3>1. LockedOut(v)
      BY <1>5, <1>6, <1>7 DEF LockedOut
    <3> QED BY <1>4, <1>8, <3>1
  <2>3. strayed' \subseteq Users /\ changes' \in Nat
    BY <1>4, <1>8, Changed DEF AInv, AccountsTypeOK
  <2>4. user' \in [Users -> UserRows] /\ UsersHold'
    BY <1>4 DEF AInv, AccountsTypeOK, UsersHold
  <2> QED BY <1>6, <2>1, <2>2, <2>3, <2>4, Held
<1>9. CASE s # "INACTIVE"
  <2>1. Aged({})
    BY <1>4, <1>9, Unhurried DEF AInv
  <2>2. UserStep({})
    <3> SUFFICES ASSUME NEW v \in Users, LockedOut(v)'
                 PROVE  v \in strayed' \/ (LockedOut(v) /\ v \notin strayed)
      BY <1>7 DEF UserStep
    <3>1. LockedOut(v)
      BY <1>3, <1>6, <1>7, <1>9 DEF LockedOut
    <3> QED BY <1>4, <1>9, <3>1
  <2>3. strayed' \subseteq Users /\ changes' \in Nat
    BY <1>4, <1>9, Changed DEF AInv, AccountsTypeOK
  <2>4. user' \in [Users -> UserRows] /\ UsersHold'
    BY <1>4 DEF AInv, AccountsTypeOK, UsersHold
  <2> QED BY <1>6, <2>1, <2>2, <2>3, <2>4, Held
<1>10. QED
  BY <1>8, <1>9

LEMMA DeleteHolds ==
  ASSUME AInv, NEW r \in Calls, Delete(r)
  PROVE  AInv'
<1> DEFINE c == req[r].on
           row == [state |-> "DELETED", primary |-> None]
           us == UsersOf(c)
           Tomb(u) == [user[u] EXCEPT !.client = None, !.status = "DELETED", !.login = None]
<1>1. c \in Clients
  BY AccountRows, Carried DEF AInv, Delete, Moves
<1>2. row \in ClientRows /\ row.state = "DELETED"
  BY DEF ClientRows, States
<1>3. /\ client' = [client EXCEPT ![c] = row] /\ Change
      /\ user' = [u \in Users |-> IF u \in us THEN Tomb(u) ELSE user[u]]
      /\ EndSessions(us, Finished(r)) /\ strayed' = strayed \ us
  BY DEF Delete
<1>4. us \in SUBSET Users /\ \A v \in Users : v \in us <=> user[v].client = c
  BY DEF UsersOf
<1>5. ASSUME NEW u \in Users
      PROVE  /\ Tomb(u) \in UserRows /\ Tomb(u).status = "DELETED" /\ Tomb(u).client = None
  <2>1. user[u] \in UserRows
    BY AccountRows DEF AInv
  <2> QED BY <2>1 DEF UserRows
<1> HIDE DEF c, row, us, Tomb
<1>6. client' \in [Clients -> ClientRows] /\ ClientsHold'
      /\ \A d \in Clients : client'[d] = IF d = c THEN row ELSE client[d]
  BY <1>1, <1>2, <1>3, ClientWritten DEF AInv
<1>7. /\ user' \in [Users -> UserRows]
      /\ \A v \in Users : user'[v] = IF v \in us THEN Tomb(v) ELSE user[v]
  BY <1>3, <1>5, AccountRows DEF AInv
<1>8. UsersHold'
  BY <1>5, <1>7 DEF AInv, UsersHold
<1>9. Aged(us)
  BY <1>3, <1>4, Ends, SessionsEnd DEF AInv, SessionsHold
<1>10. UserStep(us)
  <2>1. ASSUME NEW v \in Users, v \notin us, LockedOut(v)'
        PROVE  v \in strayed' \/ (LockedOut(v) /\ v \notin strayed)
    <3>1. user'[v] = user[v] /\ user[v].client \in Clients \cup {None}
      BY <1>7, <2>1, AccountRows DEF AInv, UserRows
    <3>2. LockedOut(v)
      BY <1>4, <1>6, <2>1, <3>1 DEF LockedOut
    <3> QED BY <1>3, <2>1, <3>2
  <2>2. ASSUME NEW v \in Users, user[v].status # "NONE"
        PROVE  user'[v].status # "NONE" /\ (v \notin us => user'[v].password = user[v].password)
    BY <1>5, <1>7, <2>2
  <2> QED BY <2>1, <2>2 DEF UserStep
<1>11. strayed' \subseteq Users /\ changes' \in Nat
  BY <1>3, Changed DEF AInv, AccountsTypeOK
<1>12. QED
  BY <1>6, <1>7, <1>8, <1>9, <1>10, <1>11, Held

-----------------------------------------------------------------------------
(* The theorems.                                                           *)

LEMMA AInvInit ==
  ASSUME AccountsInit
  PROVE  AInv
<1> USE DEF AccountsInit
<1>1. [state |-> "NONE", primary |-> None] \in ClientRows /\ NoUser \in UserRows
  BY DEF ClientRows, UserRows, States, Roles, NoUser
<1>2. AccountsTypeOK
  BY <1>1, IdleIsPending DEF AccountsTypeOK
<1>3. UsersHold /\ ClientsHold
  BY DEF UsersHold, ClientsHold, NoUser
<1>4. Len(token) = 0 /\ DOMAIN token = {}
  OBVIOUS
<1>5. SessionsHold
  BY <1>4, IdleIsPending DEF SessionsHold, TokensHold, IssuersHold, StepsHold, OneSuccessor
<1>6. QED
  BY <1>2, <1>3, <1>5 DEF AInv

LEMMA AInvStep ==
  ASSUME AInv, [AccountsNext]_accountVars
  PROVE  AInv'
<1>1. CASE UNCHANGED accountVars
  BY <1>1 DEF accountVars, AInv, AccountsTypeOK, UsersHold, ClientsHold, SessionsHold, TokensHold, IssuersHold,
              StepsHold, OneSuccessor, Current, LockedOut, IssuerHolds, Issues, ActsOn
<1>2. ASSUME NEW c \in Clients, CreateClient(c) PROVE AInv'
  BY <1>2, CreateClientHolds
<1>3. ASSUME NEW c \in Clients, NEW u \in Users, NEW l \in Logins, CreateWithAccess(c, u, l)
      PROVE  AInv'
  BY <1>3, CreateWithAccessHolds
<1>4. ASSUME NEW u \in Users,
             \/ ResetPassword(u)
             \/ \E s \in {"ACTIVE", "SUSPENDED", "DELETED"} : SetUserStatus(u, s)
             \/ \E at \in Positions, l \in Logins : CreateUser(u, at, l)
      PROVE  AInv'
  BY <1>4, ResetPasswordHolds, SetUserStatusHolds, CreateUserHolds
<1>5. ASSUME NEW k \in DOMAIN token,
             Logout(k) \/ Expire(k) \/ \E r \in Calls : ReadToken(r, k)
      PROVE  AInv'
  BY <1>5, LogoutHolds, ReadTokenHolds
<1>6. ASSUME NEW r \in Calls,
             ReadUser(r) \/ StoreLogin(r) \/ StoreRefresh(r) \/ Abandon(r)
      PROVE  AInv'
  BY <1>6, ReadUserHolds, StoreHolds, AbandonHolds
<1>7. ASSUME NEW r \in Calls,
             UpdateUser(r) \/ UpdateAccess(r) \/ ResetAccess(r) \/ SetStatus(r) \/ Delete(r)
      PROVE  AInv'
  BY <1>7, UpdateUserHolds, UpdateAccessHolds, ResetAccessHolds, SetStatusHolds, DeleteHolds
<1>8. ASSUME NEW r \in Calls, NEW u \in Users,
             \/ BeginLogin(r, u)
             \/ \E l \in Logins :
                  OpenAccess(r, u, l) \/ \E at \in Positions : BeginUpdateUser(r, u, at, l)
      PROVE  AInv'
  BY <1>8, BeginLoginHolds, OpenAccessHolds, BeginEditHolds
<1>9. ASSUME NEW r \in Calls, NEW c \in Clients,
             \/ BeginOpenAccess(r, c) \/ BeginResetAccess(r, c) \/ BeginDelete(r, c)
             \/ \E l \in Logins : BeginUpdateAccess(r, c, l)
             \/ \E s \in {"ACTIVE", "INACTIVE"} : BeginSetStatus(r, c, s)
      PROVE  AInv'
  BY <1>9, BeginClientHolds, BeginResetHolds, BeginAccessHolds
<1>10. QED
  BY <1>1, <1>2, <1>3, <1>4, <1>5, <1>6, <1>7, <1>8, <1>9 DEF AccountsNext

\* In every reachable state the rows have their types, a request that is about to
\* store a token knows what overtook it, and every session goes back to the
\* password of its user.
THEOREM AccountsInductive == AccountsSpec => []AInv
<1>1. AccountsInit => AInv
  BY AInvInit
<1>2. AInv /\ [AccountsNext]_accountVars => AInv'
  BY AInvStep
<1>3. QED
  BY <1>1, <1>2, PTL DEF AccountsSpec

\* refresh: two exchanges of one token never both leave a successor, unless they
\* had both read it; a token that was logged out, ended or has expired has none
\* but those of exchanges under way.
THEOREM TokensHaveOneSuccessor == AccountsSpec => []OneSuccessor
<1>1. AInv => OneSuccessor
  BY DEF AInv, SessionsHold
<1>2. QED
  BY <1>1, AccountsInductive, PTL

\* resetPassword and resetAccessAccountPassword: no session outlives the password
\* it goes back to, but through a request that overlapped the reset.
THEOREM ResetsEndSessions == AccountsSpec => []ResetEndsSessions
<1>1. AInv => ResetEndsSessions
  BY AccountRows DEF AInv, SessionsHold, TokensHold, Current, ResetEndsSessions, OwnerOf
<1>2. QED
  BY <1>1, AccountsInductive, PTL

\* setActiveStatus: no session of a viewer waits for the client to come back, but
\* through a request that overlapped, or of a viewer who was moved there since.
THEOREM LockoutsEndSessions == AccountsSpec => []LockoutEndsSessions
<1>1. AInv => LockoutEndsSessions
  BY AccountRows DEF AInv, SessionsHold, TokensHold, Current, LockoutEndsSessions, OwnerOf, LockedOut
<1>2. QED
  BY <1>1, AccountsInductive, PTL

\* createAccessAccount and createWithAccessAccount: the access account of a client
\* stays until the client is deleted, whatever two administrators do at once.
THEOREM PrimaryStays == AccountsSpec => PrimaryIsKept
<1>1. ASSUME AInv, [AccountsNext]_accountVars, NEW c \in Clients, client[c].primary # None,
             client'[c].state # "DELETED"
      PROVE  client'[c].primary = client[c].primary
  <2> USE DEF AInv, AccountsTypeOK
  <2>1. client \in [Clients -> ClientRows] /\ client[c].state # "NONE"
    BY <1>1 DEF ClientsHold
  <2>2. CASE UNCHANGED client
    BY <2>2
  <2>3. ASSUME NEW d \in Clients, NEW u \in Users, NEW l \in Logins,
               CreateWithAccess(d, u, l)
        PROVE  client'[c].primary = client[c].primary
    <3>1. d # c
      BY <2>1, <2>3 DEF CreateWithAccess
    <3> QED BY <2>1, <2>3, <3>1 DEF CreateWithAccess
  <2>4. ASSUME NEW r \in Calls, NEW u \in Users, NEW l \in Logins, OpenAccess(r, u, l)
        PROVE  client'[c].primary = client[c].primary
    BY <1>1, <2>1, <2>4 DEF OpenAccess, Linkable
  <2>5. ASSUME NEW r \in Calls, SetStatus(r) PROVE client'[c].primary = client[c].primary
    BY <2>1, <2>5 DEF SetStatus, ClientRows
  <2>6. ASSUME NEW r \in Calls, Delete(r) PROVE client'[c].primary = client[c].primary
    BY <1>1, <2>1, <2>6 DEF Delete
  <2>7. ASSUME NEW d \in Clients, CreateClient(d) PROVE client'[c].primary = client[c].primary
    BY <2>1, <2>7 DEF CreateClient, ClientRows
  <2>8. QED
    BY <1>1, <2>2, <2>3, <2>4, <2>5, <2>6, <2>7
       DEF AccountsNext, accountVars, ResetPassword, SetUserStatus, CreateUser, Logout, Expire, ReadToken, Ask,
           ReadUser, StoreLogin, StoreRefresh, Abandon, Give, UpdateUser, UpdateAccess,
           ResetAccess, BeginLogin, BeginUpdateUser, BeginOpenAccess, BeginResetAccess,
           BeginDelete, BeginUpdateAccess, BeginSetStatus
<1>2. AInv /\ [AccountsNext]_accountVars => [\A c \in Clients :
         client[c].primary # None /\ client'[c].state # "DELETED"
           => client'[c].primary = client[c].primary]_accountVars
  BY <1>1
<1>3. QED
  BY <1>2, AccountsInductive, PTL DEF AccountsSpec, PrimaryIsKept
=============================================================================
