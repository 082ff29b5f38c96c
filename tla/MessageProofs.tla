---------------------------- MODULE MessageProofs ----------------------------
(***************************************************************************)
(* Proofs about the WhatsApp messages of the service.  WhatsAppDelivery,   *)
(* for all keys, requests, workers and numbers of attempts: what may send  *)
(* a message twice, what may take SENT back, and what may strand a PENDING *)
(* log.  TicketRequests, for all payloads, handlers, deaths and changes:   *)
(* one account gets the ticket of a link, and what is recorded as done was *)
(* done.                                                                   *)
(***************************************************************************)
EXTENDS WhatsAppDelivery, TicketRequests, TLAPS

-----------------------------------------------------------------------------
(* WhatsAppDelivery: who carries a message.                                *)

\* A request serves a key; only those of the retry endpoints mark and revive.
Asks(r) ==
  /\ rpc[r] = "idle" <=> rkey[r] = Nobody
  /\ r \in manual => rpc[r] \in {"mark", "find", "add", "revive", "refuse"} /\ rkey[r] \in asked
  /\ rpc[r] \in {"mark", "revive"} => r \in manual

\* A worker delivers a key, whose job it owns unless something died or stalled.
Delivers(w) ==
  /\ wpc[w] = "idle" <=> wkey[w] = Nobody
  /\ wpc[w] # "idle" /\ deaths = 0 => job[wkey[w]].owner = w

\* The owner of a job is a worker that delivers it.
Owned(k) ==
  /\ job[k].owner # Nobody => job[k].state = "active" /\ wkey[job[k].owner] = k
  /\ job[k].state = "active" => job[k].owner # Nobody

\* A log nobody retried is settled when its job has ended; while it is PENDING
\* something carries it.
Carried(k) ==
  deaths = 0 /\ k \notin asked =>
    /\ job[k].state \in {"completed", "failed"} => log[k] \in {"SENT", "FAILED", "CANCELLED"}
    /\ log[k] = "PENDING" => \/ job[k].state \in Live
                             \/ \E r \in Requests : rkey[r] = k
                             \/ \E w \in Workers : wkey[w] = k

\* What a request may find when nothing excuses a second message.
CalmRequest(r, k) ==
  /\ rpc[r] # "refuse"
  /\ rpc[r] = "mark" => log[k] = "FAILED"
  /\ rpc[r] = "revive" => job[k].state = "failed" /\ log[k] = "PENDING"
  /\ r \in manual /\ rpc[r] = "find" => log[k] = "PENDING" /\ job[k].state \notin Live
  /\ r \in manual /\ rpc[r] = "add" => log[k] = "PENDING" /\ job[k].state = "none"
  /\ job[k].state = "none" /\ r \notin manual =>
       /\ IF rpc[r] = "create" THEN log[k] \in {"NONE", "PENDING"} ELSE log[k] = "PENDING"
       /\ \A q \in manual : rkey[q] # k

Calm(k) ==
  /\ \A q, r \in manual : rkey[q] = k /\ rkey[r] = k => q = r
  /\ \A r \in Requests : rkey[r] = k => CalmRequest(r, k)
  /\ log[k] = "FAILED" => job[k].state \notin Live
  /\ \A w \in Workers : wkey[w] = k =>
       /\ wpc[w] # "read" => log[k] # "SENT"
       /\ wpc[w] = "record" <=> sent[k] = 1 /\ log[k] # "SENT"
  /\ sent[k] \in {0, 1}
  /\ sent[k] = 1 => log[k] = "SENT" \/ \E w \in Workers : wkey[w] = k

DeliveryInv ==
  /\ TypeOK
  /\ \A r \in Requests : Asks(r)
  /\ \A w \in Workers : Delivers(w)
  /\ \A k \in Keys : Owned(k) /\ Carried(k) /\ (Excused(k) \/ Calm(k))

\* A step concerns key k: the others, and who serves them, are left alone.
Elsewhere(k) ==
  /\ deaths <= deaths' /\ faults <= faults'
  /\ asked \subseteq asked' /\ asked' \subseteq asked \cup {k}
  /\ doubled \subseteq doubled' /\ doubled' \subseteq doubled \cup {k}
  /\ \A x \in Keys \ {k} : log'[x] = log[x] /\ job'[x] = job[x] /\ sent'[x] = sent[x]
  /\ \A r \in Requests :
       \/ rkey'[r] = rkey[r] /\ rpc'[r] = rpc[r] /\ (r \in manual' <=> r \in manual)
       \/ rkey[r] \in {k, Nobody} /\ rkey'[r] \in {k, Nobody}
  /\ \A w \in Workers :
       \/ wkey'[w] = wkey[w] /\ wpc'[w] = wpc[w]
       \/ wkey[w] \in {k, Nobody} /\ wkey'[w] \in {k, Nobody}

-----------------------------------------------------------------------------
\* Nothing is sent or queued at first.
LEMMA DeliveryInit == Init => DeliveryInv
<1> SUFFICES ASSUME Init PROVE DeliveryInv
  OBVIOUS
<1> USE DEF Init
<1>1. TypeOK
  BY DeliveryAssumption DEF TypeOK, NoJob, LogStatuses, Live
<1>2. (\A r \in Requests : Asks(r)) /\ \A w \in Workers : Delivers(w)
  BY DEF Asks, Delivers
<1>3. \A k \in Keys : rkey \in [Requests -> {Nobody}] /\ wkey \in [Workers -> {Nobody}] /\ k # Nobody
  BY DeliveryAssumption
<1>4. \A k \in Keys : Owned(k) /\ Carried(k)
  BY DEF Owned, Carried, NoJob
<1>5. \A k \in Keys : Calm(k)
  BY <1>3 DEF Calm
<1> QED
  BY <1>1, <1>2, <1>4, <1>5 DEF DeliveryInv

\* What holds of the other keys still does.
LEMMA KeyKept ==
  ASSUME DeliveryInv, TypeOK', NEW k \in Keys, Elsewhere(k), NEW x \in Keys \ {k}
  PROVE  Owned(x)' /\ Carried(x)' /\ (Excused(x)' \/ Calm(x)')
<1>1. /\ TypeOK /\ x # Nobody /\ Owned(x) /\ Carried(x) /\ (Excused(x) \/ Calm(x))
      /\ log'[x] = log[x] /\ job'[x] = job[x] /\ sent'[x] = sent[x]
      /\ (x \in asked' <=> x \in asked) /\ (x \in doubled' <=> x \in doubled)
  BY DeliveryAssumption DEF DeliveryInv, Elsewhere
<1>2. /\ deaths \in Nat /\ faults \in Nat /\ deaths' \in Nat /\ faults' \in Nat
      /\ deaths <= deaths' /\ faults <= faults'
  BY <1>1, DeliveryAssumption DEF TypeOK, Elsewhere
<1>3. \A r \in Requests : rkey[r] = x \/ rkey'[r] = x =>
        rkey'[r] = rkey[r] /\ rpc'[r] = rpc[r] /\ (r \in manual' <=> r \in manual)
  BY <1>1 DEF Elsewhere
<1>4. \A w \in Workers : wkey[w] = x \/ wkey'[w] = x => wkey'[w] = wkey[w] /\ wpc'[w] = wpc[w]
  BY <1>1 DEF Elsewhere
<1>5. Owned(x)'
  BY <1>1, <1>4 DEF Owned, TypeOK
<1>6. Carried(x)'
  BY <1>1, <1>2, <1>3, <1>4 DEF Carried
<1>7. Excused(x) => Excused(x)'
  BY <1>1, <1>2 DEF Excused
<1>8. Calm(x) => Calm(x)'
  <2> SUFFICES ASSUME Calm(x) PROVE Calm(x)'
    OBVIOUS
  <2>1. manual \subseteq Requests /\ manual' \subseteq Requests
    BY <1>1 DEF TypeOK
  <2>2. \A r \in Requests : rkey'[r] = x => CalmRequest(r, x)'
    BY <1>1, <1>3, <2>1 DEF Calm, CalmRequest
  <2>3. \A q, r \in manual' : rkey'[q] = x /\ rkey'[r] = x => q = r
    BY <1>3, <2>1 DEF Calm
  <2>4. \A w \in Workers : wkey'[w] = x =>
          /\ wpc'[w] # "read" => log'[x] # "SENT"
          /\ wpc'[w] = "record" <=> sent'[x] = 1 /\ log'[x] # "SENT"
    BY <1>1, <1>4 DEF Calm
  <2>5. sent'[x] = 1 => log'[x] = "SENT" \/ \E w \in Workers : wkey'[w] = x
    BY <1>1, <1>4 DEF Calm
  <2> QED
    BY <1>1, <2>2, <2>3, <2>4, <2>5 DEF Calm
<1> QED
  BY <1>1, <1>5, <1>6, <1>7, <1>8

\* Requests and workers that a step leaves alone are as they were.
LEMMA StepKeeps ==
  ASSUME DeliveryInv, TypeOK', NEW k \in Keys, Elsewhere(k),
         \A r \in Requests : Asks(r)', \A w \in Workers : Delivers(w)',
         Owned(k)', Carried(k)', Excused(k)' \/ Calm(k)'
  PROVE  DeliveryInv'
<1>1. \A x \in Keys \ {k} : Owned(x)' /\ Carried(x)' /\ (Excused(x)' \/ Calm(x)')
  BY KeyKept
<1> QED
  BY <1>1 DEF DeliveryInv

\* What a step of request r has to establish.
LEMMA RequestKeeps ==
  ASSUME DeliveryInv, TypeOK', NEW r \in Requests, NEW k \in Keys,
         rkey[r] \in {k, Nobody}, rkey'[r] \in {k, Nobody},
         \A q \in Requests \ {r} :
           rkey'[q] = rkey[q] /\ rpc'[q] = rpc[q] /\ (q \in manual' <=> q \in manual),
         UNCHANGED <<wpc, wkey, sent>>, deaths <= deaths', faults <= faults',
         asked \subseteq asked', asked' \subseteq asked \cup {k},
         doubled \subseteq doubled', doubled' \subseteq doubled \cup {k},
         \A x \in Keys \ {k} : log'[x] = log[x] /\ job'[x] = job[x],
         job'[k].owner = job[k].owner, job'[k].state = "active" <=> job[k].state = "active",
         Asks(r)', Carried(k)', Excused(k)' \/ Calm(k)'
  PROVE  DeliveryInv'
<1>1. Elsewhere(k)
  BY DEF Elsewhere
<1>2. \A q \in Requests : Asks(q)'
  BY DEF DeliveryInv, Asks
<1>3. \A w \in Workers : Delivers(w)'
  <2>1. deaths' = 0 => deaths = 0
    BY DeliveryAssumption DEF DeliveryInv, TypeOK
  <2>2. \A x \in Keys : job'[x].owner = job[x].owner
    OBVIOUS
  <2>3. \A w \in Workers : wpc[w] # "idle" => wkey[w] \in Keys
    BY DEF DeliveryInv, TypeOK, Delivers
  <2> QED
    BY <2>1, <2>2, <2>3 DEF DeliveryInv, Delivers
<1>4. Owned(k)'
  BY DEF DeliveryInv, Owned
<1> QED
  BY <1>1, <1>2, <1>3, <1>4, StepKeeps

\* What a step of worker w has to establish.
LEMMA WorkerKeeps ==
  ASSUME DeliveryInv, TypeOK', NEW w \in Workers, NEW k \in Keys,
         wkey[w] \in {k, Nobody}, wkey'[w] \in {k, Nobody},
         \A v \in Workers \ {w} : wkey'[v] = wkey[v] /\ wpc'[v] = wpc[v],
         UNCHANGED <<rpc, rkey, manual, asked, doubled>>, deaths <= deaths', faults <= faults',
         \A x \in Keys \ {k} : log'[x] = log[x] /\ job'[x] = job[x] /\ sent'[x] = sent[x],
         job'[k].owner = job[k].owner \/ deaths' > 0 \/ job[k].owner \in {w, Nobody},
         Delivers(w)', Owned(k)', Carried(k)', Excused(k)' \/ Calm(k)'
  PROVE  DeliveryInv'
<1>1. Elsewhere(k)
  BY DEF Elsewhere
<1>2. \A r \in Requests : Asks(r)'
  BY DEF DeliveryInv, Asks
<1>3. \A v \in Workers : Delivers(v)'
  <2> SUFFICES ASSUME NEW v \in Workers \ {w} PROVE Delivers(v)'
    OBVIOUS
  <2>1. deaths \in Nat /\ deaths' \in Nat
    BY DeliveryAssumption DEF DeliveryInv, TypeOK
  <2>2. Delivers(v) /\ wkey'[v] = wkey[v] /\ wpc'[v] = wpc[v] /\ v # Nobody
    BY DeliveryAssumption DEF DeliveryInv
  <2>3. wpc[v] # "idle" => wkey[v] \in Keys
    BY <2>2 DEF DeliveryInv, TypeOK, Delivers
  <2> QED
    BY <2>1, <2>2, <2>3 DEF Delivers
<1> QED
  BY <1>1, <1>2, <1>3, StepKeeps

-----------------------------------------------------------------------------
Jobs == [state : {"none", "completed", "failed"} \cup Live, tries : 0..MaxAttempts,
         manual : BOOLEAN, stalls : 0..1, owner : Workers \cup {Nobody}]

\* A job that is changed in part is a job.
LEMMA JobParts ==
  ASSUME NEW j \in Jobs, NEW state \in {"waiting", "active", "completed", "failed"},
         NEW owner \in Workers \cup {Nobody}
  PROVE  /\ [j EXCEPT !.state = state] \in Jobs
         /\ [j EXCEPT !.state = state, !.owner = owner] \in Jobs
         /\ [j EXCEPT !.state = state, !.stalls = 1, !.owner = owner] \in Jobs
         /\ \A tries \in 0..MaxAttempts :
              [j EXCEPT !.state = state, !.tries = tries, !.owner = owner] \in Jobs
         /\ \A byRetry \in BOOLEAN : [j EXCEPT !.state = state, !.manual = byRetry] \in Jobs
<1>1. /\ state \in {"none", "completed", "failed"} \cup Live /\ 1 \in 0..1
      /\ j.state \in {"none", "completed", "failed"} \cup Live /\ j.tries \in 0..MaxAttempts
      /\ j.manual \in BOOLEAN /\ j.stalls \in 0..1 /\ j.owner \in Workers \cup {Nobody}
  BY DEF Jobs, Live
<1>2. j = [state |-> j.state, tries |-> j.tries, manual |-> j.manual, stalls |-> j.stalls,
           owner |-> j.owner]
  BY DEF Jobs
<1>3. [j EXCEPT !.state = state] \in Jobs
  BY <1>1, <1>2 DEF Jobs
<1>4. [j EXCEPT !.state = state, !.owner = owner] \in Jobs
  BY <1>1, <1>2 DEF Jobs
<1>5. [j EXCEPT !.state = state, !.stalls = 1, !.owner = owner] \in Jobs
  BY <1>1, <1>2 DEF Jobs
<1>6. ASSUME NEW tries \in 0..MaxAttempts
      PROVE  [j EXCEPT !.state = state, !.tries = tries, !.owner = owner] \in Jobs
  BY <1>1, <1>2 DEF Jobs
<1>7. ASSUME NEW byRetry \in BOOLEAN
      PROVE  [j EXCEPT !.state = state, !.manual = byRetry] \in Jobs
  BY <1>1, <1>2 DEF Jobs
<1> QED
  BY <1>3, <1>4, <1>5, <1>6, <1>7

\* Rows, jobs and local variables keep their types: steps of requests.
LEMMA RequestTypes ==
  ASSUME TypeOK, NEW r \in Requests,
         \/ \E k \in Keys : Send(r, k) \/ Retry(r, k)
         \/ RequestStep(r) \/ RequestDies(r)
  PROVE  TypeOK'
<1> USE DeliveryAssumption
    DEF TypeOK, requests, workers, history, bounds, LogStatuses, Live, Fault, Death, SetLog,
        Answer, GoOn
<1>1. ASSUME NEW k \in Keys, Send(r, k) \/ Retry(r, k) PROVE TypeOK'
  BY <1>1 DEF Send, Retry, Retriable, Begin
<1>2. CASE CreateLog(r)
  BY <1>2 DEF CreateLog
<1>3. CASE MarkPendingForRetry(r)
  BY <1>3 DEF MarkPendingForRetry
<1>4. CASE FindJob(r)
  BY <1>4 DEF FindJob
<1>5. CASE AddJob(r)
  <2> DEFINE new == [NoJob EXCEPT !.state = "waiting", !.manual = r \in manual]
  <2>1. new \in Jobs
    <3>1. (r \in manual) \in BOOLEAN
      OBVIOUS
    <3>2. \A b \in BOOLEAN : [NoJob EXCEPT !.state = "waiting", !.manual = b] \in Jobs
      <4>1. NoJob \in Jobs
        BY DEF NoJob, Jobs
      <4> QED
        BY <4>1, JobParts
    <3> QED
      BY <3>1, <3>2
  <2>2. job' = job \/ job' = [job EXCEPT ![rkey[r]] = new]
    BY <1>5 DEF AddJob
  <2> HIDE DEF new
  <2>3. job' \in [Keys -> Jobs]
    BY <2>1, <2>2 DEF Jobs
  <2> QED
    BY <1>5, <2>3 DEF AddJob, Jobs
<1>6. CASE ReviveJob(r)
  <2>1. job' = job \/ job' = [job EXCEPT ![rkey[r]] = [job[rkey[r]] EXCEPT !.state = "waiting"]]
    BY <1>6 DEF ReviveJob
  <2>2. job' \in [Keys -> Jobs]
    <3>1. rkey[r] \in Keys => [job[rkey[r]] EXCEPT !.state = "waiting"] \in Jobs
      <4> SUFFICES ASSUME rkey[r] \in Keys PROVE [job[rkey[r]] EXCEPT !.state = "waiting"] \in Jobs
        OBVIOUS
      <4>1. job[rkey[r]] \in Jobs
        BY DEF Jobs
      <4> QED
        BY <4>1, JobParts
    <3> QED
      BY <2>1, <3>1 DEF Jobs
  <2> QED
    BY <1>6, <2>2 DEF ReviveJob, Jobs
<1>7. CASE MarkLogFailedAfterEnqueueError(r)
  BY <1>7 DEF MarkLogFailedAfterEnqueueError
<1>8. CASE RequestDies(r)
  BY <1>8 DEF RequestDies
<1> QED
  BY <1>1, <1>2, <1>3, <1>4, <1>5, <1>6, <1>7, <1>8 DEF RequestStep

\* Steps of workers.
LEMMA WorkerTypes ==
  ASSUME DeliveryInv, NEW w \in Workers, WorkerStep(w) \/ Stall(w) \/ WorkerDies(w)
  PROVE  TypeOK'
<1> USE DeliveryAssumption
    DEF TypeOK, requests, workers, history, bounds, LogStatuses, Live, Fault, Death, SetLog,
        Work, Rest
<1>1. TypeOK /\ (wpc[w] # "idle" => wkey[w] \in Keys)
  BY DEF DeliveryInv, Delivers
<1>2. ASSUME NEW state \in {"waiting", "completed", "failed"}, NEW tries \in 0..MaxAttempts,
             wkey[w] \in Keys, EndJob(w, state, tries)
      PROVE  /\ job' \in [Keys -> [state : {"none", "completed", "failed"} \cup Live,
                                   tries : 0..MaxAttempts, manual : BOOLEAN,
                                   stalls : 0..1, owner : Workers \cup {Nobody}]]
             /\ wpc' \in [Workers -> {"idle", "read", "cancel", "mark", "send", "record",
                                      "temporary", "permanent"}]
             /\ wkey' \in [Workers -> Keys \cup {Nobody}]
  <2>1. job[wkey[w]] \in Jobs
    BY <1>1, <1>2 DEF Jobs
  <2>2. [job[wkey[w]] EXCEPT !.state = state, !.tries = tries, !.owner = Nobody] \in Jobs
    BY <2>1, JobParts
  <2>3. job' \in [Keys -> Jobs]
    BY <1>1, <1>2, <2>2 DEF EndJob, Jobs
  <2> QED
    BY <1>1, <1>2, <2>3 DEF EndJob, Jobs
<1>3. ASSUME NEW k \in Keys, Take(w, k) PROVE TypeOK'
  <2>1. [job[k] EXCEPT !.state = "active", !.owner = w] \in Jobs
    <3>1. job[k] \in Jobs
      BY <1>1 DEF Jobs
    <3> QED
      BY <3>1, JobParts
  <2>2. job' = [job EXCEPT ![k] = [job[k] EXCEPT !.state = "active", !.owner = w]]
    BY <1>1, <1>3 DEF Take
  <2>3. job' \in [Keys -> Jobs]
    BY <1>1, <2>1, <2>2 DEF Jobs
  <2> QED
    BY <1>1, <1>3, <2>3 DEF Take, Jobs
<1>4. wpc[w] # "idle" => job[wkey[w]].tries \in 0..MaxAttempts
  BY <1>1
<1>5. CASE ReadLog(w)
  <2>1. CASE EndJob(w, "completed", job[wkey[w]].tries)
    BY <1>1, <1>2, <1>4, <1>5, <2>1 DEF ReadLog
  <2>2. CASE (Work(w, "cancel") \/ Work(w, "mark")) /\ UNCHANGED job
    BY <1>1, <1>5, <2>2 DEF ReadLog
  <2> QED
    BY <1>5, <2>1, <2>2 DEF ReadLog
<1>6. CASE Cancel(w)
  BY <1>1, <1>2, <1>4, <1>6 DEF Cancel
<1>7. CASE MarkPending(w)
  BY <1>1, <1>7 DEF MarkPending
<1>8. CASE SendMessage(w)
  <2>1. sent' \in [Keys -> 0..2]
    BY <1>1, <1>8 DEF SendMessage
  <2>2. /\ wpc' \in [Workers -> {"idle", "read", "cancel", "mark", "send", "record",
                                 "temporary", "permanent"}]
        /\ wkey' = wkey
    BY <1>1, <1>8 DEF SendMessage
  <2>3. faults' \in 0..MaxFaults /\ deaths' = deaths
    BY <1>1, <1>8 DEF SendMessage
  <2> QED
    BY <1>1, <1>8, <2>1, <2>2, <2>3 DEF SendMessage
<1>9. CASE RecordSent(w)
  BY <1>1, <1>2, <1>4, <1>9 DEF RecordSent
<1>10. CASE NoteFailure(w)
  <2> DEFINE tries == job[wkey[w]].tries
             next == IF tries < MaxAttempts THEN tries + 1 ELSE tries
  <2>1. wpc[w] # "idle" /\ wkey[w] \in Keys /\ tries \in 0..MaxAttempts /\ next \in 0..MaxAttempts
    BY <1>1, <1>4, <1>10 DEF NoteFailure
  <2>2. \/ EndJob(w, "failed", next) /\ SetLog(wkey[w], "FAILED")
        \/ EndJob(w, "completed", tries) /\ SetLog(wkey[w], "FAILED")
        \/ EndJob(w, "waiting", next) /\ SetLog(wkey[w], "PENDING")
        \/ EndJob(w, "failed", next) /\ SetLog(wkey[w], "PENDING")
    BY <1>10 DEF NoteFailure
  <2>3. UNCHANGED <<old, rpc, rkey, manual, sent, asked, doubled, faults, deaths>>
    BY <1>10 DEF NoteFailure
  <2>4. log' \in [Keys -> LogStatuses]
    BY <1>1, <2>1, <2>2
  <2> HIDE DEF next, tries
  <2> QED
    BY <1>1, <1>2, <2>1, <2>2, <2>3, <2>4
<1>11. ASSUME wkey[w] \in Keys, Stalled(wkey[w])
       PROVE  job' \in [Keys -> Jobs]
  <2>1. job[wkey[w]] \in Jobs
    BY <1>1, <1>11 DEF Jobs
  <2>2. /\ [job[wkey[w]] EXCEPT !.state = "waiting", !.stalls = 1, !.owner = Nobody] \in Jobs
        /\ [job[wkey[w]] EXCEPT !.state = "failed", !.owner = Nobody] \in Jobs
    BY <2>1, JobParts
  <2> QED
    BY <1>1, <1>11, <2>2 DEF Stalled, Jobs
<1>12. CASE Stall(w)
  BY <1>1, <1>11, <1>12 DEF Stall, Jobs
<1>13. CASE WorkerDies(w)
  <2>1. job' \in [Keys -> Jobs]
    BY <1>1, <1>11, <1>13 DEF WorkerDies, Jobs
  <2> QED
    BY <1>1, <1>13, <2>1 DEF WorkerDies, Jobs
<1> QED
  BY <1>3, <1>5, <1>6, <1>7, <1>8, <1>9, <1>10, <1>12, <1>13 DEF WorkerStep

-----------------------------------------------------------------------------
\* What holds before a step about key k.
LEMMA Before ==
  ASSUME DeliveryInv, NEW k \in Keys
  PROVE  /\ TypeOK /\ k # Nobody /\ Owned(k) /\ Carried(k) /\ (Excused(k) \/ Calm(k))
         /\ manual \subseteq Requests /\ faults \in Nat /\ deaths \in Nat
         /\ \A r \in Requests : Asks(r)
         /\ \A w \in Workers : Delivers(w) /\ w # Nobody
  BY DeliveryAssumption DEF DeliveryInv, TypeOK

\* A busy request has a key.
LEMMA BusyRequest ==
  ASSUME DeliveryInv, NEW r \in Requests, rpc[r] # "idle"
  PROVE  rkey[r] \in Keys
  BY DEF DeliveryInv, TypeOK, Asks

\* A first request: nothing has been queued, or somebody retries.
LEMMA SendKeeps ==
  ASSUME DeliveryInv, NEW r \in Requests, NEW k \in Keys, Send(r, k)
  PROVE  DeliveryInv'
<1>1. TypeOK' /\ TypeOK /\ Asks(r)
  BY RequestTypes DEF DeliveryInv
<1>2. /\ rkey[r] = Nobody /\ rpc' = [rpc EXCEPT ![r] = "create"] /\ rkey' = [rkey EXCEPT ![r] = k]
      /\ log[k] = "NONE" /\ r \notin manual /\ rpc'[r] = "create" /\ rkey'[r] = k
      /\ UNCHANGED <<log, job, manual, wpc, wkey, sent, asked, doubled, faults, deaths>>
  BY <1>1 DEF Send, Begin, Asks, TypeOK, history, bounds, workers
<1>3. Asks(r)'
  BY <1>2, Before DEF Asks
<1>4. Carried(k)'
  BY <1>2, Before DEF Carried
<1>5. Excused(k)' \/ Calm(k)'
  <2> SUFFICES ASSUME ~Excused(k) PROVE Calm(k)'
    BY <1>2 DEF Excused
  <2>1. Calm(k)
    BY Before
  <2>2. \A q \in manual : rkey[q] # k
    BY <1>2, <2>1, Before DEF Calm, CalmRequest, Asks
  <2>3. \A q \in Requests : rkey'[q] = k => CalmRequest(q, k)'
    BY <1>1, <1>2, <2>1, <2>2 DEF Calm, CalmRequest, TypeOK
  <2> QED
    BY <1>1, <1>2, <2>1, <2>2, <2>3 DEF Calm, TypeOK
<1> QED
  BY <1>1, <1>2, <1>3, <1>4, <1>5, RequestKeeps DEF TypeOK

\* A request that ends changes nothing else; what is PENDING is in the queue.
LEMMA AnswerKeeps ==
  ASSUME DeliveryInv, TypeOK', NEW r \in Requests, NEW k \in Keys, rkey[r] = k, Answer(r),
         UNCHANGED <<log, job, wpc, wkey, sent, asked, doubled, faults, deaths>>,
         log[k] # "PENDING" \/ job[k].state # "none"
  PROVE  DeliveryInv'
<1>1. /\ rpc' = [rpc EXCEPT ![r] = "idle"] /\ rkey' = [rkey EXCEPT ![r] = Nobody]
      /\ rpc'[r] = "idle" /\ rkey'[r] = Nobody /\ manual' = manual \ {r} /\ k # Nobody /\ TypeOK
  BY Before DEF Answer, TypeOK
<1>2. Asks(r)'
  BY <1>1 DEF Asks
<1>3. Carried(k)'
  <2>1. job[k].state \in {"none", "completed", "failed"} \cup Live
    BY <1>1 DEF TypeOK
  <2> QED
    BY <1>1, <2>1, Before DEF Carried
<1>4. \A q \in Requests \ {r} :
        rkey'[q] = rkey[q] /\ rpc'[q] = rpc[q] /\ (q \in manual' <=> q \in manual)
  BY <1>1 DEF TypeOK
<1>5. Excused(k)' \/ Calm(k)'
  <2> SUFFICES ASSUME ~Excused(k) PROVE Calm(k)'
    BY DEF Excused
  <2>1. Calm(k)
    BY Before
  <2>2. \A q \in Requests : rkey'[q] = k => CalmRequest(q, k)'
    <3> SUFFICES ASSUME NEW q \in Requests, rkey'[q] = k PROVE CalmRequest(q, k)'
      OBVIOUS
    <3>1. q # r /\ rkey[q] = k /\ rpc'[q] = rpc[q] /\ (q \in manual' <=> q \in manual)
      BY <1>1, <1>4
    <3>2. CalmRequest(q, k)
      BY <2>1, <3>1 DEF Calm
    <3>3. \A x \in manual' : rkey'[x] = rkey[x] /\ x \in manual
      BY <1>1, <1>4, Before
    <3> QED
      BY <3>1, <3>2, <3>3 DEF CalmRequest
  <2>3. \A q, x \in manual' : rkey'[q] = k /\ rkey'[x] = k => q = x
    BY <1>1, <1>4, <2>1, Before DEF Calm
  <2> QED
    BY <2>1, <2>2, <2>3 DEF Calm
<1>6. deaths <= deaths' /\ faults <= faults'
  BY Before
<1> QED
  BY <1>1, <1>2, <1>3, <1>4, <1>5, <1>6, RequestKeeps

\* createNotificationLogOrReadExisting.
LEMMA CreateKeeps ==
  ASSUME DeliveryInv, NEW r \in Requests, NEW k \in Keys, rkey[r] = k, CreateLog(r)
  PROVE  DeliveryInv'
<1>1. TypeOK' /\ TypeOK /\ Asks(r)
  BY RequestTypes DEF DeliveryInv, RequestStep
<1>2. /\ rpc[r] = "create" /\ r \notin manual /\ manual' = manual
      /\ UNCHANGED <<job, wpc, wkey, sent, asked, doubled, faults, deaths>>
  BY <1>1 DEF CreateLog, Asks, GoOn, Answer, history, bounds, workers
<1>3. CASE log[k] = "NONE" /\ SetLog(k, "PENDING") /\ GoOn(r, "find")
  <2>1. /\ rpc' = [rpc EXCEPT ![r] = "find"] /\ rkey' = rkey /\ rpc'[r] = "find"
        /\ log' = [log EXCEPT ![k] = "PENDING"] /\ log'[k] = "PENDING"
    BY <1>1, <1>3 DEF SetLog, GoOn, TypeOK
  <2>2. Asks(r)'
    BY <1>1, <1>2, <2>1 DEF Asks
  <2>3. Carried(k)'
    BY <1>1, <1>2, <1>3, <2>1, Before DEF Carried
  <2>4. Excused(k)' \/ Calm(k)'
    <3> SUFFICES ASSUME ~Excused(k) PROVE Calm(k)'
      BY <1>2 DEF Excused
    <3>1. Calm(k)
      BY <1>1, Before
    <3>2. \A q \in manual : rkey[q] # k
      BY <1>1, <1>3, <3>1, Before DEF Calm, CalmRequest, Asks
    <3>3. \A q \in Requests : rkey'[q] = k => CalmRequest(q, k)'
      BY <1>1, <1>2, <1>3, <2>1, <3>1, <3>2 DEF Calm, CalmRequest, TypeOK
    <3> QED
      BY <1>1, <1>2, <1>3, <2>1, <3>1, <3>2, <3>3 DEF Calm, TypeOK
  <2> QED
    BY <1>1, <1>2, <2>1, <2>2, <2>3, <2>4, RequestKeeps DEF TypeOK
<1>4. CASE log[k] = "PENDING" /\ GoOn(r, "find") /\ UNCHANGED log
  <2>1. rpc' = [rpc EXCEPT ![r] = "find"] /\ rkey' = rkey /\ rpc'[r] = "find" /\ log' = log
    BY <1>1, <1>4 DEF GoOn, TypeOK
  <2>2. Asks(r)'
    BY <1>1, <1>2, <2>1 DEF Asks
  <2>3. Carried(k)'
    BY <1>1, <1>2, <2>1, Before DEF Carried
  <2>4. Excused(k)' \/ Calm(k)'
    <3> SUFFICES ASSUME ~Excused(k) PROVE Calm(k)'
      BY <1>2 DEF Excused
    <3>1. Calm(k)
      BY <1>1, Before
    <3>2. \A q \in Requests : rkey'[q] = k => CalmRequest(q, k)'
      BY <1>1, <1>2, <1>4, <2>1, <3>1 DEF Calm, CalmRequest, TypeOK
    <3> QED
      BY <1>1, <1>2, <2>1, <3>1, <3>2 DEF Calm
  <2> QED
    BY <1>1, <1>2, <2>1, <2>2, <2>3, <2>4, RequestKeeps DEF TypeOK
<1>5. CASE log[k] \notin {"NONE", "PENDING"} /\ Answer(r) /\ UNCHANGED log
  BY <1>1, <1>2, <1>5, AnswerKeeps
<1> QED
  BY <1>3, <1>4, <1>5 DEF CreateLog

\* retryLog and retryFailed: another retry of the same log under way excuses.
LEMMA RetryKeeps ==
  ASSUME DeliveryInv, NEW r \in Requests, NEW k \in Keys, Retry(r, k)
  PROVE  DeliveryInv'
<1>1. TypeOK' /\ TypeOK /\ Asks(r)
  BY RequestTypes DEF DeliveryInv
<1>2. /\ rkey[r] = Nobody /\ rpc' = [rpc EXCEPT ![r] = "mark"] /\ rkey' = [rkey EXCEPT ![r] = k]
      /\ log[k] = "FAILED" /\ rpc'[r] = "mark" /\ rkey'[r] = k /\ manual' = manual \cup {r}
      /\ r \notin manual /\ asked' = asked \cup {k} /\ doubled \subseteq doubled'
      /\ doubled' \subseteq doubled \cup {k}
      /\ (\E q \in manual : rkey[q] = k) => k \in doubled'
      /\ UNCHANGED <<log, job, wpc, wkey, sent, faults, deaths>>
  BY <1>1 DEF Retry, Retriable, Begin, Asks, TypeOK, bounds, workers
<1>3. Asks(r)'
  BY <1>2, Before DEF Asks
<1>4. Carried(k)'
  BY <1>2, Before DEF Carried
<1>5. Excused(k)' \/ Calm(k)'
  <2> SUFFICES ASSUME ~Excused(k)' PROVE Calm(k)'
    OBVIOUS
  <2>1. Calm(k) /\ \A q \in manual : rkey[q] # k
    BY <1>2, Before DEF Excused
  <2>2. \A q \in Requests \ {r} : rkey'[q] = k => rkey[q] = k /\ rpc'[q] = rpc[q]
    BY <1>1, <1>2 DEF TypeOK
  <2>3. \A q \in Requests : rkey'[q] = k => CalmRequest(q, k)'
    <3>1. CalmRequest(r, k)'
      BY <1>2 DEF CalmRequest
    <3>2. ASSUME NEW q \in Requests \ {r}, rkey'[q] = k PROVE CalmRequest(q, k)'
      <4>1. CalmRequest(q, k) /\ q \notin manual /\ q \notin manual'
        BY <1>2, <2>1, <2>2, <3>2 DEF Calm
      <4> QED
        BY <1>2, <2>2, <3>2, <4>1 DEF CalmRequest
    <3> QED
      BY <3>1, <3>2
  <2>4. \A q, x \in manual' : rkey'[q] = k /\ rkey'[x] = k => q = x
    BY <1>2, <2>1, <2>2, Before
  <2> QED
    BY <1>2, <2>1, <2>3, <2>4 DEF Calm
<1>6. \A q \in Requests \ {r} :
        rkey'[q] = rkey[q] /\ rpc'[q] = rpc[q] /\ (q \in manual' <=> q \in manual)
  BY <1>1, <1>2 DEF TypeOK
<1>7. deaths <= deaths' /\ faults <= faults'
  BY <1>2, Before
<1> QED
  BY <1>1, <1>2, <1>3, <1>4, <1>5, <1>6, <1>7, RequestKeeps

\* markLogPendingForRetry: the log is FAILED still, and its job has ended.
LEMMA MarkForRetryKeeps ==
  ASSUME DeliveryInv, NEW r \in Requests, NEW k \in Keys, rkey[r] = k, MarkPendingForRetry(r)
  PROVE  DeliveryInv'
<1>1. TypeOK' /\ TypeOK /\ Asks(r)
  BY RequestTypes DEF DeliveryInv, RequestStep
<1>2. /\ rpc[r] = "mark" /\ r \in manual /\ k \in asked /\ manual' = manual /\ rkey' = rkey
      /\ rpc' = [rpc EXCEPT ![r] = "find"] /\ rpc'[r] = "find"
      /\ log' = [log EXCEPT ![k] = "PENDING"] /\ log'[k] = "PENDING"
      /\ UNCHANGED <<job, wpc, wkey, sent, asked, doubled, faults, deaths>>
  BY <1>1 DEF MarkPendingForRetry, Asks, GoOn, SetLog, TypeOK, history, bounds, workers
<1>3. Asks(r)'
  BY <1>1, <1>2 DEF Asks
<1>4. Carried(k)'
  BY <1>2, Before DEF Carried
<1>5. \A q \in Requests \ {r} :
        rkey'[q] = rkey[q] /\ rpc'[q] = rpc[q] /\ (q \in manual' <=> q \in manual)
  BY <1>1, <1>2 DEF TypeOK
<1>6. Excused(k)' \/ Calm(k)'
  <2> SUFFICES ASSUME ~Excused(k) PROVE Calm(k)'
    BY <1>2 DEF Excused
  <2>1. Calm(k)
    BY Before
  <2>2. log[k] = "FAILED" /\ job[k].state \notin Live
    BY <1>2, <2>1 DEF Calm, CalmRequest
  <2>3. CalmRequest(r, k)'
    BY <1>2, <2>2 DEF CalmRequest
  <2>4. ASSUME NEW q \in Requests \ {r}, rkey'[q] = k PROVE CalmRequest(q, k)'
    <3>1. CalmRequest(q, k) /\ rpc'[q] = rpc[q] /\ q \notin manual
      BY <1>2, <1>5, <2>1, <2>4, Before DEF Calm
    <3> QED
      BY <1>1, <1>2, <2>2, <2>4, <3>1, Before DEF CalmRequest, Asks
  <2>5. \A v \in Workers : wkey[v] = k => (wpc[v] = "record" <=> sent[k] = 1)
    BY <2>1, <2>2 DEF Calm
  <2> QED
    BY <1>2, <2>1, <2>2, <2>3, <2>4, <2>5 DEF Calm
<1>7. deaths <= deaths' /\ faults <= faults' /\ \A x \in Keys \ {k} : log'[x] = log[x]
  BY <1>1, <1>2, Before DEF TypeOK
<1> QED
  BY <1>1, <1>2, <1>3, <1>4, <1>5, <1>6, <1>7, RequestKeeps

\* enqueueWhatsAppLog goes on to another step about the job it has found.
LEMMA FindJobKeeps ==
  ASSUME DeliveryInv, NEW r \in Requests, NEW k \in Keys, rkey[r] = k, FindJob(r)
  PROVE  DeliveryInv'
<1>1. TypeOK' /\ TypeOK /\ Asks(r)
  BY RequestTypes DEF DeliveryInv, RequestStep
<1>2. rpc[r] = "find" /\ UNCHANGED <<log, job, wpc, wkey, sent, asked, doubled, faults, deaths>>
  BY DEF FindJob, history, bounds, workers
<1>3. CASE job[k].state # "none" /\ Answer(r)
  BY <1>1, <1>2, <1>3, AnswerKeeps
<1>4. ASSUME NEW step \in {"add", "revive"}, GoOn(r, step),
             step = "add" => job[k].state = "none",
             step = "revive" => job[k].state = "failed" /\ r \in manual
      PROVE  DeliveryInv'
  <2>1. /\ rpc' = [rpc EXCEPT ![r] = step] /\ rpc'[r] = step /\ manual' = manual /\ rkey' = rkey
    BY <1>1, <1>4 DEF GoOn, TypeOK
  <2>2. Asks(r)'
    BY <1>1, <1>2, <1>4, <2>1 DEF Asks
  <2>3. Carried(k)'
    BY <1>1, <1>2, <2>1, Before DEF Carried
  <2>4. \A q \in Requests \ {r} :
          rkey'[q] = rkey[q] /\ rpc'[q] = rpc[q] /\ (q \in manual' <=> q \in manual)
    BY <1>1, <2>1 DEF TypeOK
  <2>5. Excused(k)' \/ Calm(k)'
    <3> SUFFICES ASSUME ~Excused(k) PROVE Calm(k)'
      BY <1>2 DEF Excused
    <3>1. Calm(k)
      BY Before
    <3>2. CalmRequest(r, k)'
      BY <1>2, <1>4, <2>1, <3>1 DEF Calm, CalmRequest
    <3>3. ASSUME NEW q \in Requests \ {r}, rkey'[q] = k PROVE CalmRequest(q, k)'
      BY <1>2, <2>1, <2>4, <3>1, <3>3 DEF Calm, CalmRequest
    <3> QED
      BY <1>2, <2>1, <3>1, <3>2, <3>3 DEF Calm
  <2>6. deaths <= deaths' /\ faults <= faults'
    BY <1>2, Before
  <2> QED
    BY <1>1, <1>2, <2>1, <2>2, <2>3, <2>4, <2>5, <2>6, RequestKeeps
<1> QED
  BY <1>3, <1>4 DEF FindJob

\* The queue has the job now, or had it, or refuses it.
LEMMA AddJobKeeps ==
  ASSUME DeliveryInv, NEW r \in Requests, NEW k \in Keys, rkey[r] = k, AddJob(r)
  PROVE  DeliveryInv'
<1>1. TypeOK' /\ TypeOK /\ Asks(r)
  BY RequestTypes DEF DeliveryInv, RequestStep
<1>2. rpc[r] = "add" /\ UNCHANGED <<log, wpc, wkey, sent, asked, doubled>>
  BY DEF AddJob, history, workers
<1>3. CASE job[k].state # "none" /\ job' = job /\ Answer(r) /\ UNCHANGED bounds
  BY <1>1, <1>2, <1>3, AnswerKeeps DEF bounds
<1>4. CASE /\ job[k].state = "none" /\ Answer(r) /\ UNCHANGED bounds
           /\ job' = [job EXCEPT ![k] = [NoJob EXCEPT !.state = "waiting",
                                                      !.manual = r \in manual]]
  <2>1. /\ job'[k] = [NoJob EXCEPT !.state = "waiting", !.manual = r \in manual]
        /\ \A x \in Keys \ {k} : job'[x] = job[x]
    BY <1>1, <1>4 DEF TypeOK
  <2>2. job'[k].state = "waiting" /\ job'[k].owner = Nobody /\ job[k].owner = Nobody
    <3>1. job[k].owner = Nobody
      BY <1>4, Before DEF Owned
    <3>2. job'[k].state = "waiting" /\ job'[k].owner = Nobody
      BY <2>1 DEF NoJob
    <3> QED
      BY <3>1, <3>2
  <2>3. /\ rpc' = [rpc EXCEPT ![r] = "idle"] /\ rkey' = [rkey EXCEPT ![r] = Nobody]
        /\ rpc'[r] = "idle" /\ rkey'[r] = Nobody /\ manual' = manual \ {r} /\ k # Nobody
        /\ faults' = faults /\ deaths' = deaths
    BY <1>1, <1>4, Before DEF Answer, TypeOK, bounds
  <2>4. Asks(r)'
    BY <2>3 DEF Asks
  <2>5. Carried(k)'
    BY <1>2, <2>2, <2>3, Before DEF Carried, Live
  <2>6. \A q \in Requests \ {r} :
          rkey'[q] = rkey[q] /\ rpc'[q] = rpc[q] /\ (q \in manual' <=> q \in manual)
    BY <1>1, <2>3 DEF TypeOK
  <2>7. Excused(k)' \/ Calm(k)'
    <3> SUFFICES ASSUME ~Excused(k) PROVE Calm(k)'
      BY <1>2, <2>3 DEF Excused
    <3>1. Calm(k)
      BY Before
    <3>2. log[k] = "PENDING" /\ \A q \in manual \ {r} : rkey[q] # k
      BY <1>2, <1>4, <3>1, Before DEF Calm, CalmRequest
    <3>3. ASSUME NEW q \in Requests, rkey'[q] = k PROVE CalmRequest(q, k)'
      <4>1. q # r /\ rkey[q] = k /\ rpc'[q] = rpc[q] /\ q \notin manual' /\ q \notin manual
        BY <2>3, <2>6, <3>2, <3>3
      <4>2. CalmRequest(q, k)
        BY <3>1, <4>1 DEF Calm
      <4> QED
        BY <1>1, <1>2, <2>2, <3>3, <4>1, <4>2, Before DEF CalmRequest, Asks
    <3>4. \A q, x \in manual' : rkey'[q] = k /\ rkey'[x] = k => q = x
      BY <2>3, <2>6, <3>2, Before
    <3> QED
      BY <1>2, <3>1, <3>2, <3>3, <3>4 DEF Calm
  <2>8. deaths <= deaths' /\ faults <= faults'
    BY <2>3, Before
  <2> QED
    BY <1>1, <1>2, <1>4, <2>1, <2>2, <2>3, <2>4, <2>5, <2>6, <2>7, <2>8, RequestKeeps
<1>5. CASE GoOn(r, "refuse") /\ Fault /\ UNCHANGED job
  <2>1. /\ rpc' = [rpc EXCEPT ![r] = "refuse"] /\ rpc'[r] = "refuse" /\ manual' = manual
        /\ rkey' = rkey /\ deaths' = deaths /\ faults' = faults + 1
    BY <1>1, <1>5 DEF GoOn, Fault, TypeOK
  <2>2. Asks(r)'
    BY <1>1, <1>2, <2>1 DEF Asks
  <2>3. Carried(k)'
    BY <1>2, <1>5, <2>1, Before DEF Carried
  <2>4. \A q \in Requests \ {r} :
          rkey'[q] = rkey[q] /\ rpc'[q] = rpc[q] /\ (q \in manual' <=> q \in manual)
    BY <1>1, <2>1 DEF TypeOK
  <2>5. Excused(k)' /\ deaths <= deaths' /\ faults <= faults'
    BY <2>1, Before DEF Excused
  <2> QED
    BY <1>1, <1>2, <1>5, <2>1, <2>2, <2>3, <2>4, <2>5, RequestKeeps
<1>6. \/ job[k].state # "none" /\ job' = job /\ Answer(r) /\ UNCHANGED bounds
      \/ /\ job[k].state = "none" /\ Answer(r) /\ UNCHANGED bounds
         /\ job' = [job EXCEPT ![k] = [NoJob EXCEPT !.state = "waiting",
                                                    !.manual = r \in manual]]
      \/ GoOn(r, "refuse") /\ Fault /\ UNCHANGED job
  BY DEF AddJob
<1> QED
  BY <1>3, <1>4, <1>5, <1>6

\* existingJob.retry: the log is PENDING, so that the job may go on.
LEMMA ReviveKeeps ==
  ASSUME DeliveryInv, NEW r \in Requests, NEW k \in Keys, rkey[r] = k, ReviveJob(r)
  PROVE  DeliveryInv'
<1>1. TypeOK' /\ TypeOK /\ Asks(r)
  BY RequestTypes DEF DeliveryInv, RequestStep
<1>2. /\ rpc[r] = "revive" /\ r \in manual /\ k \in asked
      /\ UNCHANGED <<log, wpc, wkey, sent, asked, doubled, faults, deaths>>
  BY <1>1 DEF ReviveJob, Asks, history, workers, bounds
<1>3. Carried(k)' /\ deaths <= deaths' /\ faults <= faults'
  BY <1>2, Before DEF Carried
<1>4. CASE job[k].state = "failed" /\ job' = [job EXCEPT ![k].state = "waiting"] /\ Answer(r)
  <2>1. job'[k] = [job[k] EXCEPT !.state = "waiting"] /\ \A x \in Keys \ {k} : job'[x] = job[x]
    BY <1>1, <1>4 DEF TypeOK
  <2>2. job'[k].state = "waiting" /\ job'[k].owner = job[k].owner
    BY <1>1, <2>1 DEF TypeOK
  <2>3. /\ rpc' = [rpc EXCEPT ![r] = "idle"] /\ rkey' = [rkey EXCEPT ![r] = Nobody]
        /\ rpc'[r] = "idle" /\ rkey'[r] = Nobody /\ manual' = manual \ {r} /\ k # Nobody
    BY <1>1, <1>4, Before DEF Answer, TypeOK
  <2>4. Asks(r)'
    BY <2>3 DEF Asks
  <2>5. \A q \in Requests \ {r} :
          rkey'[q] = rkey[q] /\ rpc'[q] = rpc[q] /\ (q \in manual' <=> q \in manual)
    BY <1>1, <2>3 DEF TypeOK
  <2>6. Excused(k)' \/ Calm(k)'
    <3> SUFFICES ASSUME ~Excused(k) PROVE Calm(k)'
      BY <1>2 DEF Excused
    <3>1. Calm(k)
      BY Before
    <3>2. log[k] = "PENDING" /\ \A q \in manual \ {r} : rkey[q] # k
      BY <1>2, <3>1, Before DEF Calm, CalmRequest
    <3>3. ASSUME NEW q \in Requests, rkey'[q] = k PROVE CalmRequest(q, k)'
      <4>1. q # r /\ rkey[q] = k /\ rpc'[q] = rpc[q] /\ q \notin manual' /\ q \notin manual
        BY <2>3, <2>5, <3>2, <3>3
      <4>2. CalmRequest(q, k)
        BY <3>1, <4>1 DEF Calm
      <4> QED
        BY <1>1, <1>2, <2>2, <3>3, <4>1, <4>2, Before DEF CalmRequest, Asks
    <3>4. \A q, x \in manual' : rkey'[q] = k /\ rkey'[x] = k => q = x
      BY <2>3, <2>5, <3>2, Before
    <3> QED
      BY <1>2, <3>1, <3>2, <3>3, <3>4 DEF Calm
  <2> QED
    BY <1>1, <1>2, <1>3, <1>4, <2>1, <2>2, <2>3, <2>4, <2>5, <2>6, RequestKeeps
<1>5. CASE job[k].state # "failed" /\ GoOn(r, "refuse") /\ UNCHANGED job
  <2>1. /\ rpc' = [rpc EXCEPT ![r] = "refuse"] /\ rpc'[r] = "refuse" /\ manual' = manual
        /\ rkey' = rkey
    BY <1>1, <1>5 DEF GoOn, TypeOK
  <2>2. Asks(r)'
    BY <1>1, <1>2, <2>1 DEF Asks
  <2>3. \A q \in Requests \ {r} :
          rkey'[q] = rkey[q] /\ rpc'[q] = rpc[q] /\ (q \in manual' <=> q \in manual)
    BY <1>1, <2>1 DEF TypeOK
  <2>4. Excused(k)'
    BY <1>2, <1>5, Before DEF Calm, CalmRequest, Excused
  <2> QED
    BY <1>1, <1>2, <1>3, <1>5, <2>1, <2>2, <2>3, <2>4, RequestKeeps
<1> QED
  BY <1>4, <1>5 DEF ReviveJob

\* A refused job, and a request that dies, come with an excuse.
LEMMA RefusedKeeps ==
  ASSUME DeliveryInv, NEW r \in Requests, NEW k \in Keys, rkey[r] = k,
         MarkLogFailedAfterEnqueueError(r) \/ RequestDies(r)
  PROVE  DeliveryInv'
<1>1. TypeOK' /\ TypeOK
  BY RequestTypes DEF DeliveryInv, RequestStep
<1>2. /\ Answer(r) /\ UNCHANGED <<job, wpc, wkey, sent, asked, doubled>>
      /\ \/ rpc[r] = "refuse" /\ log' = [log EXCEPT ![k] = "FAILED"] /\ faults' = faults /\ deaths' = deaths
         \/ log' = log /\ deaths' = deaths + 1 /\ faults' = faults
  BY DEF MarkLogFailedAfterEnqueueError, RequestDies, SetLog, Death, history, workers, bounds
<1>3. /\ rpc' = [rpc EXCEPT ![r] = "idle"] /\ rkey' = [rkey EXCEPT ![r] = Nobody]
      /\ rpc'[r] = "idle" /\ rkey'[r] = Nobody /\ manual' = manual \ {r} /\ k # Nobody
  BY <1>1, <1>2, Before DEF Answer, TypeOK
<1>4. Asks(r)'
  BY <1>3 DEF Asks
<1>5. \A q \in Requests \ {r} :
        rkey'[q] = rkey[q] /\ rpc'[q] = rpc[q] /\ (q \in manual' <=> q \in manual)
  BY <1>1, <1>3 DEF TypeOK
<1>6. Carried(k)'
  <2>1. deaths' = 0 => log'[k] = "FAILED"
    BY <1>1, <1>2, Before DEF TypeOK
  <2> QED
    BY <2>1 DEF Carried
<1>7. Excused(k)'
  BY <1>2, Before DEF Calm, CalmRequest, Excused
<1>8. deaths <= deaths' /\ faults <= faults' /\ \A x \in Keys \ {k} : log'[x] = log[x]
  BY <1>1, <1>2, Before DEF TypeOK
<1> QED
  BY <1>1, <1>2, <1>3, <1>4, <1>5, <1>6, <1>7, <1>8, RequestKeeps

-----------------------------------------------------------------------------
\* Without an excuse a busy worker has its key to itself, and no retry is at work.
LEMMA AloneAtWork ==
  ASSUME DeliveryInv, NEW w \in Workers, NEW k \in Keys, wkey[w] = k, wpc[w] # "idle",
         ~Excused(k)
  PROVE  /\ deaths = 0 /\ Calm(k) /\ job[k].state = "active" /\ job[k].owner = w
         /\ \A v \in Workers \ {w} : wkey[v] # k
         /\ \A q \in manual : rkey[q] # k
         /\ log[k] # "FAILED"
         /\ \A q \in Requests : rkey[q] = k => rpc[q] \notin {"mark", "revive", "refuse"}
<1>1. deaths = 0 /\ faults = 0 /\ Calm(k)
  BY Before DEF Excused
<1>2. job[k].owner = w /\ job[k].state = "active"
  BY <1>1, Before DEF Delivers, Owned
<1>3. \A v \in Workers \ {w} : wkey[v] # k
  BY <1>1, <1>2, Before DEF Delivers
<1>4. job[k].state \in Live
  BY <1>2 DEF Live
<1>5. log[k] # "FAILED"
  BY <1>1, <1>4 DEF Calm
<1>6. \A q \in Requests : rkey[q] = k => CalmRequest(q, k)
  BY <1>1 DEF Calm
<1>7. \A q \in Requests : rkey[q] = k => rpc[q] \notin {"mark", "revive", "refuse"}
  BY <1>2, <1>5, <1>6 DEF CalmRequest
<1>8. \A q \in manual : rkey[q] # k
  BY <1>2, <1>4, <1>5, <1>6, <1>7, Before DEF CalmRequest, Asks
<1> QED
  BY <1>1, <1>2, <1>3, <1>5, <1>7, <1>8

\* What a step of a worker that has its key to itself has to keep.
LEMMA AloneKeeps ==
  ASSUME DeliveryInv, NEW w \in Workers, NEW k \in Keys, wkey[w] = k, wpc[w] # "idle",
         ~Excused(k), UNCHANGED <<rpc, rkey, manual>>,
         \A v \in Workers \ {w} : wkey'[v] = wkey[v] /\ wpc'[v] = wpc[v],
         job'[k].state \in {"active", "completed", "failed", "waiting"},
         log'[k] = "FAILED" => job'[k].state \notin Live,
         sent'[k] \in {0, 1},
         wkey'[w] = k =>
           /\ wpc'[w] # "read" => log'[k] # "SENT"
           /\ wpc'[w] = "record" <=> sent'[k] = 1 /\ log'[k] # "SENT",
         wkey'[w] # k /\ sent'[k] = 1 => log'[k] = "SENT"
  PROVE  Calm(k)'
<1>1. /\ \A v \in Workers \ {w} : wkey[v] # k
      /\ \A q \in manual : rkey[q] # k
      /\ \A q \in Requests : rkey[q] = k => rpc[q] \notin {"mark", "revive", "refuse"}
  BY AloneAtWork
<1>2. \A q \in Requests : rkey'[q] = k => CalmRequest(q, k)'
  BY <1>1 DEF CalmRequest
<1> QED
  BY <1>1, <1>2, Before DEF Calm

\* The job of a worker that rests has ended or waits again, if the worker still
\* had it.
LEMMA EndedJob ==
  ASSUME DeliveryInv, NEW w \in Workers, NEW k \in Keys, wkey[w] = k, wpc[w] # "idle",
         NEW state \in {"waiting", "completed", "failed"}, NEW tries, EndJob(w, state, tries)
  PROVE  /\ \A x \in Keys \ {k} : job'[x] = job[x]
         /\ wkey'[w] = Nobody /\ wpc'[w] = "idle"
         /\ \A v \in Workers \ {w} : wkey'[v] = wkey[v] /\ wpc'[v] = wpc[v]
         /\ deaths = 0 => job'[k].state = state
         /\ job'[k].owner = job[k].owner \/ job[k].owner = w
         /\ Delivers(w)' /\ Owned(k)'
<1>1. TypeOK /\ k # Nobody /\ w # Nobody /\ Owned(k) /\ Delivers(w)
  BY Before
<1>2. /\ wkey' = [wkey EXCEPT ![w] = Nobody] /\ wpc' = [wpc EXCEPT ![w] = "idle"]
      /\ \A v \in Workers \ {w} : wkey'[v] = wkey[v] /\ wpc'[v] = wpc[v]
      /\ wkey'[w] = Nobody /\ wpc'[w] = "idle"
  BY <1>1 DEF EndJob, Rest, TypeOK
<1>3. Delivers(w)'
  BY <1>2 DEF Delivers
<1>4. CASE job[k].owner = w
  <2>1. job' = [job EXCEPT ![k] = [job[k] EXCEPT !.state = state, !.tries = tries, !.owner = Nobody]]
    BY <1>1, <1>4 DEF EndJob, TypeOK
  <2>2. /\ job'[k] = [job[k] EXCEPT !.state = state, !.tries = tries, !.owner = Nobody]
        /\ \A x \in Keys \ {k} : job'[x] = job[x]
    BY <1>1, <2>1 DEF TypeOK
  <2>3. job'[k].state = state /\ job'[k].owner = Nobody
    BY <1>1, <2>2 DEF TypeOK
  <2>4. Owned(k)'
    BY <2>3 DEF Owned
  <2> QED
    BY <1>2, <1>3, <1>4, <2>2, <2>3, <2>4
<1>5. CASE job[k].owner # w
  <2>1. job' = job /\ deaths # 0
    BY <1>1, <1>5 DEF EndJob, Delivers
  <2>2. Owned(k)'
    BY <1>1, <1>2, <1>5, <2>1 DEF Owned, TypeOK
  <2> QED
    BY <1>2, <1>3, <2>1, <2>2
<1> QED
  BY <1>4, <1>5

\* A worker takes a waiting job: nobody else is at work on the key.
LEMMA TakeKeeps ==
  ASSUME DeliveryInv, NEW w \in Workers, NEW k \in Keys, Take(w, k)
  PROVE  DeliveryInv'
<1>1. TypeOK' /\ TypeOK /\ k # Nobody /\ w # Nobody /\ Owned(k) /\ Delivers(w)
  BY WorkerTypes, Before DEF WorkerStep
<1>2. /\ wpc[w] = "idle" /\ wkey[w] = Nobody /\ job[k].state = "waiting" /\ job[k].owner = Nobody
      /\ job' = [job EXCEPT ![k] = [job[k] EXCEPT !.state = "active", !.owner = w]]
      /\ wpc' = [wpc EXCEPT ![w] = "read"] /\ wkey' = [wkey EXCEPT ![w] = k]
      /\ UNCHANGED <<log, rpc, rkey, manual, sent, asked, doubled, faults, deaths>>
  BY <1>1 DEF Take, Delivers, Owned, TypeOK, requests, history, bounds
<1>3. /\ job'[k] = [job[k] EXCEPT !.state = "active", !.owner = w]
      /\ \A x \in Keys \ {k} : job'[x] = job[x]
      /\ wpc'[w] = "read" /\ wkey'[w] = k
      /\ \A v \in Workers \ {w} : wkey'[v] = wkey[v] /\ wpc'[v] = wpc[v]
  BY <1>1, <1>2 DEF TypeOK
<1>4. job'[k].state = "active" /\ job'[k].owner = w
  BY <1>1, <1>3 DEF TypeOK
<1>5. Delivers(w)' /\ Owned(k)'
  BY <1>1, <1>3, <1>4 DEF Delivers, Owned
<1>6. Carried(k)' /\ deaths <= deaths' /\ faults <= faults'
  BY <1>2, <1>4, Before DEF Carried, Live
<1>7. Excused(k)' \/ Calm(k)'
  <2> SUFFICES ASSUME ~Excused(k) PROVE Calm(k)'
    BY <1>2 DEF Excused
  <2>1. Calm(k) /\ deaths = 0
    BY Before DEF Excused
  <2>2. \A v \in Workers : wkey[v] # k
    BY <1>1, <1>2, <2>1, Before DEF Delivers
  <2>3. sent[k] = 1 => log[k] = "SENT"
    BY <2>1, <2>2 DEF Calm
  <2>4. log[k] # "FAILED" /\ job[k].state \in Live
    BY <1>2, <2>1 DEF Calm, Live
  <2>5. \A q \in Requests : rkey[q] = k => CalmRequest(q, k)'
    BY <1>2, <1>4, <2>1, <2>4 DEF Calm, CalmRequest
  <2> QED
    BY <1>2, <1>3, <1>4, <2>1, <2>2, <2>3, <2>4, <2>5 DEF Calm
<1> QED
  BY <1>1, <1>2, <1>3, <1>4, <1>5, <1>6, <1>7, WorkerKeeps

\* A worker rests, and its log and job say the same.
LEMMA RestKeeps ==
  ASSUME DeliveryInv, TypeOK', NEW w \in Workers, NEW k \in Keys, wkey[w] = k, wpc[w] # "idle",
         NEW state \in {"waiting", "completed", "failed"}, NEW tries, EndJob(w, state, tries),
         UNCHANGED <<rpc, rkey, manual, sent, asked, doubled, faults, deaths>>,
         \A x \in Keys \ {k} : log'[x] = log[x],
         IF state = "waiting" THEN log'[k] = "PENDING" ELSE log'[k] \in {"SENT", "FAILED", "CANCELLED"},
         wpc[w] = "record" => log'[k] = "SENT",
         wpc[w] = "read" => log'[k] = log[k]
  PROVE  DeliveryInv'
<1>1. /\ TypeOK /\ k # Nobody
      /\ \A x \in Keys \ {k} : job'[x] = job[x]
      /\ wkey'[w] = Nobody /\ wpc'[w] = "idle"
      /\ \A v \in Workers \ {w} : wkey'[v] = wkey[v] /\ wpc'[v] = wpc[v]
      /\ deaths = 0 => job'[k].state = state
      /\ job'[k].owner = job[k].owner \/ job[k].owner = w
      /\ Delivers(w)' /\ Owned(k)'
  BY EndedJob, Before
<1>2. Carried(k)' /\ deaths <= deaths' /\ faults <= faults'
  BY <1>1, Before DEF Carried, Live
<1>3. Excused(k)' \/ Calm(k)'
  <2> SUFFICES ASSUME ~Excused(k) PROVE Calm(k)'
    BY DEF Excused
  <2>1. deaths = 0 /\ Calm(k)
    BY AloneAtWork
  <2>2. /\ sent[k] \in {0, 1} /\ (wpc[w] = "record" <=> sent[k] = 1 /\ log[k] # "SENT")
        /\ wpc[w] # "read" => log[k] # "SENT"
    BY <2>1 DEF Calm
  <2> QED
    BY <1>1, <2>1, <2>2, AloneKeeps DEF Live
<1> QED
  BY <1>1, <1>2, <1>3, WorkerKeeps

\* Faults and deaths are counted together.
LEMMA SumOfNaturals == \A m, n \in Nat : m + n > 0 \/ (m = 0 /\ n = 0)
  OBVIOUS

\* A worker goes on to another step.
LEMMA WorkKeeps ==
  ASSUME DeliveryInv, TypeOK', NEW w \in Workers, NEW k \in Keys, wkey[w] = k, wpc[w] # "idle",
         NEW step \in {"cancel", "mark", "send", "record", "temporary", "permanent"}, Work(w, step),
         UNCHANGED <<job, rpc, rkey, manual, asked, doubled, deaths>>, faults <= faults',
         \A x \in Keys \ {k} : log'[x] = log[x] /\ sent'[x] = sent[x],
         log'[k] \in {log[k], "PENDING"},
         \/ faults < faults'
         \/ step # "record" /\ sent' = sent /\ wpc[w] # "record"
         \/ /\ step = "record" /\ wpc[w] # "record" /\ log' = log
            /\ sent' = [sent EXCEPT ![k] = IF @ < 2 THEN @ + 1 ELSE @],
         wpc[w] = "read" => log[k] # "SENT"
  PROVE  DeliveryInv'
<1>1. TypeOK /\ k # Nobody /\ w # Nobody /\ Owned(k) /\ Delivers(w)
  BY Before
<1>2. /\ wpc'[w] = step /\ wkey' = wkey
      /\ \A v \in Workers \ {w} : wkey'[v] = wkey[v] /\ wpc'[v] = wpc[v]
  BY <1>1 DEF Work, TypeOK
<1>3. Delivers(w)' /\ Owned(k)'
  BY <1>1, <1>2 DEF Delivers, Owned
<1>4. Carried(k)'
  BY <1>1, <1>2, Before DEF Carried, Delivers, Owned
<1>5. Excused(k)' \/ Calm(k)'
  <2> SUFFICES ASSUME ~Excused(k)' PROVE Calm(k)'
    OBVIOUS
  <2>1. ~Excused(k) /\ faults' = faults
    <3>1. faults \in Nat /\ deaths \in Nat /\ faults' \in Nat
      BY <1>1, DeliveryAssumption DEF TypeOK
    <3>2. ~(faults' + deaths' > 0)
      BY DEF Excused
    <3>3. k \notin doubled'
      BY DEF Excused
    <3>4. deaths' = deaths /\ doubled' = doubled /\ faults <= faults'
      OBVIOUS
    <3>5. faults' = 0 /\ deaths' = 0
      BY <3>1, <3>2, <3>4, SumOfNaturals, Zenon
    <3>6. faults = 0 /\ deaths = 0
      BY <3>1, <3>4, <3>5
    <3> QED
      BY <3>3, <3>4, <3>5, <3>6 DEF Excused
  <2>2. deaths = 0 /\ Calm(k) /\ log[k] # "FAILED" /\ job[k].state = "active"
    BY <2>1, AloneAtWork
  <2>3. log[k] # "SENT" /\ wpc[w] # "record"
    BY <1>1, <2>1, <2>2 DEF TypeOK, Calm
  <2>4. sent[k] = 0
    BY <2>2, <2>3 DEF Calm
  <2>5. sent'[k] = IF step = "record" THEN 1 ELSE 0
    BY <1>1, <2>1, <2>4 DEF TypeOK
  <2> QED
    BY <1>2, <2>1, <2>2, <2>3, <2>5, AloneKeeps
<1> QED
  BY <1>1, <1>2, <1>3, <1>4, <1>5, Before, WorkerKeeps

\* deliverQueuedWhatsApp, from its first read to the provider's answer.
LEMMA DeliverKeeps ==
  ASSUME DeliveryInv, NEW w \in Workers, NEW k \in Keys, wkey[w] = k,
         ReadLog(w) \/ Cancel(w) \/ MarkPending(w) \/ SendMessage(w) \/ RecordSent(w) \/ NoteFailure(w)
  PROVE  DeliveryInv'
<1> DEFINE j == job[k]
<1>1. TypeOK' /\ TypeOK /\ k # Nobody /\ faults \in Nat /\ deaths \in Nat
  BY WorkerTypes, Before DEF WorkerStep
<1>2. UNCHANGED <<rpc, rkey, manual, asked, doubled>> /\ deaths' = deaths
  BY DEF ReadLog, Cancel, MarkPending, SendMessage, RecordSent, NoteFailure, Fault, requests,
         history, bounds
<1>4. CASE ReadLog(w)
  <2>1. wpc[w] = "read" /\ UNCHANGED <<log, sent, faults>>
    BY <1>4 DEF ReadLog, history, bounds
  <2>2. CASE AlreadySent(k) /\ EndJob(w, "completed", j.tries)
    BY <1>1, <1>2, <2>1, <2>2, RestKeeps DEF AlreadySent
  <2>3. ASSUME NEW step \in {"cancel", "mark"}, ~AlreadySent(k), Work(w, step), UNCHANGED job
        PROVE  DeliveryInv'
    BY <1>1, <1>2, <2>1, <2>3, WorkKeeps DEF AlreadySent
  <2> QED
    BY <1>4, <2>2, <2>3 DEF ReadLog
<1>5. CASE Cancel(w)
  <2>1. /\ wpc[w] = "cancel" /\ EndJob(w, "completed", j.tries) /\ UNCHANGED <<sent, faults>>
        /\ log' = [log EXCEPT ![k] = "CANCELLED"]
    BY <1>5 DEF Cancel, SetLog, history, bounds
  <2>2. log'[k] = "CANCELLED" /\ \A x \in Keys \ {k} : log'[x] = log[x]
    BY <1>1, <2>1 DEF TypeOK
  <2> QED
    BY <1>1, <1>2, <2>1, <2>2, RestKeeps
<1>6. CASE MarkPending(w)
  <2>1. /\ wpc[w] = "mark" /\ Work(w, "send") /\ UNCHANGED <<job, sent, faults>>
        /\ log' = [log EXCEPT ![k] = "PENDING"]
    BY <1>6 DEF MarkPending, SetLog, history, bounds
  <2>2. log'[k] = "PENDING" /\ \A x \in Keys \ {k} : log'[x] = log[x]
    BY <1>1, <2>1 DEF TypeOK
  <2> QED
    BY <1>1, <1>2, <2>1, <2>2, WorkKeeps
<1>7. CASE SendMessage(w)
  <2>1. wpc[w] = "send" /\ UNCHANGED <<log, job>>
    BY <1>7 DEF SendMessage
  <2>2. CASE /\ sent' = [sent EXCEPT ![k] = IF @ < 2 THEN @ + 1 ELSE @]
             /\ Work(w, "record") /\ UNCHANGED bounds
    <3>1. \A x \in Keys \ {k} : sent'[x] = sent[x]
      BY <1>1, <2>2 DEF TypeOK
    <3>2. wpc[w] # "idle" /\ wpc[w] # "record" /\ wpc[w] # "read" /\ faults <= faults'
      BY <1>1, <2>1, <2>2 DEF bounds
    <3>3. \/ "record" # "record" /\ sent' = sent /\ wpc[w] # "record"
          \/ /\ "record" = "record" /\ wpc[w] # "record" /\ log' = log
             /\ sent' = [sent EXCEPT ![k] = IF @ < 2 THEN @ + 1 ELSE @]
      BY <2>1, <2>2, <3>2
    <3> QED
      BY <1>1, <1>2, <2>1, <2>2, <3>1, <3>2, <3>3, WorkKeeps DEF bounds
  <2>3. CASE /\ sent' = [sent EXCEPT ![k] = IF @ < 2 THEN @ + 1 ELSE @]
             /\ Work(w, "temporary") /\ Fault
    <3>1. (\A x \in Keys \ {k} : sent'[x] = sent[x]) /\ faults < faults' /\ faults <= faults'
      BY <1>1, <2>3 DEF TypeOK, Fault
    <3> QED
      BY <1>1, <1>2, <2>1, <2>3, <3>1, WorkKeeps
  <2>4. ASSUME NEW step \in {"temporary", "permanent"}, Work(w, step), UNCHANGED <<sent, bounds>>
        PROVE  DeliveryInv'
    BY <1>1, <1>2, <2>1, <2>4, WorkKeeps DEF bounds
  <2> QED
    BY <1>7, <2>2, <2>3, <2>4 DEF SendMessage
<1>8. CASE RecordSent(w)
  <2>1. wpc[w] = "record" /\ UNCHANGED sent
    BY <1>8 DEF RecordSent, history
  <2>2. CASE SetLog(k, "SENT") /\ EndJob(w, "completed", j.tries) /\ UNCHANGED bounds
    <3>1. log'[k] = "SENT" /\ \A x \in Keys \ {k} : log'[x] = log[x]
      BY <1>1, <2>2 DEF TypeOK, SetLog
    <3> QED
      BY <1>1, <1>2, <2>1, <2>2, <3>1, RestKeeps DEF bounds
  <2>3. CASE Work(w, "temporary") /\ Fault /\ UNCHANGED <<log, job>>
    <3>1. faults < faults' /\ faults <= faults'
      BY <1>1, <2>3 DEF Fault
    <3> QED
      BY <1>1, <1>2, <2>1, <2>3, <3>1, WorkKeeps
  <2> QED
    BY <1>8, <2>2, <2>3 DEF RecordSent
<1>9. CASE NoteFailure(w)
  <2> DEFINE next == IF j.tries < MaxAttempts THEN j.tries + 1 ELSE j.tries
  <2>1. wpc[w] \in {"permanent", "temporary"} /\ UNCHANGED <<sent, faults>>
    BY <1>9 DEF NoteFailure, history, bounds
  <2>2. \/ SetLog(k, "FAILED") /\ EndJob(w, "failed", next)
        \/ SetLog(k, "FAILED") /\ EndJob(w, "completed", j.tries)
        \/ SetLog(k, "PENDING") /\ EndJob(w, "waiting", next)
    <3>1. j.tries \in 0..MaxAttempts
      BY <1>1 DEF TypeOK
    <3>2. ~IsFinal(j.tries) => next < MaxAttempts
      BY <3>1, DeliveryAssumption DEF IsFinal
    <3> QED
      BY <1>9, <3>2 DEF NoteFailure
  <2>3. \A outcome : SetLog(k, outcome) =>
          log'[k] = outcome /\ \A x \in Keys \ {k} : log'[x] = log[x]
    BY <1>1 DEF SetLog, TypeOK
  <2> HIDE DEF next
  <2>4. CASE SetLog(k, "FAILED") /\ EndJob(w, "failed", next)
    BY <1>1, <1>2, <2>1, <2>3, <2>4, RestKeeps
  <2>5. CASE SetLog(k, "FAILED") /\ EndJob(w, "completed", j.tries)
    BY <1>1, <1>2, <2>1, <2>3, <2>5, RestKeeps
  <2>6. CASE SetLog(k, "PENDING") /\ EndJob(w, "waiting", next)
    BY <1>1, <1>2, <2>1, <2>3, <2>6, RestKeeps
  <2> QED
    BY <2>2, <2>4, <2>5, <2>6
<1> QED
  BY <1>4, <1>5, <1>6, <1>7, <1>8, <1>9

\* A worker that dies or stalls is an excuse; its job, if it had it, has no owner.
LEMMA DeathKeeps ==
  ASSUME DeliveryInv, NEW w \in Workers, NEW k \in Keys, wkey[w] = k, Stall(w) \/ WorkerDies(w)
  PROVE  DeliveryInv'
<1>1. TypeOK' /\ TypeOK /\ k # Nobody /\ w # Nobody /\ Owned(k) /\ faults \in Nat /\ deaths \in Nat
  BY WorkerTypes, Before
<1>2. /\ wpc[w] # "idle" /\ deaths' = deaths + 1 /\ faults' = faults
      /\ UNCHANGED <<log, rpc, rkey, manual, sent, asked, doubled>>
  BY DEF Stall, WorkerDies, Death, requests, history
<1>3. Excused(k)' /\ Carried(k)'
  BY <1>1, <1>2 DEF Excused, Carried
<1>4. \/ wkey'[w] = k /\ wpc'[w] = wpc[w]
      \/ wkey'[w] = Nobody /\ wpc'[w] = "idle"
  BY <1>1 DEF Stall, WorkerDies, Rest, TypeOK, workers
<1>5. \A v \in Workers \ {w} : wkey'[v] = wkey[v] /\ wpc'[v] = wpc[v]
  BY <1>1 DEF Stall, WorkerDies, Rest, TypeOK, workers
<1>6. Delivers(w)'
  BY <1>1, <1>2, <1>4 DEF Delivers
<1>7. CASE job[k].owner = w /\ Stalled(k)
  <2>1. \A x \in Keys \ {k} : job'[x] = job[x]
    BY <1>1, <1>7 DEF Stalled, TypeOK
  <2>2. job'[k].owner = Nobody /\ job'[k].state \in {"waiting", "failed"}
    <3>1. job'[k] = IF job[k].stalls = 0
                    THEN [job[k] EXCEPT !.state = "waiting", !.stalls = 1, !.owner = Nobody]
                    ELSE [job[k] EXCEPT !.state = "failed", !.owner = Nobody]
      BY <1>1, <1>7 DEF Stalled, TypeOK
    <3> QED
      BY <1>1, <3>1 DEF TypeOK
  <2>3. Owned(k)'
    BY <2>2 DEF Owned
  <2> QED
    BY <1>1, <1>2, <1>3, <1>4, <1>5, <1>6, <1>7, <2>1, <2>3, WorkerKeeps
<1>8. CASE job[k].owner # w /\ job' = job
  <2>1. Owned(k)'
    BY <1>1, <1>4, <1>5, <1>8 DEF Owned, TypeOK
  <2> QED
    BY <1>1, <1>2, <1>3, <1>4, <1>5, <1>6, <1>8, <2>1, WorkerKeeps
<1> QED
  BY <1>7, <1>8 DEF Stall, WorkerDies

\* Nothing but a completed job without a request goes away; the age of a log is
\* not looked at here.
LEMMA EvictKeeps ==
  ASSUME DeliveryInv, NEW k \in Keys, Evict(k)
  PROVE  DeliveryInv'
<1>1. /\ TypeOK /\ Owned(k) /\ Carried(k) /\ faults \in Nat /\ deaths \in Nat
      /\ \A r \in Requests : rkey[r] # k
      /\ job[k].state = "completed" /\ job' = [job EXCEPT ![k] = NoJob]
      /\ UNCHANGED <<log, old, rpc, rkey, manual, wpc, wkey, sent, asked, doubled, faults, deaths>>
  BY Before DEF Evict, requests, workers, history, bounds
<1>2. job'[k] = NoJob /\ \A x \in Keys \ {k} : job'[x] = job[x]
  BY <1>1 DEF TypeOK
<1>3. TypeOK'
  <2>1. NoJob \in Jobs
    BY DeliveryAssumption DEF NoJob, Jobs
  <2>2. job' \in [Keys -> Jobs]
    BY <1>1, <2>1 DEF TypeOK, Jobs
  <2> QED
    BY <1>1, <2>2 DEF TypeOK, Jobs
<1>4. job'[k].state = "none" /\ job'[k].owner = Nobody
  BY <1>2 DEF NoJob
<1>5. Elsewhere(k)
  BY <1>1, <1>2 DEF Elsewhere
<1>6. \A r \in Requests : Asks(r)'
  BY <1>1, Before DEF Asks
<1>7. \A w \in Workers : Delivers(w)'
  <2> SUFFICES ASSUME NEW w \in Workers PROVE Delivers(w)'
    OBVIOUS
  <2>1. Delivers(w) /\ w # Nobody /\ (wpc[w] # "idle" => wkey[w] \in Keys)
    BY <1>1, Before DEF Delivers, TypeOK
  <2> QED
    BY <1>1, <1>2, <2>1 DEF Delivers, Owned
<1>8. Owned(k)'
  BY <1>4 DEF Owned
<1>9. Carried(k)'
  BY <1>1, <1>4 DEF Carried
<1>10. Excused(k)' \/ Calm(k)'
  <2> SUFFICES ASSUME ~Excused(k) PROVE Calm(k)'
    BY <1>1 DEF Excused
  <2>1. Calm(k)
    BY Before
  <2> QED
    BY <1>1, <1>4, <2>1, Before DEF Calm, Live
<1> QED
  BY <1>3, <1>5, <1>6, <1>7, <1>8, <1>9, <1>10, StepKeeps

\* A log that grows old, or a step that leaves everything alone.
LEMMA IdleKeeps ==
  ASSUME DeliveryInv, UNCHANGED vars \/ \E k \in Keys : Age(k)
  PROVE  DeliveryInv'
<1>1. /\ old' \subseteq Keys
      /\ UNCHANGED <<log, job, rpc, rkey, manual, wpc, wkey, sent, asked, doubled, faults, deaths>>
  BY DEF DeliveryInv, TypeOK, Age, vars, requests, workers, history, bounds
<1>2. TypeOK'
  BY <1>1 DEF DeliveryInv, TypeOK
<1>3. (\A r \in Requests : Asks(r)') /\ \A w \in Workers : Delivers(w)'
  BY <1>1 DEF DeliveryInv, Asks, Delivers
<1>4. ASSUME NEW k \in Keys PROVE Owned(k)' /\ Carried(k)' /\ (Excused(k)' \/ Calm(k)')
  <2>1. Owned(k)' /\ Carried(k)'
    BY <1>1, Before DEF Owned, Carried
  <2>2. Excused(k)' <=> Excused(k)
    BY <1>1 DEF Excused
  <2>3. Calm(k) => Calm(k)'
    BY <1>1 DEF Calm, CalmRequest
  <2> QED
    BY <2>1, <2>2, <2>3, Before
<1> QED
  BY <1>2, <1>3, <1>4 DEF DeliveryInv

-----------------------------------------------------------------------------
\* Every step keeps the invariant.
LEMMA DeliveryStep == DeliveryInv /\ [Next]_vars => DeliveryInv'
<1> SUFFICES ASSUME DeliveryInv, [Next]_vars PROVE DeliveryInv'
  OBVIOUS
<1>1. ASSUME NEW r \in Requests, NEW k \in Keys, Send(r, k) \/ Retry(r, k) PROVE DeliveryInv'
  BY <1>1, SendKeeps, RetryKeeps
<1>2. ASSUME NEW r \in Requests, RequestStep(r) \/ RequestDies(r) PROVE DeliveryInv'
  <2>1. rkey[r] \in Keys
    BY <1>2, BusyRequest
          DEF RequestStep, RequestDies, CreateLog, MarkPendingForRetry, FindJob, AddJob, ReviveJob,
              MarkLogFailedAfterEnqueueError
  <2>2. PICK k \in Keys : rkey[r] = k
    BY <2>1
  <2> QED
    BY <1>2, <2>2, CreateKeeps, MarkForRetryKeeps, FindJobKeeps, AddJobKeeps, ReviveKeeps, RefusedKeeps
    DEF RequestStep
<1>3. ASSUME NEW w \in Workers, WorkerStep(w) \/ Stall(w) \/ WorkerDies(w) PROVE DeliveryInv'
  <2>1. CASE \E k \in Keys : Take(w, k)
    BY <2>1, TakeKeeps
  <2>2. CASE ~(\E k \in Keys : Take(w, k))
    <3>1. wpc[w] # "idle"
      BY <1>3, <2>2 DEF WorkerStep, ReadLog, Cancel, MarkPending, SendMessage, RecordSent, NoteFailure,
                        Stall, WorkerDies
    <3>2. PICK k \in Keys : wkey[w] = k
      BY <3>1 DEF DeliveryInv, TypeOK, Delivers
    <3> QED
      BY <1>3, <2>2, <3>2, DeliverKeeps, DeathKeeps DEF WorkerStep
  <2> QED
    BY <2>1, <2>2
<1>4. ASSUME NEW k \in Keys, Age(k) \/ Evict(k) PROVE DeliveryInv'
  BY <1>4, EvictKeeps, IdleKeeps
<1>5. CASE UNCHANGED vars
  BY <1>5, IdleKeeps
<1> QED
  BY <1>1, <1>2, <1>3, <1>4, <1>5 DEF Next

\* Whoever rewrites a log that is SENT has an excuse.
LEMMA SentKept ==
  ASSUME DeliveryInv, Next, NEW k \in Keys, log[k] = "SENT", log'[k] # "SENT"
  PROVE  Excused(k)
<1>1. TypeOK /\ k # Nobody
  BY Before
<1>2. ASSUME NEW r \in Requests, log' = [log EXCEPT ![rkey[r]] = "FAILED"], rpc[r] = "refuse"
      PROVE  Excused(k)
  <2>1. rkey[r] = k
    BY <1>1, <1>2 DEF TypeOK
  <2> QED
    BY <1>2, <2>1, Before DEF Calm, CalmRequest
<1>3. ASSUME NEW r \in Requests, log' = [log EXCEPT ![rkey[r]] = "PENDING"], rpc[r] = "mark"
      PROVE  Excused(k)
  <2>1. rkey[r] = k
    BY <1>1, <1>3 DEF TypeOK
  <2> QED
    BY <1>3, <2>1, Before DEF Calm, CalmRequest
<1>4. ASSUME NEW r \in Requests, RequestStep(r) PROVE Excused(k)
  <2>1. ~CreateLog(r)
    BY <1>1 DEF CreateLog, SetLog, TypeOK
  <2> QED
    BY <1>2, <1>3, <1>4, <2>1
    DEF RequestStep, MarkPendingForRetry, FindJob, AddJob, ReviveJob,
        MarkLogFailedAfterEnqueueError, SetLog
<1>5. ASSUME NEW w \in Workers, NEW outcome, SetLog(wkey[w], outcome), outcome # "SENT",
             wpc[w] \notin {"idle", "read"}
      PROVE  Excused(k)
  <2>1. wkey[w] = k
    BY <1>1, <1>5 DEF SetLog, TypeOK
  <2> QED
    BY <1>5, <2>1, Before DEF Calm
<1>6. ASSUME NEW w \in Workers, WorkerStep(w) PROVE Excused(k)
  <2>1. ~RecordSent(w)
    BY <1>1 DEF RecordSent, SetLog, TypeOK
  <2>2. CASE Cancel(w)
    BY <1>5, <2>2 DEF Cancel
  <2>3. CASE MarkPending(w)
    BY <1>5, <2>3 DEF MarkPending
  <2>4. CASE NoteFailure(w)
    <3>1. (SetLog(wkey[w], "FAILED") \/ SetLog(wkey[w], "PENDING")) /\ wpc[w] \in {"permanent", "temporary"}
      BY <2>4 DEF NoteFailure
    <3> QED
      BY <1>5, <3>1
  <2> QED
    BY <1>6, <2>1, <2>2, <2>3, <2>4 DEF WorkerStep, Take, ReadLog, SendMessage
<1> QED
  BY <1>4, <1>6 DEF Next, Send, Retry, RequestDies, Stall, WorkerDies, Age, Evict

\* PendingHasCarrier and ResendsAreExcused are part of the invariant.
LEMMA Carries == DeliveryInv => PendingHasCarrier
  BY DEF DeliveryInv, PendingHasCarrier, Carried
LEMMA Excuses == DeliveryInv => ResendsAreExcused
  BY DEF DeliveryInv, ResendsAreExcused, Calm, TypeOK

-----------------------------------------------------------------------------
\* The inductive invariant: types, who serves which key, and what requests,
\* workers and jobs of a key can be while nothing excuses a second message.
THEOREM DeliveryInductive == Spec => []DeliveryInv
  BY DeliveryInit, DeliveryStep, PTL DEF Spec

\* sendRegistrationQr and deliverQueuedWhatsApp: nobody gets a message twice but
\* for a fault, a death or overlapping retries.
THEOREM ResendsExcused == Spec => []ResendsAreExcused
  BY DeliveryInductive, Excuses, PTL

\* enqueueWhatsAppLog: a PENDING log has a job or somebody at work, but for a
\* death or an operator's retry.
THEOREM PendingCarried == Spec => []PendingHasCarrier
  BY DeliveryInductive, Carries, PTL

\* markLogPendingForRetry, the attempts and the error paths take SENT back only
\* with an excuse.
THEOREM SentStays == Spec => SentStaysSent
<1>1. DeliveryInv /\ [Next]_vars =>
        [\A k \in Keys : (log[k] = "SENT" /\ log'[k] # "SENT") => Excused(k)]_vars
  BY SentKept
<1> QED
  BY <1>1, DeliveryInductive, PTL DEF Spec, SentStaysSent

-----------------------------------------------------------------------------
(* TicketRequests: who has a link.                                         *)

Claimed == {"resolve", "notify", "consume"}

\* A link lives as long as its registration, and no link is bound to nobody.
LinkLives ==
  /\ link.made => status \in {"ACTIVE", "BLOCKED"}
  /\ ~link.made => link.phone = None

\* A handler works on a delivery.
Handling == \A h \in Handlers : pc[h] # "idle" => cur[h] \in Deliveries

\* A handler that went past the claim has the link to itself, or the registration
\* was removed with the link.
ClaimHolds ==
  \A h \in Handlers : pc[h] \in Claimed =>
    \/ link.made /\ link.phone = From(h)
    \/ ~link.made /\ status = "removed"

\* A handler that is past the notification made its log.
SentFirst ==
  \A h \in Handlers : pc[h] \in {"consume", "PROCESSED"} /\ status # "removed" =>
    recipient[cur[h]] # None

RInv ==
  /\ RequestTypeOK /\ LinkLives /\ Handling /\ ClaimHolds /\ SentFirst
  /\ OneSender /\ ConsumedWasSent

-----------------------------------------------------------------------------
\* Nothing is bound, sent or recorded at first.
LEMMA RInvInit == RequestInit => RInv
  BY RequestAssumption
  DEF RequestInit, RInv, RequestTypeOK, LinkLives, Handling, ClaimHolds, SentFirst, OneSender,
      ConsumedWasSent, NoLink, Settled, Claimed

\* What the link, its registration and the administrators do.
LEMMA LinkStep ==
  ASSUME RInv, Register \/ CreateLink \/ Expire \/ Administer
  PROVE  RInv'
<1> USE DEF RInv, RequestTypeOK, handlers, limits
<1>1. CASE Register
  BY <1>1 DEF Register, LinkLives, Handling, ClaimHolds, SentFirst, OneSender,
              ConsumedWasSent, From
<1>2. CASE CreateLink
  <2>1. \A d \in Deliveries : recipient[d] = None
    BY <1>2, RequestAssumption DEF CreateLink, OneSender, LinkLives
  <2> QED
    BY <1>2, <2>1 DEF CreateLink, NewLink, NoLink, LinkLives, Handling, ClaimHolds,
                      SentFirst, OneSender, ConsumedWasSent, From
<1>3. CASE Expire
  BY <1>3 DEF Expire, LinkLives, Handling, ClaimHolds, SentFirst, OneSender,
              ConsumedWasSent, From
<1>4. CASE Administer /\ status' # "removed"
  BY <1>4 DEF Administer, LinkLives, Handling, ClaimHolds, SentFirst, OneSender,
              ConsumedWasSent, From
<1>5. CASE Administer /\ status' = "removed"
  <2>1. link' = NoLink /\ recipient' = [d \in Deliveries |-> None] /\ UNCHANGED <<delivery, pc, cur, dropped, drops>>
    BY <1>5 DEF Administer
  <2>2. changes' \in Nat
    BY <1>5 DEF Administer
  <2>3. RequestTypeOK' /\ LinkLives' /\ OneSender' /\ ConsumedWasSent'
    BY <1>5, <2>1, <2>2 DEF NoLink, LinkLives, OneSender, ConsumedWasSent
  <2>4. Handling' /\ ClaimHolds' /\ SentFirst'
    BY <1>5, <2>1 DEF NoLink, Handling, ClaimHolds, SentFirst
  <2> QED
    BY <2>3, <2>4
<1> QED
  BY <1>1, <1>2, <1>3, <1>4, <1>5

\* Until it sends, a handler looks at the registration and at the link.
LEMMA LookStep ==
  ASSUME RInv, NEW h \in Handlers,
         Check(h) \/ Claim(h) \/ Reread(h) \/ Resolve(h)
  PROVE  RInv'
<1> DEFINE looked == UNCHANGED <<status, link, delivery, recipient, cur, dropped, drops, changes>>
<1>1. /\ looked
      /\ pc[h] \in {"check", "claim", "reread", "resolve"}
      /\ \E step \in {"IGNORED", "REJECTED", "claim", "bind", "resolve", "notify"} :
           /\ pc' = [pc EXCEPT ![h] = step]
           /\ step \in Claimed => pc[h] \in Claimed \/ (link.made /\ link.phone = From(h))
  BY DEF Check, Claim, Reread, Resolve, Goto, Valid, limits, Claimed
<1>2. RequestTypeOK' /\ LinkLives' /\ OneSender' /\ ConsumedWasSent'
  BY <1>1 DEF RInv, RequestTypeOK, LinkLives, OneSender, ConsumedWasSent
<1>3. Handling' /\ SentFirst'
  BY <1>1 DEF RInv, RequestTypeOK, Handling, SentFirst
<1>4. ClaimHolds'
  BY <1>1 DEF RInv, RequestTypeOK, ClaimHolds, Claimed, From
<1> QED
  BY <1>2, <1>3, <1>4 DEF RInv

\* A link is bound once: while it is bound to nobody, no handler has claimed it
\* and no log was made.
LEMMA BindStep ==
  ASSUME RInv, NEW h \in Handlers, Bind(h)
  PROVE  RInv'
<1> USE DEF RInv, RequestTypeOK, limits
<1>1. CASE link.made /\ link.phone = None
  <2>1. /\ link' = [link EXCEPT !.phone = From(h)]
        /\ pc' = [pc EXCEPT ![h] = "resolve"] /\ pc[h] = "bind"
        /\ UNCHANGED <<status, delivery, recipient, cur, dropped, drops, changes>>
    BY <1>1 DEF Bind, Goto
  <2>2. \A d \in Deliveries : recipient[d] = None
    BY <1>1 DEF OneSender
  <2>3. cur[h] \in Deliveries /\ From(h) # None
    BY <2>1, RequestAssumption DEF Handling, From
  <2>4. \A g \in Handlers : pc[g] \notin Claimed
    <3>1. ASSUME NEW g \in Handlers, pc[g] \in Claimed PROVE FALSE
      <4>1. From(g) = None
        BY <1>1, <3>1 DEF ClaimHolds
      <4>2. cur[g] \in Deliveries
        BY <3>1 DEF Handling, Claimed
      <4> QED
        BY <4>1, <4>2, RequestAssumption DEF From
    <3> QED
      BY <3>1
  <2>5. RequestTypeOK' /\ LinkLives'
    BY <1>1, <2>1, <2>3 DEF LinkLives, From
  <2>6. OneSender' /\ ConsumedWasSent'
    BY <2>1, <2>2 DEF OneSender, ConsumedWasSent
  <2>7. Handling' /\ SentFirst'
    BY <2>1 DEF Handling, SentFirst
  <2>8. ClaimHolds'
    BY <1>1, <2>1, <2>4 DEF ClaimHolds, From, Claimed
  <2> QED
    BY <2>5, <2>6, <2>7, <2>8
<1>2. CASE ~(link.made /\ link.phone = None)
  BY <1>2 DEF Bind, Goto, LinkLives, Handling, ClaimHolds, SentFirst, OneSender,
              ConsumedWasSent, From, Claimed
<1> QED
  BY <1>1, <1>2

\* What is sent goes to the account that has the link.
LEMMA NotifyStep ==
  ASSUME RInv, NEW h \in Handlers, Notify(h)
  PROVE  RInv'
<1> USE DEF RInv, RequestTypeOK, limits
<1>1. /\ pc[h] = "notify" /\ cur[h] \in Deliveries
      /\ UNCHANGED <<status, link, delivery, cur, dropped, drops, changes>>
  BY DEF Notify, Goto, Handling
<1>2. CASE Sent(h)
  <2>1. /\ status = "ACTIVE" /\ recipient' = [recipient EXCEPT ![cur[h]] = From(h)]
        /\ \E step \in {"consume", "REJECTED"} : pc' = [pc EXCEPT ![h] = step]
    BY <1>2 DEF Notify, Sent, Goto
  <2>2. link.made /\ link.phone = From(h) /\ From(h) # None
    BY <1>1, <2>1, RequestAssumption DEF ClaimHolds, Claimed, From
  <2>3. RequestTypeOK' /\ LinkLives' /\ OneSender'
    BY <1>1, <2>1, <2>2 DEF LinkLives, OneSender, From
  <2>4. ConsumedWasSent' /\ SentFirst'
    BY <1>1, <2>1, <2>2 DEF ConsumedWasSent, SentFirst
  <2>5. Handling' /\ ClaimHolds'
    BY <1>1, <2>1 DEF Handling, ClaimHolds, From, Claimed
  <2> QED
    BY <2>3, <2>4, <2>5
<1>3. CASE UNCHANGED recipient /\ Goto(h, "REJECTED")
  BY <1>1, <1>3 DEF Goto, LinkLives, Handling, ClaimHolds, SentFirst, OneSender,
                    ConsumedWasSent, From, Claimed
<1> QED
  BY <1>2, <1>3 DEF Notify

\* What is recorded as done was done.
LEMMA RecordStep ==
  ASSUME RInv, NEW h \in Handlers, Consume(h) \/ Mark(h)
  PROVE  RInv'
<1> USE DEF RInv, RequestTypeOK, limits
<1>1. CASE Consume(h)
  <2>1. /\ pc[h] = "consume" /\ cur[h] \in Deliveries
        /\ pc' = [pc EXCEPT ![h] = "PROCESSED"]
        /\ link' = IF link.made THEN [link EXCEPT !.consumed = TRUE] ELSE link
        /\ UNCHANGED <<status, delivery, recipient, cur, dropped, drops, changes>>
    BY <1>1 DEF Consume, Goto, Handling
  <2>2. link.made => recipient[cur[h]] # None
    BY <2>1 DEF SentFirst, LinkLives
  <2>3. RequestTypeOK' /\ LinkLives' /\ OneSender' /\ Handling'
    BY <2>1 DEF LinkLives, OneSender, Handling
  <2>4. ClaimHolds' /\ SentFirst'
    BY <2>1 DEF ClaimHolds, SentFirst, From, Claimed
  <2>5. ConsumedWasSent'
    BY <2>1, <2>2 DEF ConsumedWasSent
  <2> QED
    BY <2>3, <2>4, <2>5
<1>2. CASE Mark(h)
  <2>1. /\ pc[h] \in Settled /\ cur[h] \in Deliveries
        /\ delivery' = [delivery EXCEPT ![cur[h]] = pc[h]]
        /\ pc' = [pc EXCEPT ![h] = "idle"] /\ cur' = [cur EXCEPT ![h] = None]
        /\ UNCHANGED <<status, link, recipient, dropped, drops, changes>>
    BY <1>2 DEF Mark, Settled, Handling
  <2>2. RequestTypeOK' /\ LinkLives' /\ OneSender' /\ Handling'
    BY <2>1 DEF LinkLives, OneSender, Handling, Settled
  <2>3. ClaimHolds' /\ SentFirst'
    BY <2>1 DEF ClaimHolds, SentFirst, From, Claimed
  <2>4. ConsumedWasSent'
    BY <2>1 DEF ConsumedWasSent, SentFirst, Settled
  <2> QED
    BY <2>2, <2>3, <2>4
<1> QED
  BY <1>1, <1>2

\* A handler begins, or dies, with nothing in hand.
LEMMA HandlerStep ==
  ASSUME RInv, NEW h \in Handlers, Die(h) \/ \E d \in Deliveries : Receive(h, d)
  PROVE  RInv'
<1> USE DEF RInv, RequestTypeOK, limits
<1>1. CASE Die(h)
  BY <1>1 DEF Die, LinkLives, Handling, ClaimHolds, SentFirst, OneSender,
              ConsumedWasSent, From, Claimed
<1>2. ASSUME NEW d \in Deliveries, Receive(h, d) PROVE RInv'
  BY <1>2 DEF Receive, LinkLives, Handling, ClaimHolds, SentFirst, OneSender,
              ConsumedWasSent, From, Claimed
<1> QED
  BY <1>1, <1>2

LEMMA RInvStep == RInv /\ [RequestNext]_requestVars => RInv'
<1> SUFFICES ASSUME RInv, [RequestNext]_requestVars PROVE RInv'
  OBVIOUS
<1>1. CASE UNCHANGED requestVars
  BY <1>1 DEF requestVars, handlers, limits, RInv, RequestTypeOK, LinkLives, Handling, ClaimHolds,
              SentFirst, OneSender, ConsumedWasSent, From
<1>2. CASE RequestNext
  BY <1>2, LinkStep, LookStep, BindStep, NotifyStep, RecordStep, HandlerStep
     DEF RequestNext, Handle
<1> QED
  BY <1>1, <1>2

LEMMA RInvHolds == RequestSpec => []RInv
  BY RInvInit, RInvStep, PTL DEF RequestSpec

-----------------------------------------------------------------------------
\* Webhook calls and administrators keep the types of the link, the deliveries
\* and the notifications.
THEOREM TypeCorrect == RequestSpec => []RequestTypeOK
  BY RInvHolds, PTL DEF RInv

\* Whatever deliveries are handled at once, the ticket goes to the one account
\* the link is bound to: the conditional update decides who that is.
THEOREM OneSenderHolds == RequestSpec => []OneSender
  BY RInvHolds, PTL DEF RInv

\* No link counts as consumed, and no delivery as PROCESSED, before the
\* notification was made.
THEOREM ConsumedWasSentHolds == RequestSpec => []ConsumedWasSent
  BY RInvHolds, PTL DEF RInv
=============================================================================
