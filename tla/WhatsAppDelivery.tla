-------------------------- MODULE WhatsAppDelivery --------------------------
(***************************************************************************)
(* NotificationsService: one NotificationLog per dedupeKey, the job        *)
(* whatsapp-<logId> that delivers it, its attempts, and the retry          *)
(* endpoints.  A forced resend is a key of its own.                        *)
(***************************************************************************)
EXTENDS Naturals, FiniteSets

CONSTANTS
  Keys,         \* dedupe keys
  Requests,     \* API requests in flight
  Workers,      \* queue workers, one job at a time each
  MaxAttempts,  \* WHATSAPP_SEND_MAX_ATTEMPTS
  MaxFaults,    \* bound on lost answers of the provider, database and queue
  MaxDeaths     \* bound on requests that die and on workers that die or stall

Nobody == "nobody"

ASSUME DeliveryAssumption ==
  /\ MaxAttempts \in Nat \ {0} /\ Nobody \notin Keys \cup Workers
  /\ MaxFaults \in Nat /\ MaxDeaths \in Nat

VARIABLES
  log,           \* NotificationLog.status
  old,           \* keys whose log is older than WHATSAPP_MESSAGE_MAX_AGE_MS
  job,           \* the job of a log
  rpc, rkey,     \* next step of a request, and its key
  manual,        \* requests that came through a retry endpoint
  wpc, wkey,     \* next step of a worker, and the key it delivers
  sent,          \* messages the provider accepted, counted up to two (history)
  asked,         \* keys an operator retried (history)
  doubled,       \* those retried while a retry was under way (history)
  faults, deaths

requests == <<rpc, rkey, manual>>
workers == <<wpc, wkey>>
history == <<sent, asked, doubled>>
bounds == <<faults, deaths>>
vars == <<log, old, job, requests, workers, history, bounds>>

NoJob == [state |-> "none", tries |-> 0, manual |-> FALSE, stalls |-> 0, owner |-> Nobody]
Live == {"waiting", "active"}
LogStatuses == {"NONE", "PENDING", "SENT", "FAILED", "CANCELLED"}

TypeOK ==
  /\ log \in [Keys -> LogStatuses]
  /\ old \subseteq Keys
  /\ job \in [Keys -> [state : {"none", "completed", "failed"} \cup Live,
                       tries : 0..MaxAttempts, manual : BOOLEAN,
                       stalls : 0..1, owner : Workers \cup {Nobody}]]
  /\ rpc \in [Requests -> {"idle", "create", "mark", "find", "add", "revive", "refuse"}]
  /\ rkey \in [Requests -> Keys \cup {Nobody}]
  /\ manual \subseteq Requests
  /\ wpc \in [Workers -> {"idle", "read", "cancel", "mark", "send", "record", "temporary", "permanent"}]
  /\ wkey \in [Workers -> Keys \cup {Nobody}]
  /\ sent \in [Keys -> 0..2]
  /\ asked \subseteq Keys /\ doubled \subseteq asked
  /\ faults \in 0..MaxFaults
  /\ deaths \in 0..MaxDeaths

-----------------------------------------------------------------------------
Fault == faults < MaxFaults /\ faults' = faults + 1 /\ UNCHANGED deaths
Death == deaths < MaxDeaths /\ deaths' = deaths + 1 /\ UNCHANGED faults

SetLog(k, status) == log' = [log EXCEPT ![k] = status]

Begin(r, k, step) ==
  /\ rpc[r] = "idle"
  /\ rpc' = [rpc EXCEPT ![r] = step]
  /\ rkey' = [rkey EXCEPT ![r] = k]

Answer(r) ==
  /\ rpc' = [rpc EXCEPT ![r] = "idle"]
  /\ rkey' = [rkey EXCEPT ![r] = Nobody]
  /\ manual' = manual \ {r}

GoOn(r, step) == rpc' = [rpc EXCEPT ![r] = step] /\ UNCHANGED <<rkey, manual>>

-----------------------------------------------------------------------------
(* sendRegistrationQr and sendRegistrationTicketImage.                     *)

\* A log that exists is answered as it is, whatever its status.
Send(r, k) ==
  /\ log[k] = "NONE"
  /\ Begin(r, k, "create")
  /\ UNCHANGED <<log, old, job, manual, workers, history, bounds>>

\* createNotificationLogOrReadExisting: another request may have been faster.
CreateLog(r) ==
  /\ rpc[r] = "create"
  /\ LET k == rkey[r] IN
     \/ log[k] = "NONE" /\ SetLog(k, "PENDING") /\ GoOn(r, "find")
     \/ log[k] = "PENDING" /\ GoOn(r, "find") /\ UNCHANGED log
     \/ log[k] \notin {"NONE", "PENDING"} /\ Answer(r) /\ UNCHANGED log
  /\ UNCHANGED <<old, job, workers, history, bounds>>

\* Mutant: any log may be retried.
RetriableAny(k) == log[k] # "NONE"

\* retryLog and retryFailed take FAILED logs only.
Retriable(k) == log[k] = "FAILED"

Retry(r, k) ==
  /\ Retriable(k)
  /\ Begin(r, k, "mark")
  /\ manual' = manual \cup {r}
  /\ asked' = asked \cup {k}
  /\ doubled' = IF \E q \in manual : rkey[q] = k THEN doubled \cup {k} ELSE doubled
  /\ UNCHANGED <<log, old, job, workers, sent, bounds>>

\* markLogPendingForRetry, whatever the log has become.
MarkPendingForRetry(r) ==
  /\ rpc[r] = "mark"
  /\ SetLog(rkey[r], "PENDING")
  /\ GoOn(r, "find")
  /\ UNCHANGED <<old, job, workers, history, bounds>>

\* Mutant: a request that finds no job forgets to add it.
FindJobOnly(r) ==
  /\ rpc[r] = "find"
  /\ Answer(r)
  /\ UNCHANGED <<log, old, job, workers, history, bounds>>

\* enqueueWhatsAppLog: only a failed job is revived, and only by a retry.
FindJob(r) ==
  /\ rpc[r] = "find"
  /\ LET state == job[rkey[r]].state IN
     \/ state = "none" /\ GoOn(r, "add")
     \/ state = "failed" /\ r \in manual /\ GoOn(r, "revive")
     \/ state # "none" /\ ~(state = "failed" /\ r \in manual) /\ Answer(r)
  /\ UNCHANGED <<log, old, job, workers, history, bounds>>

\* A job id already in the queue is not added again; the queue may refuse.
AddJob(r) ==
  /\ rpc[r] = "add"
  /\ LET k == rkey[r] IN
     \/ /\ job' = IF job[k].state = "none"
                  THEN [job EXCEPT ![k] = [NoJob EXCEPT !.state = "waiting",
                                                        !.manual = r \in manual]]
                  ELSE job
        /\ Answer(r)
        /\ UNCHANGED bounds
     \/ /\ GoOn(r, "refuse")
        /\ Fault
        /\ UNCHANGED job
  /\ UNCHANGED <<log, old, workers, history>>

\* existingJob.retry keeps the job's data, its manualRetry with it.
ReviveJob(r) ==
  /\ rpc[r] = "revive"
  /\ LET k == rkey[r] IN
     \/ /\ job[k].state = "failed"
        /\ job' = [job EXCEPT ![k].state = "waiting"]
        /\ Answer(r)
     \/ /\ job[k].state # "failed"
        /\ GoOn(r, "refuse")
        /\ UNCHANGED job
  /\ UNCHANGED <<log, old, workers, history, bounds>>

MarkLogFailedAfterEnqueueError(r) ==
  /\ rpc[r] = "refuse"
  /\ SetLog(rkey[r], "FAILED")
  /\ Answer(r)
  /\ UNCHANGED <<old, job, workers, history, bounds>>

-----------------------------------------------------------------------------
(* deliverQueuedWhatsApp, run by the processor.                            *)

Work(w, step) == wpc' = [wpc EXCEPT ![w] = step] /\ UNCHANGED wkey

Rest(w) ==
  /\ wpc' = [wpc EXCEPT ![w] = "idle"]
  /\ wkey' = [wkey EXCEPT ![w] = Nobody]

\* The queue hears only of the worker that holds the job's lock.
EndJob(w, state, tries) ==
  /\ job' = IF job[wkey[w]].owner = w
            THEN [job EXCEPT ![wkey[w]] = [@ EXCEPT !.state = state, !.tries = tries,
                                                    !.owner = Nobody]]
            ELSE job
  /\ Rest(w)

Take(w, k) ==
  /\ wpc[w] = "idle"
  /\ job[k].state = "waiting"
  /\ job' = [job EXCEPT ![k].state = "active", ![k].owner = w]
  /\ wpc' = [wpc EXCEPT ![w] = "read"]
  /\ wkey' = [wkey EXCEPT ![w] = k]
  /\ UNCHANGED <<log, old, requests, history, bounds>>

AlreadySent(k) == log[k] = "SENT"

ReadLog(w) ==
  /\ wpc[w] = "read"
  /\ LET k == wkey[w]
         expired == k \in old /\ ~job[k].manual
     IN \/ AlreadySent(k) /\ EndJob(w, "completed", job[k].tries)
        \/ ~AlreadySent(k) /\ expired /\ Work(w, "cancel") /\ UNCHANGED job
        \/ ~AlreadySent(k) /\ ~expired /\ Work(w, "mark") /\ UNCHANGED job
  /\ UNCHANGED <<log, old, requests, history, bounds>>

Cancel(w) ==
  /\ wpc[w] = "cancel"
  /\ SetLog(wkey[w], "CANCELLED")
  /\ EndJob(w, "completed", job[wkey[w]].tries)
  /\ UNCHANGED <<old, requests, history, bounds>>

MarkPending(w) ==
  /\ wpc[w] = "mark"
  /\ SetLog(wkey[w], "PENDING")
  /\ Work(w, "send")
  /\ UNCHANGED <<old, job, requests, history, bounds>>

\* The provider accepts, refuses for good or for now; its yes may get lost.
SendMessage(w) ==
  /\ wpc[w] = "send"
  /\ \/ /\ sent' = [sent EXCEPT ![wkey[w]] = IF @ < 2 THEN @ + 1 ELSE @]
        /\ \/ Work(w, "record") /\ UNCHANGED bounds
           \/ Work(w, "temporary") /\ Fault
     \/ /\ Work(w, "temporary") \/ Work(w, "permanent")
        /\ UNCHANGED <<sent, bounds>>
  /\ UNCHANGED <<log, old, job, requests, asked, doubled>>

\* SENT is written after the call; the catch block covers that update too.
RecordSent(w) ==
  /\ wpc[w] = "record"
  /\ \/ /\ SetLog(wkey[w], "SENT")
        /\ EndJob(w, "completed", job[wkey[w]].tries)
        /\ UNCHANGED bounds
     \/ /\ Work(w, "temporary")
        /\ Fault
        /\ UNCHANGED <<log, job>>
  /\ UNCHANGED <<old, requests, history>>

\* Mutant: attemptsMade compared without the attempt under way.
IsFinalLate(tries) == tries >= MaxAttempts

\* attemptNumber = attemptsMade + 1 >= attempts.
IsFinal(tries) == tries + 1 >= MaxAttempts

\* A final failure that is not permanent returns: the job is completed.  An
\* attempt that throws is queued again while BullMQ has attempts left.
NoteFailure(w) ==
  /\ LET k == wkey[w]
         tries == job[k].tries
         next == IF tries < MaxAttempts THEN tries + 1 ELSE tries
     IN \/ /\ wpc[w] = "permanent"
           /\ SetLog(k, "FAILED")
           /\ EndJob(w, "failed", next)
        \/ /\ wpc[w] = "temporary"
           /\ IsFinal(tries)
           /\ SetLog(k, "FAILED")
           /\ EndJob(w, "completed", tries)
        \/ /\ wpc[w] = "temporary"
           /\ ~IsFinal(tries)
           /\ SetLog(k, "PENDING")
           /\ EndJob(w, IF next < MaxAttempts THEN "waiting" ELSE "failed", next)
  /\ UNCHANGED <<old, requests, history, bounds>>

-----------------------------------------------------------------------------
(* BullMQ, the clock and the processes.                                    *)

\* A stalled job is queued again once, then failed.
Stalled(k) ==
  job' = [job EXCEPT ![k] =
            IF @.stalls = 0
            THEN [@ EXCEPT !.state = "waiting", !.stalls = 1, !.owner = Nobody]
            ELSE [@ EXCEPT !.state = "failed", !.owner = Nobody]]

\* A worker loses its lock and runs on.
Stall(w) ==
  /\ wpc[w] # "idle"
  /\ job[wkey[w]].owner = w
  /\ Death
  /\ Stalled(wkey[w])
  /\ UNCHANGED <<log, old, requests, workers, history>>

WorkerDies(w) ==
  /\ wpc[w] # "idle"
  /\ Death
  /\ IF job[wkey[w]].owner = w THEN Stalled(wkey[w]) ELSE UNCHANGED job
  /\ Rest(w)
  /\ UNCHANGED <<log, old, requests, history>>

RequestDies(r) ==
  /\ rpc[r] # "idle"
  /\ Death
  /\ Answer(r)
  /\ UNCHANGED <<log, old, job, workers, history>>

Age(k) ==
  /\ log[k] # "NONE"
  /\ k \notin old
  /\ old' = old \cup {k}
  /\ UNCHANGED <<log, job, requests, workers, history, bounds>>

\* removeOnComplete keeps the last 100 completed jobs: no request is so slow
\* that a hundred messages are delivered before it ends.
Evict(k) ==
  /\ \A r \in Requests : rkey[r] # k
  /\ job[k].state = "completed"
  /\ job' = [job EXCEPT ![k] = NoJob]
  /\ UNCHANGED <<log, old, requests, workers, history, bounds>>

-----------------------------------------------------------------------------
Init ==
  /\ log = [k \in Keys |-> "NONE"]
  /\ old = {}
  /\ job = [k \in Keys |-> NoJob]
  /\ rpc = [r \in Requests |-> "idle"]
  /\ rkey = [r \in Requests |-> Nobody]
  /\ manual = {}
  /\ wpc = [w \in Workers |-> "idle"]
  /\ wkey = [w \in Workers |-> Nobody]
  /\ sent = [k \in Keys |-> 0]
  /\ asked = {}
  /\ doubled = {}
  /\ faults = 0
  /\ deaths = 0

RequestStep(r) ==
  \/ CreateLog(r) \/ MarkPendingForRetry(r) \/ FindJob(r) \/ AddJob(r)
  \/ ReviveJob(r) \/ MarkLogFailedAfterEnqueueError(r)

WorkerStep(w) ==
  \/ \E k \in Keys : Take(w, k)
  \/ ReadLog(w) \/ Cancel(w) \/ MarkPending(w) \/ SendMessage(w)
  \/ RecordSent(w) \/ NoteFailure(w)

Next ==
  \/ \E r \in Requests :
       \/ \E k \in Keys : Send(r, k) \/ Retry(r, k)
       \/ RequestStep(r) \/ RequestDies(r)
  \/ \E w \in Workers : WorkerStep(w) \/ Stall(w) \/ WorkerDies(w)
  \/ \E k \in Keys : Age(k) \/ Evict(k)

Spec == Init /\ [][Next]_vars

\* Requests are resumed by the event loop; each job the queue holds is
\* offered to some worker again and again.
FairSpec ==
  /\ Spec
  /\ \A r \in Requests : WF_vars(RequestStep(r))
  /\ \A w \in Workers : WF_vars(WorkerStep(w))

-----------------------------------------------------------------------------
(* Properties.                                                             *)

\* What may send a message twice: an answer was lost, a process died or
\* stalled, or two operators retried the log at once.
Excused(k) == faults + deaths > 0 \/ k \in doubled

\* An attendee gets a message twice only for such a cause: dedupeKey, the job
\* id, the FAILED check of the retry endpoints and the SENT check of the worker
\* see to the rest.
ResendsAreExcused == \A k \in Keys : sent[k] > 1 => Excused(k)

\* A log marked SENT stays so but for such a cause: no later attempt, retry or
\* failed enqueue rewrites it.
SentStaysSent ==
  [][\A k \in Keys : (log[k] = "SENT" /\ log'[k] # "SENT") => Excused(k)]_vars

\* A PENDING log is still on its way: a job will deliver it, or a request or a
\* worker is about to settle it, whatever the queue and the database refuse.
\* A death may strand it, and so may an operator's retry of a log whose job
\* was completed: enqueueWhatsAppLog then adds none.
PendingHasCarrier ==
  \A k \in Keys : (log[k] = "PENDING" /\ deaths = 0 /\ k \notin asked) =>
     \/ job[k].state \in Live
     \/ \E r \in Requests : rkey[r] = k
     \/ \E w \in Workers : wkey[w] = k

\* A message whose job is in the queue is settled one way or the other.
QueuedIsSettled ==
  \A k \in Keys : (job[k].state = "waiting") ~> (log[k] \in {"SENT", "FAILED", "CANCELLED"})
=============================================================================
