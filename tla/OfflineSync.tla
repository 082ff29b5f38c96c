---------------------------- MODULE OfflineSync ----------------------------
(***************************************************************************)
(* SyncService: batches of operations a device recorded offline, their     *)
(* resubmission under the same or another batchId, the retry of failed     *)
(* registrations and the admin endpoint that recovers them.  Operations    *)
(* are numbered in the order sortOperations puts them: registrations come  *)
(* before the others.  The deletion of registrations is left out.          *)
(***************************************************************************)
EXTENDS Naturals, FiniteSets

CONSTANTS
  NumOps,            \* sync operationIds
  Identities,        \* offline registrations (offlineRegistrationOperationId)
  Phones,
  PhoneOf,           \* the phone of an identity, unique within the event
  Batches,           \* batchIds
  Workloads,         \* what a device may have to submit
  Handlers,          \* requests in flight
  MaxFaults          \* bound on crashes and transient failures together

Ops == 1..NumOps

\* A workload names the registration operations, the identity and the payload
\* each carries, the operations of each batch, and whether the device puts its
\* operation id in payload.externalId.
ASSUME SyncAssumption ==
  /\ NumOps \in Nat /\ MaxFaults \in Nat
  /\ PhoneOf \in [Identities -> Phones]
  /\ "ONLINE" \notin Identities /\ "NONE" \notin Identities
  /\ "none" \notin Batches /\ "admin" \notin Batches
  /\ \A l \in Workloads :
       /\ DOMAIN l.identity \subseteq Ops
       /\ \A o \in DOMAIN l.identity, x \in Ops \ DOMAIN l.identity : o < x
       /\ \A o \in DOMAIN l.identity : l.identity[o] \in Identities
       /\ l.altered \subseteq DOMAIN l.identity
       /\ l.ops \in [Batches -> SUBSET Ops]
       /\ l.externalId \in BOOLEAN

VARIABLES
  load,        \* the workload
  batch,       \* SyncBatch.status
  op,          \* SyncOperation.status; FAILED is split by its errorCode
  mapping,     \* OfflineRegistrationMapping of an identity
  registered,  \* who holds the registration with a phone
  pc, doing,   \* next step of a request, and the batch it serves
  dups,        \* duplicateOperationIds
  seen,        \* status of the duplicates, as read before processing
  todo, cur,   \* operations left, and the one being run
  tally,       \* kinds of results obtained: getBatchStatus needs no more
  faults,
  abandoned    \* batches whose request died (history)

rows == <<load, batch, op, mapping, registered>>
local == <<doing, dups, seen, todo, cur, tally>>
mishaps == <<faults, abandoned>>
vars == <<rows, pc, local, mishaps>>

RegOps == DOMAIN load.identity       \* operations of type OFFLINE_REGISTRATION
IdentityOf(o) == load.identity[o]
Altered == load.altered              \* those whose signed payload was changed
OpsOf(b) == load.ops[b]

OpStatuses == {"NONE", "PENDING", "PROCESSED", "RETRYABLE", "PERMANENT"}
Final == {"COMPLETED", "PARTIAL_FAILED", "FAILED", "DUPLICATE"}
NoMapping == [status |-> "NONE", altered |-> FALSE, linked |-> FALSE]
Running == {"lookup", "conflict", "reserve", "recover", "create", "refuse",
            "defer", "generate", "link", "enqueue", "other", "store", "failRetry", "failPerm"}

TypeOK ==
  /\ load \in Workloads
  /\ batch \in [Batches -> {"NONE", "RECEIVED", "PROCESSING"} \cup Final]
  /\ op \in [Ops -> OpStatuses]
  /\ mapping \in [Identities -> [status : {"NONE", "PENDING", "SYNCED", "CONFLICTED"},
                                 altered : BOOLEAN, linked : BOOLEAN]]
  /\ registered \in [Phones -> {"NONE", "ONLINE"} \cup Identities]
  /\ pc \in [Handlers -> {"idle", "check", "persist", "start", "next"} \cup Running]
  /\ doing \in [Handlers -> Batches \cup {"none", "admin"}]
  /\ dups \in [Handlers -> SUBSET Ops]
  /\ seen \in [Handlers -> [Ops -> OpStatuses]]
  /\ todo \in [Handlers -> SUBSET Ops]
  /\ cur \in [Handlers -> Ops \cup {0}]
  /\ tally \in [Handlers -> SUBSET {"PROCESSED", "FAILED", "DUPLICATE"}]
  /\ faults \in 0..MaxFaults
  /\ abandoned \subseteq Batches

-----------------------------------------------------------------------------
Goto(p, l) == pc' = [pc EXCEPT ![p] = l]

\* A request ends and forgets its local variables.
Leave(p) ==
  /\ Goto(p, "idle")
  /\ doing' = [doing EXCEPT ![p] = "none"]
  /\ dups' = [dups EXCEPT ![p] = {}]
  /\ seen' = [seen EXCEPT ![p] = [o \in Ops |-> "NONE"]]
  /\ todo' = [todo EXCEPT ![p] = {}]
  /\ cur' = [cur EXCEPT ![p] = 0]
  /\ tally' = [tally EXCEPT ![p] = {}]

\* A transient failure: a lost connection, a deadlock, a full queue.
Fault == faults < MaxFaults /\ faults' = faults + 1 /\ UNCHANGED abandoned

Who(p) == IdentityOf(cur[p])

\* The registration whose externalId is the operation's.
FoundByExternalId(r) == load.externalId /\ registered[PhoneOf[r]] = r

-----------------------------------------------------------------------------
(* submitBatch.                                                            *)

\* A batchId seen before is answered with the stored batch.
Submit(p, b) ==
  /\ pc[p] = "idle"
  /\ batch[b] = "NONE"
  /\ Goto(p, "check")
  /\ doing' = [doing EXCEPT ![p] = b]
  /\ UNCHANGED <<rows, dups, seen, todo, cur, tally, mishaps>>

\* The event is missing or archived, or the device or the staff session is of
\* another event or not active: they are written elsewhere, at any time.
Refuse(p) ==
  /\ pc[p] = "check"
  /\ Leave(p)
  /\ UNCHANGED <<rows, mishaps>>

\* findDuplicateOperationIds.
Known(ops) == {o \in ops : op[o] # "NONE"}

FindDuplicates(p) ==
  /\ pc[p] = "check"
  /\ dups' = [dups EXCEPT ![p] = Known(OpsOf(doing[p]))]
  /\ Goto(p, "persist")
  /\ UNCHANGED <<rows, doing, seen, todo, cur, tally, mishaps>>

\* Mutant: the operations are inserted with skipDuplicates.
CreatableAnyway(b, new) == batch[b] = "NONE"

\* batchId and operationId are unique.
Creatable(b, new) == batch[b] = "NONE" /\ \A o \in new : op[o] = "NONE"

\* The batch and the operations not known before are inserted together.
CreateBatch(p) ==
  /\ pc[p] = "persist"
  /\ LET b == doing[p]
         new == OpsOf(b) \ dups[p]
     IN \/ /\ Creatable(b, new)
           /\ batch' = [batch EXCEPT ![b] = "RECEIVED"]
           /\ op' = [o \in Ops |-> IF o \in new THEN "PENDING" ELSE op[o]]
           /\ Goto(p, "start")
           /\ UNCHANGED local
        \/ /\ ~Creatable(b, new)
           /\ Leave(p)
           /\ UNCHANGED <<batch, op>>
  /\ UNCHANGED <<load, mapping, registered, mishaps>>

\* processBatch marks the batch and reads its duplicates' results.
StartBatch(p) ==
  /\ pc[p] = "start"
  /\ batch' = [batch EXCEPT ![doing[p]] = "PROCESSING"]
  /\ seen' = [seen EXCEPT ![p] =
                [o \in Ops |-> IF o \in dups[p] THEN op[o] ELSE "NONE"]]
  /\ todo' = [todo EXCEPT ![p] = OpsOf(doing[p])]
  /\ Goto(p, "next")
  /\ UNCHANGED <<load, op, mapping, registered, doing, dups, cur, tally, mishaps>>

-----------------------------------------------------------------------------
(* processBatch, one operation after the other.                            *)

IsNext(p, o) == o \in todo[p] /\ \A x \in todo[p] : o <= x

Run(p, o) ==
  /\ Goto(p, IF o \in RegOps THEN "lookup" ELSE "other")
  /\ cur' = [cur EXCEPT ![p] = o]
  /\ todo' = [todo EXCEPT ![p] = @ \ {o}]

Report(p, o, kind) ==
  /\ tally' = [tally EXCEPT ![p] = @ \cup {kind}]
  /\ todo' = [todo EXCEPT ![p] = @ \ {o}]

\* canRetryFailedOfflineOperation: a registration that failed with a code of
\* the retryable kind.
CanRetry(o, status) == o \in RegOps /\ status = "RETRYABLE"

\* An operation this batch inserted.
RunOwn(p) ==
  /\ pc[p] = "next"
  /\ \E o \in Ops \ dups[p] : IsNext(p, o) /\ Run(p, o)
  /\ UNCHANGED <<rows, doing, dups, seen, tally, mishaps>>

\* Mutant: a duplicate without output ends the request.
AnswerDuplicateOrThrow(p) ==
  /\ pc[p] = "next"
  /\ \E o \in dups[p] :
       /\ IsNext(p, o)
       /\ ~CanRetry(o, seen[p][o])
       /\ IF seen[p][o] = "PROCESSED"
          THEN Report(p, o, "DUPLICATE") /\ UNCHANGED <<pc, doing, dups, seen, cur>>
          ELSE Leave(p)
  /\ UNCHANGED <<rows, mishaps>>

\* A duplicate is answered with the stored output; a failure that cannot be
\* retried, or an operation still PENDING, is a failure of this batch too.
AnswerDuplicate(p) ==
  /\ pc[p] = "next"
  /\ \E o \in dups[p] :
       /\ IsNext(p, o)
       /\ ~CanRetry(o, seen[p][o])
       /\ Report(p, o, IF seen[p][o] = "PROCESSED" THEN "DUPLICATE" ELSE "FAILED")
  /\ UNCHANGED <<rows, pc, doing, dups, seen, cur, mishaps>>

\* updateMany where status = FAILED.
Claimable(o) == op[o] \in {"RETRYABLE", "PERMANENT"}

\* A failed registration is claimed and run again, unless another request
\* claimed it first.
RetryDuplicate(p) ==
  /\ pc[p] = "next"
  /\ \E o \in dups[p] :
       /\ IsNext(p, o)
       /\ CanRetry(o, seen[p][o])
       /\ \/ /\ Claimable(o)
             /\ op' = [op EXCEPT ![o] = "PENDING"]
             /\ Run(p, o)
             /\ UNCHANGED tally
          \/ /\ ~Claimable(o)
             /\ Report(p, o, "FAILED")
             /\ UNCHANGED <<op, pc, cur>>
  /\ UNCHANGED <<load, batch, mapping, registered, doing, dups, seen, mishaps>>

\* Mutant: failures do not count when something was processed.
BatchStatusLenient(results) ==
  IF "PROCESSED" \in results THEN "COMPLETED"
  ELSE IF "FAILED" \in results THEN "FAILED" ELSE "DUPLICATE"

\* getBatchStatus.
BatchStatus(results) ==
  CASE "FAILED" \in results /\ results \cap {"PROCESSED", "DUPLICATE"} = {} -> "FAILED"
    [] "FAILED" \in results /\ results \cap {"PROCESSED", "DUPLICATE"} # {} -> "PARTIAL_FAILED"
    [] "FAILED" \notin results /\ results = {"DUPLICATE"}                   -> "DUPLICATE"
    [] OTHER                                                                 -> "COMPLETED"

FinishBatch(p) ==
  /\ pc[p] = "next"
  /\ todo[p] = {}
  /\ batch' = IF doing[p] \in Batches
              THEN [batch EXCEPT ![doing[p]] = BatchStatus(tally[p])] ELSE batch
  /\ Leave(p)
  /\ UNCHANGED <<load, op, mapping, registered, mishaps>>

\* recoverFailedOfflineRegistrations lists the failures to retry; it claims
\* and runs them like duplicates of a batch.
RecoverFailed(p) ==
  /\ pc[p] = "idle"
  /\ LET list == {o \in Ops : CanRetry(o, op[o])}
     IN /\ list # {}
        /\ dups' = [dups EXCEPT ![p] = list]
        /\ todo' = [todo EXCEPT ![p] = list]
        /\ seen' = [seen EXCEPT ![p] =
                      [o \in Ops |-> IF o \in list THEN "RETRYABLE" ELSE "NONE"]]
  /\ Goto(p, "next")
  /\ doing' = [doing EXCEPT ![p] = "admin"]
  /\ UNCHANGED <<rows, cur, tally, mishaps>>

\* processOperation stores the outcome, whatever the row has become.
StoreOutcome(p) ==
  /\ \/ pc[p] = "store"     /\ op' = [op EXCEPT ![cur[p]] = "PROCESSED"]
     \/ pc[p] = "failRetry" /\ op' = [op EXCEPT ![cur[p]] = "RETRYABLE"]
     \/ pc[p] = "failPerm"  /\ op' = [op EXCEPT ![cur[p]] = "PERMANENT"]
  /\ tally' = [tally EXCEPT ![p] =
                 @ \cup {IF pc[p] = "store" THEN "PROCESSED" ELSE "FAILED"}]
  /\ cur' = [cur EXCEPT ![p] = 0]
  /\ Goto(p, "next")
  /\ UNCHANGED <<load, batch, mapping, registered, doing, dups, seen, todo, mishaps>>

\* OFFLINE_SCAN, QR_GENERATION and SCAN_EVENT: no failure of theirs is retried.
RunOther(p) ==
  /\ pc[p] = "other"
  /\ Goto(p, "store") \/ Goto(p, "failPerm")
  /\ UNCHANGED <<rows, local, mishaps>>

-----------------------------------------------------------------------------
(* runOfflineRegistration.                                                 *)

\* findExistingOfflineMapping, and whether the payload hash it stored is that of
\* the operation.
Existing(p) == mapping[Who(p)].status # "NONE"
SamePayload(p) == mapping[Who(p)].altered = (cur[p] \in Altered)

\* The signature is rejected, or names another device, event, registration or
\* attendee type than the payload.
RejectQr(p) == Goto(p, "failPerm") /\ UNCHANGED mishaps

\* The signature is verified and the mapping looked up; a linked one is
\* answered ALREADY_SYNCED once its QR is read.
LookUp(p) ==
  /\ pc[p] = "lookup"
  /\ \/ RejectQr(p)
     \/ Goto(p, "failRetry") /\ Fault
     \/ /\ Existing(p) /\ ~SamePayload(p)
        /\ Goto(p, "conflict") /\ UNCHANGED mishaps
     \/ /\ Existing(p) /\ SamePayload(p) /\ mapping[Who(p)].linked
        /\ Goto(p, "store") /\ UNCHANGED mishaps
     \/ /\ Existing(p) => SamePayload(p) /\ ~mapping[Who(p)].linked
        /\ Goto(p, "reserve") /\ UNCHANGED mishaps
  /\ UNCHANGED <<rows, local>>

MarkConflicted(p) ==
  /\ pc[p] = "conflict"
  /\ mapping' = [mapping EXCEPT ![Who(p)].status = "CONFLICTED"]
  /\ Goto(p, "failPerm")
  /\ UNCHANGED <<load, batch, op, registered, local, mishaps>>

\* The mapping is upserted: an existing row is kept as it is.
Reserve(p) ==
  /\ pc[p] = "reserve"
  /\ mapping' = IF mapping[Who(p)].status = "NONE"
                THEN [mapping EXCEPT ![Who(p)] =
                        [status |-> "PENDING", altered |-> cur[p] \in Altered, linked |-> FALSE]]
                ELSE mapping
  /\ Goto(p, "recover")
  /\ UNCHANGED <<load, batch, op, registered, local, mishaps>>

\* Mutant: the registration is not looked for before it is created.
RecoverNever(p) ==
  /\ pc[p] = "recover"
  /\ Goto(p, "create")
  /\ UNCHANGED <<rows, local, mishaps>>

\* An earlier run may have created the registration: externalId finds it.
Recover(p) ==
  /\ pc[p] = "recover"
  /\ Goto(p, IF FoundByExternalId(Who(p)) THEN "generate" ELSE "create")
  /\ UNCHANGED <<rows, local, mishaps>>

\* Mutant: a taken phone counts as the registration itself.
CreateOrReuse(p) ==
  /\ pc[p] = "create"
  /\ IF registered[PhoneOf[Who(p)]] = "NONE"
     THEN registered' = [registered EXCEPT ![PhoneOf[Who(p)]] = Who(p)]
     ELSE UNCHANGED registered
  /\ Goto(p, "generate")
  /\ UNCHANGED <<load, batch, op, mapping, local, mishaps>>

\* RegistrationsService.create: one registration per phone.
Create(p) ==
  /\ pc[p] = "create"
  /\ LET ph == PhoneOf[Who(p)] IN
     \/ /\ registered[ph] = "NONE"
        /\ registered' = [registered EXCEPT ![ph] = Who(p)]
        /\ Goto(p, "generate")
        /\ UNCHANGED mishaps
     \/ /\ Goto(p, "refuse")   \* the phone is taken, or a field is invalid
        /\ UNCHANGED <<registered, mishaps>>
     \/ /\ Goto(p, "defer")
        /\ Fault
        /\ UNCHANGED registered
  /\ UNCHANGED <<load, batch, op, mapping, local>>

\* A refusal marks the mapping CONFLICTED; a transient failure, PENDING.
NoteCreateFailure(p) ==
  /\ \/ /\ pc[p] = "refuse"
        /\ mapping' = [mapping EXCEPT ![Who(p)].status = "CONFLICTED"]
        /\ Goto(p, "failPerm")
     \/ /\ pc[p] = "defer"
        /\ mapping' = [mapping EXCEPT ![Who(p)].status = "PENDING"]
        /\ Goto(p, "failRetry")
  /\ UNCHANGED <<load, batch, op, registered, local, mishaps>>

\* QrService.generate; its failure, or the refusal it answers when another
\* request refreshes the token, leaves the mapping as it is.
GenerateQr(p) ==
  /\ pc[p] = "generate"
  /\ \/ Goto(p, "link") /\ UNCHANGED mishaps
     \/ Goto(p, "failPerm") /\ UNCHANGED mishaps
     \/ Goto(p, "failRetry") /\ Fault
  /\ UNCHANGED <<rows, local>>

Link(p) ==
  /\ pc[p] = "link"
  /\ mapping' = [mapping EXCEPT ![Who(p)].status = "SYNCED", ![Who(p)].linked = TRUE]
  /\ Goto(p, "enqueue")
  /\ UNCHANGED <<load, batch, op, registered, local, mishaps>>

\* enqueueOfflineReconciliation; its direct fallback may throw as well.
EnqueueReconciliation(p) ==
  /\ pc[p] = "enqueue"
  /\ \/ Goto(p, "store") /\ UNCHANGED mishaps
     \/ Goto(p, "failRetry") /\ Fault
  /\ UNCHANGED <<rows, local>>

-----------------------------------------------------------------------------
\* The API process dies, or the database refuses the outcome and the request
\* ends with an error: nothing resumes it.
Crash(p) ==
  /\ pc[p] # "idle"
  /\ faults < MaxFaults
  /\ faults' = faults + 1
  /\ Leave(p)
  /\ abandoned' = abandoned \cup ({doing[p]} \cap Batches)
  /\ UNCHANGED rows

\* Another attendee registers online with the phone.
RegisterOnline(ph) ==
  /\ registered[ph] = "NONE"
  /\ registered' = [registered EXCEPT ![ph] = "ONLINE"]
  /\ UNCHANGED <<load, batch, op, mapping, pc, local, mishaps>>

Init ==
  /\ load \in Workloads
  /\ batch = [b \in Batches |-> "NONE"]
  /\ op = [o \in Ops |-> "NONE"]
  /\ mapping = [r \in Identities |-> NoMapping]
  /\ registered = [ph \in Phones |-> "NONE"]
  /\ pc = [p \in Handlers |-> "idle"]
  /\ doing = [p \in Handlers |-> "none"]
  /\ dups = [p \in Handlers |-> {}]
  /\ seen = [p \in Handlers |-> [o \in Ops |-> "NONE"]]
  /\ todo = [p \in Handlers |-> {}]
  /\ cur = [p \in Handlers |-> 0]
  /\ tally = [p \in Handlers |-> {}]
  /\ faults = 0
  /\ abandoned = {}

Step(p) ==
  \/ Refuse(p) \/ FindDuplicates(p) \/ CreateBatch(p) \/ StartBatch(p)
  \/ RunOwn(p) \/ AnswerDuplicate(p) \/ RetryDuplicate(p) \/ FinishBatch(p)
  \/ StoreOutcome(p) \/ RunOther(p)
  \/ LookUp(p) \/ MarkConflicted(p) \/ Reserve(p) \/ Recover(p) \/ Create(p)
  \/ NoteCreateFailure(p) \/ GenerateQr(p) \/ Link(p) \/ EnqueueReconciliation(p)

Next ==
  \/ \E p \in Handlers : \/ Step(p) \/ Crash(p)
                         \/ \E b \in Batches : Submit(p, b)
                         \/ RecoverFailed(p)
  \/ \E ph \in Phones : RegisterOnline(ph)

Spec == Init /\ [][Next]_vars

\* The event loop resumes every request in flight.
FairSpec == Spec /\ \A p \in Handlers : WF_vars(Step(p))

-----------------------------------------------------------------------------
(* Properties.                                                             *)

\* A PROCESSED operation is never run, failed or reopened again, although
\* processOperation stores outcomes unconditionally.
ProcessedIsFinal ==
  [][\A o \in Ops : op[o] = "PROCESSED" => op'[o] = "PROCESSED"]_vars

\* A device told COMPLETED or DUPLICATE may forget the batch: every operation
\* of it is PROCESSED.
CompletedMeansProcessed ==
  \A b \in Batches : batch[b] \in {"COMPLETED", "DUPLICATE"} =>
     \A o \in OpsOf(b) : op[o] = "PROCESSED"

\* A processed registration is linked, and to the registration created for
\* it: never to another attendee who holds the phone.
ProcessedIsLinked ==
  \A o \in RegOps : op[o] = "PROCESSED" =>
     /\ mapping[IdentityOf(o)].linked
     /\ registered[PhoneOf[IdentityOf(o)]] = IdentityOf(o)

\* Comment in runOfflineRegistration: "recover an operation interrupted after
\* the Registration was created and before the Mapping was linked ... without
\* creating a second copy and without relying on phone or email".  A retry
\* never declares a registration in conflict with itself, provided that the
\* device sends the externalId and no other operation carries the identity.
RecoversInterrupted ==
  [][load.externalId =>
       \A r \in Identities :
         (/\ Cardinality({o \in RegOps : IdentityOf(o) = r}) = 1
          /\ mapping[r].status # "CONFLICTED" /\ mapping'[r].status = "CONFLICTED") =>
            registered[PhoneOf[r]] # r]_vars

\* Unless its request dies, a stored batch reaches a final status, whatever
\* fails in it and whatever its duplicates wait for.
BatchIsFinished ==
  \A b \in Batches : (batch[b] = "RECEIVED") ~> (batch[b] \in Final \/ b \in abandoned)
=============================================================================
