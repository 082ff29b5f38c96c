----------------------------- MODULE ScanIngest -----------------------------
(***************************************************************************)
(* The life of a badge scan in ScansService: online ingestion, fast        *)
(* ingestion with its queued worker, the replay of offline scans arriving  *)
(* in sync batches, and the reconciliation job that runs once an offline   *)
(* registration is linked.  Every await of the TypeScript handlers that    *)
(* reads or writes a row the properties speak of is one step here, so the  *)
(* handlers interleave exactly at their database calls.                    *)
(*                                                                         *)
(* A scan is named by its operationId, which is also its rank in           *)
(* scannedAtDevice order.  All scans belong to one event and carry a       *)
(* checkpoint.  A row of ScanEventRaw is its status and result; a row of   *)
(* MovementLog is its result; a row of OfflineScanOperation is its status. *)
(***************************************************************************)
EXTENDS Naturals, FiniteSets

CONSTANTS
  NumScans,             \* number of distinct operationIds
  Registrations,        \* attendees, each with at most one QrToken row
  OfflineRegistrations, \* those created on a device, unknown to the server at first
  RegOf,                \* the attendee whose badge each scan reads
  Kind,                 \* the QR format each scan carries
  EntryScans,           \* scans whose movement type is ENTRY
  AllowReEntry,         \* Event.allowReEntry
  Handlers,             \* HTTP requests the API can have in flight
  ScanWorkers,          \* BullMQ workers of the scan-processing queue
  ReconWorkers,         \* BullMQ workers of the offline-reconciliation queue
  MaxCrashes            \* bound on worker crashes and stalled-job redeliveries

Scans == 1..NumScans

ASSUME SizeAssumption == NumScans \in Nat /\ MaxCrashes \in Nat

ASSUME ScanAssumption ==
  /\ OfflineRegistrations \subseteq Registrations
  /\ RegOf \in [Scans -> Registrations]
  /\ Kind \in [Scans -> {"CANONICAL", "REFERENCE", "SIGNED"}]
  /\ EntryScans \subseteq Scans
  /\ AllowReEntry \in BOOLEAN

ASSUME ProcAssumption ==
  /\ Handlers \cap ScanWorkers = {}
  /\ Handlers \cap ReconWorkers = {}
  /\ ScanWorkers \cap ReconWorkers = {}

Procs == Handlers \cup ScanWorkers \cup ReconWorkers

VARIABLES
  \* database rows
  regActive,   \* Registration.status = ACTIVE, per registration
  qr,          \* QrToken row of a registration
  mapping,     \* OfflineRegistrationMapping row of a registration
  raw,         \* ScanEventRaw row of a scan
  rawResult,   \* its result column
  movement,    \* MovementLog row of a scan (unique by scanEventRawId)
  offline,     \* OfflineScanOperation row of a scan
  synced,      \* scans that have a SyncOperation row
  gateOpen,    \* event, device, staff session and checkpoint all usable
  \* queues
  scanJobs,    \* waiting scan.process jobs
  reconJobs,   \* waiting offline.registration.reconcile jobs
  reconOwed,   \* mappings SYNCED whose reconcile job is not yet added
  \* in-flight handlers
  pc,          \* next step of each process
  via,         \* which entry point it executes
  cur,         \* the scan it works on (0: none)
  saw,         \* the raw row it read before deciding
  linked,      \* whether the mapping it read had a registrationId
  dec,         \* the result it decided
  todo,        \* offline scans a reconciliation still has to replay
  before,      \* history: entries of the attendee recorded when it began
  \* observation
  admitted,    \* scans answered allowed:true, not provisional
  witness,     \* history: `before' of the process that recorded the movement
  crashes

db    == <<regActive, qr, mapping, raw, rawResult, movement, offline, synced, gateOpen>>
queue == <<scanJobs, reconJobs, reconOwed>>
local == <<via, cur, saw, linked, dec, todo, before>>
obs   == <<admitted, witness>>
vars  == <<db, queue, pc, local, obs, crashes>>

RawStatuses == {"NONE", "STALE_INVALID", "PENDING", "PROCESSED", "INVALID_QR", "FAILED"}
OfflineStatuses == {"NONE", "PENDING_LINK", "LINKED", "PROCESSED", "FAILED", "CONFLICTED"}
Labels == {"idle", "deleteStale", "validate", "recordInvalid", "findOffline",
           "createOffline", "recordWarning", "reentry", "commit", "scanFail",
           "fastCreate", "fastEnqueue", "readBatch", "createScan", "relink",
           "markConflict", "replay", "context", "linkMovement", "markProcessed",
           "next", "recFail"}

RowsTyped ==
  /\ regActive \in [Registrations -> BOOLEAN]
  /\ qr \in [Registrations -> {"NONE", "ACTIVE", "OUTSIDE_WINDOW", "REVOKED"}]
  /\ mapping \in [Registrations ->
                    {"NONE", "PENDING", "SYNCED", "CONFLICTED", "SYNCED_CONFLICTED"}]
  /\ raw \in [Scans -> RawStatuses]
  /\ rawResult \in [Scans -> {"NONE", "ALLOWED", "DENIED", "WARNING"}]
  /\ movement \in [Scans -> {"NONE", "ALLOWED", "DENIED"}]
  /\ offline \in [Scans -> OfflineStatuses]
  /\ synced \subseteq Scans
  /\ gateOpen \in BOOLEAN

QueuesTyped ==
  /\ scanJobs \subseteq Scans
  /\ reconJobs \subseteq Registrations
  /\ reconOwed \subseteq Registrations
  /\ admitted \subseteq Scans
  /\ witness \in [Scans -> SUBSET Scans]
  /\ crashes \in 0..MaxCrashes

HandlersTyped ==
  /\ pc \in [Procs -> Labels]
  /\ via \in [Procs -> {"none", "ingest", "fast", "worker", "batch", "reconcile"}]
  /\ cur \in [Procs -> Scans \cup {0}]
  /\ saw \in [Procs -> {"NONE", "STALE_INVALID", "ROW"}]
  /\ linked \in [Procs -> BOOLEAN]
  /\ dec \in [Procs -> {"ALLOWED", "DENIED"}]
  /\ todo \in [Procs -> SUBSET Scans]
  /\ before \in [Procs -> SUBSET Scans]

TypeOK == RowsTyped /\ QueuesTyped /\ HandlersTyped

-----------------------------------------------------------------------------
(* Reads the handlers make.                                                *)

\* An attendee's recorded entries: what getReentryDenial looks for.
Entries(r) == {o \in EntryScans : RegOf[o] = r /\ movement[o] = "ALLOWED"}

\* mapping.registrationId is set.
HasRegistration(r) == mapping[r] \in {"SYNCED", "SYNCED_CONFLICTED"}

\* Revoked, out of its window, or of an inactive registration: denied.
CanonicalOutcome(r) ==
  IF qr[r] = "ACTIVE" /\ regActive[r] THEN "valid" ELSE "invalid"

\* validateOfflineReferenceQrForScan: a compact O2 badge printed offline.
ReferenceOutcome(r) ==
  CASE mapping[r] \in {"NONE", "PENDING", "CONFLICTED"} -> "pendingReference"
    [] mapping[r] = "SYNCED_CONFLICTED"                 -> "invalid"
    [] OTHER                                            -> CanonicalOutcome(r)

\* validateOfflineQrForScan: a badge signed by the device.
SignedOutcome(r) ==
  IF mapping[r] = "SYNCED" THEN CanonicalOutcome(r) ELSE "pendingOffline"

\* validateQrForScan.
QrOutcome(o) ==
  CASE Kind[o] = "CANONICAL" -> CanonicalOutcome(RegOf[o])
    [] Kind[o] = "REFERENCE" -> ReferenceOutcome(RegOf[o])
    [] Kind[o] = "SIGNED"    -> SignedOutcome(RegOf[o])

\* ensureEventCanBeModified, ensureActiveDevice, ensureActiveStaffSession
\* and ensureActiveCheckpoint all pass.
ChecksPass == gateOpen

-----------------------------------------------------------------------------
(* Control of a process.                                                   *)

Goto(p, l) == pc' = [pc EXCEPT ![p] = l]

\* A process starts handling scan o.
Enter(p, entry, o, l) ==
  /\ pc[p] = "idle"
  /\ Goto(p, l)
  /\ via' = [via EXCEPT ![p] = entry]
  /\ cur' = [cur EXCEPT ![p] = o]
  /\ before' = [before EXCEPT ![p] = Entries(RegOf[o])]

\* A handler ends and forgets its local variables.
Leave(p) ==
  /\ Goto(p, "idle")
  /\ via' = [via EXCEPT ![p] = "none"]
  /\ cur' = [cur EXCEPT ![p] = 0]
  /\ saw' = [saw EXCEPT ![p] = "NONE"]
  /\ linked' = [linked EXCEPT ![p] = FALSE]
  /\ dec' = [dec EXCEPT ![p] = "DENIED"]
  /\ todo' = [todo EXCEPT ![p] = {}]
  /\ before' = [before EXCEPT ![p] = {}]

\* A handler returns: a reconciliation goes on with its next scan.
Return(p) ==
  IF via[p] = "reconcile"
  THEN Goto(p, "next") /\ UNCHANGED local
  ELSE Leave(p)

\* Mutant: processRawScan without its catch block.
ThrowUncaught(p) ==
  IF via[p] = "reconcile" THEN Goto(p, "recFail") /\ UNCHANGED local ELSE Leave(p)

\* Mutant: a failed replay is taken for one already done.
ThrowAsDuplicate(p) ==
  CASE via[p] = "worker"    -> Goto(p, "scanFail") /\ UNCHANGED local
    [] via[p] = "reconcile" -> Goto(p, "markProcessed") /\ UNCHANGED local
    [] OTHER                -> Leave(p)

\* A handler throws: processRawScan and the reconciliation loop catch.
Throw(p) ==
  CASE via[p] = "worker"    -> Goto(p, "scanFail") /\ UNCHANGED local
    [] via[p] = "reconcile" -> Goto(p, "recFail") /\ UNCHANGED local
    [] OTHER                -> Leave(p)

-----------------------------------------------------------------------------
(* POST /scans, POST /device/scans and SCAN_EVENT sync operations: ingest. *)

\* Looks the operationId up.  A PENDING or FAILED row is only echoed back.
BeginIngest(p, o) ==
  /\ p \in Handlers
  /\ \/ /\ raw[o] = "NONE"
        /\ Enter(p, "ingest", o, "validate")
        /\ UNCHANGED admitted
     \/ /\ raw[o] = "STALE_INVALID"
        /\ Enter(p, "ingest", o, "deleteStale")
        /\ UNCHANGED admitted
     \/ /\ raw[o] \in {"PROCESSED", "INVALID_QR"}
        /\ pc[p] = "idle"
        /\ rawResult[o] = "ALLOWED"
        /\ admitted' = admitted \cup {o}
        /\ UNCHANGED <<pc, via, cur, before>>
  /\ UNCHANGED <<db, queue, saw, linked, dec, todo, witness, crashes>>

\* Mutant: the row found by operationId is deleted, whatever it has become.
DeletableAsIs(o) == raw[o] # "NONE"

\* Deleting by the id read earlier, with a foreign key from MovementLog,
\* succeeds only while the row is the stale one, without a movement.
Deletable(o) == raw[o] = "STALE_INVALID"

\* An O2 scan once stored as INVALID_QR is deleted and validated afresh.
DeleteStale(p) ==
  /\ pc[p] = "deleteStale"
  /\ LET o == cur[p] IN
     IF Deletable(o)
     THEN /\ raw' = [raw EXCEPT ![o] = "NONE"]
          /\ rawResult' = [rawResult EXCEPT ![o] = "NONE"]
          /\ Goto(p, "validate")
          /\ UNCHANGED local
     ELSE Throw(p) /\ UNCHANGED <<raw, rawResult>>
  /\ UNCHANGED <<regActive, qr, mapping, movement, offline, synced, gateOpen,
                 queue, obs, crashes>>

\* Event, device, session and checkpoint checks, then validateQrForScan.
Validate(p) ==
  /\ pc[p] = "validate"
  /\ \/ ~ChecksPass /\ Throw(p)
     \/ /\ ChecksPass
        /\ Goto(p, CASE QrOutcome(cur[p]) = "valid"   -> "reentry"
                     [] QrOutcome(cur[p]) = "invalid" -> "recordInvalid"
                     [] OTHER                         -> "findOffline")
        /\ UNCHANGED local
  /\ UNCHANGED <<db, queue, obs, crashes>>

\* createInvalidScan (a second row for the operationId is refused) or, in
\* the worker, updateInvalidRawScan; then touchActivity, which may fail.
RecordInvalid(p) ==
  /\ pc[p] = "recordInvalid"
  /\ LET o == cur[p] IN
     \/ /\ saw[p] = "ROW" \/ raw[o] = "NONE"
        /\ raw' = [raw EXCEPT ![o] = "INVALID_QR"]
        /\ rawResult' = [rawResult EXCEPT ![o] = "DENIED"]
        /\ Return(p) \/ Throw(p)
     \/ /\ saw[p] # "ROW" /\ raw[o] # "NONE"
        /\ Throw(p)
        /\ UNCHANGED <<raw, rawResult>>
  /\ UNCHANGED <<regActive, qr, mapping, movement, offline, synced, gateOpen,
                 queue, obs, crashes>>

\* createPendingOffline...FromOnlineScan: find the operation first ...
FindOffline(p) ==
  /\ pc[p] = "findOffline"
  /\ IF offline[cur[p]] = "NONE"
     THEN Goto(p, "createOffline") /\ UNCHANGED local
     ELSE IF via[p] = "worker"
          THEN Goto(p, "recordWarning") /\ UNCHANGED local
          ELSE Return(p)
  /\ UNCHANGED <<db, queue, obs, crashes>>

\* ... then create it: the loser of a race hits the unique operationId.
CreateOffline(p) ==
  /\ pc[p] = "createOffline"
  /\ \/ /\ offline[cur[p]] = "NONE"
        /\ offline' = [offline EXCEPT ![cur[p]] = "PENDING_LINK"]
        /\ IF via[p] = "worker"
           THEN Goto(p, "recordWarning") /\ UNCHANGED local
           ELSE Return(p)
     \/ /\ offline[cur[p]] # "NONE"
        /\ Throw(p)
        /\ UNCHANGED offline
  /\ UNCHANGED <<regActive, qr, mapping, raw, rawResult, movement, synced,
                 gateOpen, queue, obs, crashes>>

\* Mutant: the replay of offline scans forgets the re-entry rule.
MayEnterUnlessOnline(p) == via[p] \in {"batch", "reconcile"} \/
  AllowReEntry \/ cur[p] \notin EntryScans \/ Entries(RegOf[cur[p]]) = {}

\* getReentryDenial returns null.
MayEnter(p) ==
  AllowReEntry \/ cur[p] \notin EntryScans \/ Entries(RegOf[cur[p]]) = {}

\* getCheckpointAccessDenial may deny any scan; getReentryDenial denies an
\* ENTRY of an attendee whose entry is already recorded.
DecideResult(p) ==
  /\ pc[p] = "reentry"
  /\ \/ /\ MayEnter(p)
        /\ dec' = [dec EXCEPT ![p] = "ALLOWED"]
     \/ dec' = [dec EXCEPT ![p] = "DENIED"]
  /\ Goto(p, "commit")
  /\ UNCHANGED <<db, queue, via, cur, saw, linked, todo, before, obs, crashes>>

\* Mutant: the movement is upserted by scanEventRawId.
CommitSucceedsUpsert(p) ==
  CASE saw[p] = "NONE"          -> raw[cur[p]] = "NONE"
    [] saw[p] = "STALE_INVALID" -> raw[cur[p]] = "STALE_INVALID"
    [] saw[p] = "ROW"           -> TRUE

\* Does the transaction that records the decision go through?  Inserting
\* needs a free operationId; updating the row read needs that row to exist
\* and to have no movement yet.
CommitSucceeds(p) ==
  LET o == cur[p] IN
  CASE saw[p] = "NONE"          -> raw[o] = "NONE"
    [] saw[p] = "STALE_INVALID" -> raw[o] = "STALE_INVALID"
    [] saw[p] = "ROW"           -> movement[o] = "NONE"

\* createProcessedScanAndMovement / updateRawScanAndCreateMovement.  An
\* online answer leaves only if touchActivity and the formatting succeed.
CommitDecision(p) ==
  /\ pc[p] = "commit"
  /\ LET o == cur[p] IN
     \/ /\ CommitSucceeds(p)
        /\ raw' = [raw EXCEPT ![o] = "PROCESSED"]
        /\ rawResult' = [rawResult EXCEPT ![o] = dec[p]]
        /\ movement' = [movement EXCEPT ![o] = dec[p]]
        /\ witness' = [witness EXCEPT ![o] = before[p]]
        /\ \/ /\ via[p] \in {"batch", "reconcile"}
              /\ Goto(p, "markProcessed")
              /\ UNCHANGED <<local, admitted>>
           \/ /\ via[p] \in {"ingest", "worker"}
              /\ Return(p)
              /\ admitted' = IF via[p] = "ingest" /\ dec[p] = "ALLOWED"
                             THEN admitted \cup {o} ELSE admitted
           \/ /\ via[p] \in {"ingest", "worker"}
              /\ Throw(p)
              /\ UNCHANGED admitted
     \/ /\ ~CommitSucceeds(p)
        /\ Throw(p)
        /\ UNCHANGED <<raw, rawResult, movement, witness, admitted>>
  /\ UNCHANGED <<regActive, qr, mapping, offline, synced, gateOpen, queue, crashes>>

-----------------------------------------------------------------------------
(* POST /device/scans/fast and the scan-processing worker.                 *)

BeginFast(p, o) ==
  /\ p \in Handlers
  /\ raw[o] = "NONE"
  /\ Enter(p, "fast", o, "fastCreate")
  /\ UNCHANGED <<db, queue, saw, linked, dec, todo, obs, crashes>>

FastCreate(p) ==
  /\ pc[p] = "fastCreate"
  /\ \/ /\ raw[cur[p]] = "NONE"
        /\ raw' = [raw EXCEPT ![cur[p]] = "PENDING"]
        /\ Goto(p, "fastEnqueue")
        /\ UNCHANGED local
     \/ /\ raw[cur[p]] # "NONE"
        /\ Throw(p)
        /\ UNCHANGED raw
  /\ UNCHANGED <<regActive, qr, mapping, rawResult, movement, offline, synced,
                 gateOpen, queue, obs, crashes>>

\* The job is added, or the queue refuses it and the error is only logged.
FastEnqueue(p) ==
  /\ pc[p] = "fastEnqueue"
  /\ scanJobs' = scanJobs \cup {cur[p]} \/ UNCHANGED scanJobs
  /\ Leave(p)
  /\ UNCHANGED <<db, reconJobs, reconOwed, obs, crashes>>

\* processRawScan: only a PENDING row is processed.
TakeScanJob(p, o) ==
  /\ p \in ScanWorkers
  /\ pc[p] = "idle"
  /\ o \in scanJobs
  /\ scanJobs' = scanJobs \ {o}
  /\ \/ /\ raw[o] = "PENDING"
        /\ Enter(p, "worker", o, "validate")
        /\ saw' = [saw EXCEPT ![p] = "ROW"]
     \/ /\ raw[o] # "PENDING"
        /\ UNCHANGED <<pc, via, cur, before, saw>>
  /\ UNCHANGED <<db, reconJobs, reconOwed, linked, dec, todo, obs, crashes>>

\* The scan was parked as an offline operation: its row becomes a warning.
RecordWarning(p) ==
  /\ pc[p] = "recordWarning"
  /\ raw' = [raw EXCEPT ![cur[p]] = "FAILED"]
  /\ rawResult' = [rawResult EXCEPT ![cur[p]] = "WARNING"]
  /\ Return(p) \/ Throw(p)
  /\ UNCHANGED <<regActive, qr, mapping, movement, offline, synced, gateOpen,
                 queue, obs, crashes>>

\* The catch block of processRawScan, whatever failed and whenever.
RecordFailure(p) ==
  /\ pc[p] = "scanFail"
  /\ raw' = [raw EXCEPT ![cur[p]] = "FAILED"]
  /\ rawResult' = [rawResult EXCEPT ![cur[p]] = "DENIED"]
  /\ Leave(p)
  /\ UNCHANGED <<regActive, qr, mapping, movement, offline, synced, gateOpen,
                 queue, obs, crashes>>

-----------------------------------------------------------------------------
(* OFFLINE_SCAN sync operations: ingestOfflineScan.                        *)

\* The batch has created the scan's SyncOperation, whose operationId is
\* unique: the same scan never reaches ingestOfflineScan twice.
BeginBatch(p, o) ==
  /\ p \in Handlers
  /\ Kind[o] = "SIGNED"
  /\ o \notin synced
  /\ synced' = synced \cup {o}
  /\ Enter(p, "batch", o, "readBatch")
  /\ UNCHANGED <<regActive, qr, mapping, raw, rawResult, movement, offline,
                 gateOpen, queue, saw, linked, dec, todo, obs, crashes>>

\* The checks, then the operation and the mapping are read together.
ReadBatch(p) ==
  /\ pc[p] = "readBatch"
  /\ LET o == cur[p] IN
     \/ ~ChecksPass /\ Throw(p)
     \/ /\ ChecksPass
        /\ offline[o] = "NONE"
        /\ Goto(p, "createScan")
        /\ linked' = [linked EXCEPT ![p] = HasRegistration(RegOf[o])]
        /\ UNCHANGED <<via, cur, saw, dec, todo, before>>
     \/ /\ ChecksPass
        /\ offline[o] # "NONE"             \* with another signed payload
        /\ Goto(p, "markConflict")
        /\ UNCHANGED local
     \/ /\ ChecksPass
        /\ offline[o] \in {"PENDING_LINK", "LINKED", "FAILED"}
        /\ HasRegistration(RegOf[o])
        /\ Goto(p, "relink")
        /\ UNCHANGED local
     \/ /\ ChecksPass
        /\ \/ offline[o] \in {"PROCESSED", "CONFLICTED"}
           \/ offline[o] # "NONE" /\ ~HasRegistration(RegOf[o])
        /\ Return(p)
  /\ UNCHANGED <<db, queue, obs, crashes>>

MarkConflict(p) ==
  /\ pc[p] = "markConflict"
  /\ offline' = [offline EXCEPT ![cur[p]] = "CONFLICTED"]
  /\ Return(p)
  /\ UNCHANGED <<regActive, qr, mapping, raw, rawResult, movement, synced,
                 gateOpen, queue, obs, crashes>>

Relink(p) ==
  /\ pc[p] = "relink"
  /\ offline' = [offline EXCEPT ![cur[p]] = "LINKED"]
  /\ Goto(p, "replay")
  /\ UNCHANGED <<regActive, qr, mapping, raw, rawResult, movement, synced,
                 gateOpen, queue, local, obs, crashes>>

\* The status stored, and whether to process now, follow the mapping as it
\* was read, not as it is.
CreateScan(p) ==
  /\ pc[p] = "createScan"
  /\ LET o == cur[p] IN
     \/ /\ offline[o] = "NONE"
        /\ linked[p]
        /\ offline' = [offline EXCEPT ![o] = "LINKED"]
        /\ Goto(p, "replay")
        /\ UNCHANGED local
     \/ /\ offline[o] = "NONE"
        /\ ~linked[p]
        /\ offline' = [offline EXCEPT ![o] = "PENDING_LINK"]
        /\ Return(p)
     \/ /\ offline[o] # "NONE"
        /\ Throw(p)
        /\ UNCHANGED offline
  /\ UNCHANGED <<regActive, qr, mapping, raw, rawResult, movement, synced,
                 gateOpen, queue, obs, crashes>>

-----------------------------------------------------------------------------
(* processOfflineScanOperation, run by batches and by reconciliation.      *)

Replay(p) ==
  /\ pc[p] = "replay"
  /\ LET o == cur[p] IN
     \/ /\ offline[o] = "PROCESSED"
        /\ Return(p)
     \/ /\ offline[o] # "PROCESSED"
        /\ movement[o] # "NONE"
        /\ Goto(p, "linkMovement")
        /\ UNCHANGED local
     \/ /\ offline[o] # "PROCESSED"
        /\ movement[o] = "NONE"
        /\ Goto(p, "context")
        /\ saw' = [saw EXCEPT ![p] =
                     IF raw[o] \in {"NONE", "STALE_INVALID"} THEN raw[o] ELSE "ROW"]
        /\ UNCHANGED <<via, cur, linked, dec, todo, before>>
  /\ UNCHANGED <<db, queue, obs, crashes>>

\* The scan was decided online meanwhile: only the link is stored.
LinkMovement(p) ==
  /\ pc[p] = "linkMovement"
  /\ offline' = [offline EXCEPT ![cur[p]] = "PROCESSED"]
  /\ Return(p)
  /\ UNCHANGED <<regActive, qr, mapping, raw, rawResult, movement, synced,
                 gateOpen, queue, obs, crashes>>

\* getCanonicalContextForOfflineScan: neither the registration's status nor
\* the validity window is consulted.  A closed gate throws, unless what
\* closed it is the end of the staff session, which a replay forgives.
FindContext(p) ==
  /\ pc[p] = "context"
  /\ LET r == RegOf[cur[p]] IN
     \/ /\ ~HasRegistration(r)
        /\ Return(p)
     \/ /\ HasRegistration(r)
        /\ qr[r] \notin {"ACTIVE", "OUTSIDE_WINDOW"} \/ ~ChecksPass
        /\ Throw(p)
     \/ /\ HasRegistration(r)
        /\ qr[r] \in {"ACTIVE", "OUTSIDE_WINDOW"}
        /\ Goto(p, "reentry")
        /\ UNCHANGED local
  /\ UNCHANGED <<db, queue, obs, crashes>>

MarkProcessed(p) ==
  /\ pc[p] = "markProcessed"
  /\ offline' = [offline EXCEPT ![cur[p]] = "PROCESSED"]
  /\ Return(p) \/ Throw(p)
  /\ UNCHANGED <<regActive, qr, mapping, raw, rawResult, movement, synced,
                 gateOpen, queue, obs, crashes>>

-----------------------------------------------------------------------------
(* reconcileOfflineRegistration.                                           *)

Reconcilable(r) ==
  {o \in Scans : /\ RegOf[o] = r
                 /\ Kind[o] # "CANONICAL"
                 /\ offline[o] \in {"PENDING_LINK", "LINKED", "FAILED"}}

TakeReconJob(p, r) ==
  /\ p \in ReconWorkers
  /\ pc[p] = "idle"
  /\ r \in reconJobs
  /\ reconJobs' = reconJobs \ {r}
  /\ Goto(p, "next")
  /\ via' = [via EXCEPT ![p] = "reconcile"]
  /\ todo' = [todo EXCEPT ![p] = Reconcilable(r)]
  /\ UNCHANGED <<db, scanJobs, reconOwed, cur, saw, linked, dec, before, obs, crashes>>

\* The scans are replayed in scannedAtDevice order; each is first marked
\* LINKED, whatever it has become since the list was read.
NextPending(p) ==
  /\ pc[p] = "next"
  /\ \/ /\ todo[p] = {}
        /\ Leave(p)
        /\ UNCHANGED offline
     \/ \E o \in todo[p] :
          /\ \A o2 \in todo[p] : o <= o2
          /\ offline' = [offline EXCEPT ![o] = "LINKED"]
          /\ Goto(p, "replay")
          /\ cur' = [cur EXCEPT ![p] = o]
          /\ todo' = [todo EXCEPT ![p] = @ \ {o}]
          /\ before' = [before EXCEPT ![p] = Entries(RegOf[o])]
          /\ UNCHANGED <<via, saw, linked, dec>>
  /\ UNCHANGED <<regActive, qr, mapping, raw, rawResult, movement, synced,
                 gateOpen, queue, obs, crashes>>

RecordReconFailure(p) ==
  /\ pc[p] = "recFail"
  /\ offline' = [offline EXCEPT ![cur[p]] = "FAILED"]
  /\ Goto(p, "next")
  /\ UNCHANGED <<regActive, qr, mapping, raw, rawResult, movement, synced,
                 gateOpen, queue, local, obs, crashes>>

\* enqueueOfflineReconciliation, after the mapping is SYNCED.
AddReconJob(r) ==
  /\ r \in reconOwed
  /\ reconOwed' = reconOwed \ {r}
  /\ reconJobs' = reconJobs \cup {r}
  /\ UNCHANGED <<db, scanJobs, pc, local, obs, crashes>>

-----------------------------------------------------------------------------
(* The rest of the system, as far as scans observe it.                     *)

SetMapping(r, m) == mapping' = [mapping EXCEPT ![r] = m]

\* runOfflineRegistration reserves the mapping, ...
ReserveMapping(r) ==
  /\ r \in OfflineRegistrations
  /\ mapping[r] = "NONE"
  /\ SetMapping(r, "PENDING")
  /\ UNCHANGED <<regActive, qr, raw, rawResult, movement, offline, synced, gateOpen,
                 queue, pc, local, obs, crashes>>

\* ... and, with the registration and its QR created, links it.
LinkMapping(r) ==
  /\ mapping[r] \in {"PENDING", "CONFLICTED"}
  /\ SetMapping(r, "SYNCED")
  /\ qr' = [qr EXCEPT ![r] = "ACTIVE"]
  /\ reconOwed' = reconOwed \cup {r}
  /\ UNCHANGED <<regActive, raw, rawResult, movement, offline, synced, gateOpen,
                 scanJobs, reconJobs, pc, local, obs, crashes>>

\* The identity is refused, or submitted again with another payload.
RefuseMapping(r) ==
  /\ mapping[r] \in {"PENDING", "SYNCED"}
  /\ SetMapping(r, IF mapping[r] = "SYNCED" THEN "SYNCED_CONFLICTED" ELSE "CONFLICTED")
  /\ UNCHANGED <<regActive, qr, raw, rawResult, movement, offline, synced, gateOpen,
                 queue, pc, local, obs, crashes>>

\* An administrator revokes the QR, or its validity window closes.
RetireQr(r) ==
  /\ \/ qr[r] \in {"ACTIVE", "OUTSIDE_WINDOW"} /\ qr' = [qr EXCEPT ![r] = "REVOKED"]
     \/ qr[r] = "ACTIVE" /\ qr' = [qr EXCEPT ![r] = "OUTSIDE_WINDOW"]
  /\ UNCHANGED <<regActive, mapping, raw, rawResult, movement, offline, synced,
                 gateOpen, queue, pc, local, obs, crashes>>

\* Cancel, block or activate the registration.
SetRegistrationStatus(r) ==
  /\ regActive' = [regActive EXCEPT ![r] = ~@]
  /\ UNCHANGED <<qr, mapping, raw, rawResult, movement, offline, synced, gateOpen,
                 queue, pc, local, obs, crashes>>

\* The event is archived, the device disabled, the session ended, the
\* checkpoint deactivated - or put back in service.
SetGate ==
  /\ gateOpen' = ~gateOpen
  /\ UNCHANGED <<regActive, qr, mapping, raw, rawResult, movement, offline, synced,
                 queue, pc, local, obs, crashes>>

\* A request is lost with its process; a job is delivered again.
Crash(p) ==
  /\ pc[p] # "idle"
  /\ crashes < MaxCrashes
  /\ crashes' = crashes + 1
  /\ Leave(p)
  /\ scanJobs' = IF via[p] = "worker" THEN scanJobs \cup {cur[p]} ELSE scanJobs
  /\ reconJobs' = IF via[p] = "reconcile"
                  THEN reconJobs \cup {RegOf[o] : o \in todo[p] \cup ({cur[p]} \ {0})}
                  ELSE reconJobs
  /\ UNCHANGED <<db, reconOwed, obs>>

\* A worker that lost its lock runs on while its job is delivered again.
Stall(p) ==
  /\ via[p] \in {"worker", "reconcile"}
  /\ cur[p] # 0
  /\ crashes < MaxCrashes
  /\ crashes' = crashes + 1
  /\ scanJobs' = IF via[p] = "worker" THEN scanJobs \cup {cur[p]} ELSE scanJobs
  /\ reconJobs' = IF via[p] = "reconcile" THEN reconJobs \cup {RegOf[cur[p]]} ELSE reconJobs
  /\ UNCHANGED <<db, reconOwed, pc, local, obs>>

\* The sync request dies between the SYNCED mapping and the queue.
LoseReconJob(r) ==
  /\ r \in reconOwed
  /\ crashes < MaxCrashes
  /\ crashes' = crashes + 1
  /\ reconOwed' = reconOwed \ {r}
  /\ UNCHANGED <<db, scanJobs, reconJobs, pc, local, obs>>

-----------------------------------------------------------------------------
Init ==
  /\ regActive = [r \in Registrations |-> TRUE]
  /\ qr = [r \in Registrations |->
             IF r \in OfflineRegistrations THEN "NONE" ELSE "ACTIVE"]
  /\ mapping = [r \in Registrations |-> "NONE"]
  /\ raw \in [Scans -> {"NONE", "STALE_INVALID"}]
  /\ \A o \in Scans : raw[o] = "STALE_INVALID" => Kind[o] = "REFERENCE"
  /\ rawResult = [o \in Scans |-> IF raw[o] = "NONE" THEN "NONE" ELSE "DENIED"]
  /\ movement = [o \in Scans |-> "NONE"]
  /\ offline = [o \in Scans |-> "NONE"]
  /\ synced = {}
  /\ gateOpen = TRUE
  /\ scanJobs = {} /\ reconJobs = {} /\ reconOwed = {}
  /\ pc = [p \in Procs |-> "idle"]
  /\ via = [p \in Procs |-> "none"]
  /\ cur = [p \in Procs |-> 0]
  /\ saw = [p \in Procs |-> "NONE"]
  /\ linked = [p \in Procs |-> FALSE]
  /\ dec = [p \in Procs |-> "DENIED"]
  /\ todo = [p \in Procs |-> {}]
  /\ before = [p \in Procs |-> {}]
  /\ admitted = {}
  /\ witness = [o \in Scans |-> {}]
  /\ crashes = 0

\* The steps of a handler already under way.
Step(p) ==
  \/ DeleteStale(p) \/ Validate(p) \/ RecordInvalid(p)
  \/ FindOffline(p) \/ CreateOffline(p)
  \/ DecideResult(p) \/ CommitDecision(p)
  \/ FastCreate(p) \/ FastEnqueue(p)
  \/ RecordWarning(p) \/ RecordFailure(p)
  \/ ReadBatch(p) \/ MarkConflict(p) \/ Relink(p) \/ CreateScan(p)
  \/ Replay(p) \/ LinkMovement(p) \/ FindContext(p) \/ MarkProcessed(p)
  \/ NextPending(p) \/ RecordReconFailure(p)

\* A process starts, or dies.
Arrive(p) ==
  \/ \E o \in Scans : \/ BeginIngest(p, o) \/ BeginFast(p, o)
                      \/ BeginBatch(p, o) \/ TakeScanJob(p, o)
  \/ \E r \in Registrations : TakeReconJob(p, r)
  \/ Crash(p) \/ Stall(p)

Environment ==
  \/ \E r \in Registrations :
       \/ AddReconJob(r) \/ LoseReconJob(r)
       \/ ReserveMapping(r) \/ LinkMapping(r) \/ RefuseMapping(r)
       \/ RetireQr(r) \/ SetRegistrationStatus(r)
  \/ SetGate

Next == (\E p \in Procs : Step(p) \/ Arrive(p)) \/ Environment

Spec == Init /\ [][Next]_vars

\* The Node.js event loop resumes every handler, and a free BullMQ worker
\* takes a waiting job.  Nothing obliges clients or administrators to act.
Fairness ==
  /\ \A p \in Procs : WF_vars(Step(p))
  /\ \A p \in ScanWorkers : \A o \in Scans : WF_vars(TakeScanJob(p, o))
  /\ \A p \in ReconWorkers : \A r \in Registrations : WF_vars(TakeReconJob(p, r))
  /\ \A r \in Registrations : WF_vars(AddReconJob(r))

FairSpec == Spec /\ Fairness

-----------------------------------------------------------------------------
(* Safety.                                                                 *)

\* A row that says PROCESSED is backed by the movement of the same result:
\* no failed second attempt may leave the row and the log disagreeing while
\* the row still claims success (updateRawScanAndCreateMovement).
ProcessedAgreesWithMovement ==
  \A o \in Scans : raw[o] = "PROCESSED" =>
     movement[o] # "NONE" /\ movement[o] = rawResult[o]

\* A recorded movement never loses the raw scan it points at, although
\* ingest deletes stale INVALID_QR rows it read earlier.
MovementKeepsItsScan ==
  \A o \in Scans : movement[o] # "NONE" => raw[o] \notin {"NONE", "STALE_INVALID"}

\* An offline scan reported PROCESSED has its movement in the log, whichever
\* of the batch, the reconciliation and an online attempt recorded it.
ReplayedHasMovement ==
  \A o \in Scans : offline[o] = "PROCESSED" => movement[o] # "NONE"

\* The gate is never told a final allowed:true, first answer or duplicate
\* answer, for a scan whose movement is not ALLOWED.
AdmittedHasMovement ==
  \A o \in admitted : movement[o] = "ALLOWED"

\* Without re-entry, two entries of one attendee are both ALLOWED only if
\* their handlers overlapped: an attempt that began after an entry was
\* recorded is denied, on the online, worker and replay paths alike.
NoLateSecondEntry ==
  ~AllowReEntry =>
    \A o \in EntryScans : movement[o] = "ALLOWED" => witness[o] = {}

\* No attempt, retry or redelivery rewrites or removes a recorded movement.
MovementIsFinal ==
  [][\A o \in Scans : movement[o] # "NONE" => movement'[o] = movement[o]]_vars

\* Why they hold: the inductive strengthening, also checked by TLC.

\* Only a PROCESSED row carries ALLOWED into a duplicate answer.
InvalidIsDenied == \A o \in Scans : raw[o] = "INVALID_QR" => rawResult[o] = "DENIED"

\* A process works on a scan unless it is idle or between two replays.
HasScan(p) ==
  cur[p] = 0 => pc[p] = "idle" \/ (pc[p] = "next" /\ via[p] = "reconcile")

\* What a process in the middle of a handler knows of its scan.
HandlerKnows(p) ==
  /\ HasScan(p)
  /\ pc[p] \in {"linkMovement", "markProcessed"} => movement[cur[p]] # "NONE"
  /\ cur[p] # 0 => before[p] \subseteq Entries(RegOf[cur[p]])
  /\ (pc[p] = "commit" /\ dec[p] = "ALLOWED" /\ cur[p] \in EntryScans /\ ~AllowReEntry)
       => before[p] = {}

IInv ==
  /\ TypeOK
  /\ ProcessedAgreesWithMovement
  /\ MovementKeepsItsScan
  /\ InvalidIsDenied
  /\ ReplayedHasMovement
  /\ AdmittedHasMovement
  /\ NoLateSecondEntry
  /\ \A p \in Procs : HandlerKnows(p)

\* The whole of it: every step of the handlers, seen through the movements,
\* the answers and the entries each attempt knew of, is a step of ScanLedger.
Ledger == INSTANCE ScanLedger
ImplementsLedger == Ledger!Spec

-----------------------------------------------------------------------------
(* Liveness.                                                               *)

\* A fast scan that reached the queue leaves PENDING, through worker crashes,
\* redeliveries and failing checks.
QueuedScanIsDecided ==
  \A o \in Scans : (o \in scanJobs) ~> (raw[o] # "PENDING")
=============================================================================
