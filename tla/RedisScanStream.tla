--------------------------- MODULE RedisScanStream ---------------------------
(***************************************************************************)
(* RedisService.enqueueRawScan and RedisScanFlusherService: scans posted   *)
(* to /device/scans/redis-fast go to a Redis stream, from which a timer in *)
(* each API process copies them to ScanEventRaw.  The process only         *)
(* remembers in memory how far it has read.                                *)
(***************************************************************************)
EXTENDS Naturals, Sequences, SequencesExt

CONSTANTS
  Scans,      \* operationIds
  Orphans,    \* scans naming a session or checkpoint that does not exist
  Requests,   \* requests in flight
  Flushers,   \* API processes
  BatchSize,  \* REDIS_SCAN_FLUSH_BATCH_SIZE
  MaxFaults   \* bound on failures, expired keys, deaths and restarts

NoScan == "none"

ASSUME StreamAssumption ==
  /\ Orphans \subseteq Scans /\ NoScan \notin Scans
  /\ BatchSize \in Nat \ {0} /\ MaxFaults \in Nat

VARIABLES
  keys,      \* scan:op:<operationId> keys that exist
  stream,    \* scan:ingest
  raw,       \* ScanEventRaw.status; DECIDED is any but PENDING
  adding,    \* the scan a request is about to add to the stream
  accepted,  \* scans answered accepted:true
  lastId,    \* position in the stream of a flusher
  batch,     \* the entries it has read and not stored
  stored,    \* entries of the stream that reached ScanEventRaw (history)
  faults

streamVars == <<keys, stream, raw, adding, accepted, lastId, batch, stored, faults>>

StreamTypeOK ==
  /\ keys \subseteq Scans
  /\ stream \in Seq(Scans)
  /\ raw \in [Scans -> {"NONE", "PENDING", "DECIDED"}]
  /\ adding \in [Requests -> Scans \cup {NoScan}]
  /\ accepted \subseteq Scans
  /\ lastId \in [Flushers -> 0..Len(stream)]
  /\ batch \in [Flushers -> Seq(Scans)]
  /\ stored \subseteq Scans
  /\ faults \in 0..MaxFaults

Fault == faults < MaxFaults /\ faults' = faults + 1

-----------------------------------------------------------------------------
(* enqueueRawScan.                                                         *)

\* SET NX: a second request is told that the scan is queued.
Submit(r, o) ==
  /\ adding[r] = NoScan
  /\ IF o \in keys
     THEN accepted' = accepted \cup {o} /\ UNCHANGED <<keys, adding>>
     ELSE /\ keys' = keys \cup {o}
          /\ adding' = [adding EXCEPT ![r] = o]
          /\ UNCHANGED accepted
  /\ UNCHANGED <<stream, raw, lastId, batch, stored, faults>>

\* XADD, after which the request is answered; if it fails, with a 503.
Add(r) ==
  /\ adding[r] # NoScan
  /\ \/ /\ stream' = Append(stream, adding[r])
        /\ accepted' = accepted \cup {adding[r]}
        /\ UNCHANGED faults
     \/ Fault /\ UNCHANGED <<stream, accepted>>
  /\ adding' = [adding EXCEPT ![r] = NoScan]
  /\ UNCHANGED <<keys, raw, lastId, batch, stored>>

\* A key lives for a day.
KeyExpires(o) ==
  /\ o \in keys
  /\ Fault
  /\ keys' = keys \ {o}
  /\ UNCHANGED <<stream, raw, adding, accepted, lastId, batch, stored>>

-----------------------------------------------------------------------------
(* flushOnce; the flag `flushing' keeps a process to one at a time.        *)

\* Mutant: the position is taken when the entries are read.
PositionOnRead(i, n) == lastId[i] + n

\* Reading does not move lastId.
PositionAfterRead(i, n) == lastId[i]

\* XREAD from lastId.
Read(i) ==
  /\ batch[i] = <<>>
  /\ lastId[i] < Len(stream)
  /\ LET unread == SubSeq(stream, lastId[i] + 1, Len(stream))
         entries == SubSeq(unread, 1, IF Len(unread) < BatchSize THEN Len(unread) ELSE BatchSize)
     IN /\ batch' = [batch EXCEPT ![i] = entries]
        /\ lastId' = [lastId EXCEPT ![i] = PositionAfterRead(i, Len(entries))]
  /\ UNCHANGED <<keys, stream, raw, adding, accepted, stored, faults>>

\* createMany with skipDuplicates (INSERT IGNORE): a row that exists is kept,
\* one whose session or checkpoint is missing is dropped.
Store(o) == IF raw[o] = "NONE" /\ o \notin Orphans THEN "PENDING" ELSE raw[o]

\* Mutant: the position is not advanced.
PositionStays(i) == lastId[i]

PositionAfterStore(i) == lastId[i] + Len(batch[i])

\* The batch is stored and lastId moves past it; or neither happens, and the
\* next tick reads it again.
Insert(i) ==
  /\ batch[i] # <<>>
  /\ \/ /\ raw' = [o \in Scans |-> IF o \in ToSet(batch[i]) THEN Store(o) ELSE raw[o]]
        /\ stored' = stored \cup (ToSet(batch[i]) \ Orphans)
        /\ lastId' = [lastId EXCEPT ![i] = PositionAfterStore(i)]
        /\ UNCHANGED faults
     \/ Fault /\ UNCHANGED <<raw, stored, lastId>>
  /\ batch' = [batch EXCEPT ![i] = <<>>]
  /\ UNCHANGED <<keys, stream, adding, accepted>>

\* A new process starts from the beginning of the stream; the requests of the
\* old one die with it.
Restart(i) ==
  /\ Fault
  /\ lastId' = [lastId EXCEPT ![i] = 0]
  /\ batch' = [batch EXCEPT ![i] = <<>>]
  /\ \E dead \in SUBSET Requests :
       adding' = [r \in Requests |-> IF r \in dead THEN NoScan ELSE adding[r]]
  /\ UNCHANGED <<keys, stream, raw, accepted, stored>>

-----------------------------------------------------------------------------
(* The rest of the system.                                                 *)

\* ingest decides a scan the device sent to POST /device/scans as well; it
\* only echoes one that is PENDING.
DecideElsewhere(o) ==
  /\ raw[o] = "NONE"
  /\ o \notin Orphans
  /\ raw' = [raw EXCEPT ![o] = "DECIDED"]
  /\ UNCHANGED <<keys, stream, adding, accepted, lastId, batch, stored, faults>>

\* RegistrationsService.remove deletes the scans of the attendee.
RemoveAttendee(o) ==
  /\ raw[o] = "DECIDED"
  /\ raw' = [raw EXCEPT ![o] = "NONE"]
  /\ UNCHANGED <<keys, stream, adding, accepted, lastId, batch, stored, faults>>

-----------------------------------------------------------------------------
StreamInit ==
  /\ keys = {}
  /\ stream = <<>>
  /\ raw = [o \in Scans |-> "NONE"]
  /\ adding = [r \in Requests |-> NoScan]
  /\ accepted = {}
  /\ lastId = [i \in Flushers |-> 0]
  /\ batch = [i \in Flushers |-> <<>>]
  /\ stored = {}
  /\ faults = 0

Flush(i) == Read(i) \/ Insert(i)

StreamNext ==
  \/ \E r \in Requests : Add(r) \/ \E o \in Scans : Submit(r, o)
  \/ \E i \in Flushers : Flush(i) \/ Restart(i)
  \/ \E o \in Scans : KeyExpires(o) \/ DecideElsewhere(o) \/ RemoveAttendee(o)

StreamSpec == StreamInit /\ [][StreamNext]_streamVars

\* The flush timer ticks every second; a request is carried on.
FairStream ==
  /\ StreamSpec
  /\ \A r \in Requests : WF_streamVars(Add(r))
  /\ \A i \in Flushers : WF_streamVars(Flush(i))

-----------------------------------------------------------------------------
(* Properties.                                                             *)

\* What a flusher has passed over is stored: a failed createMany, a restart or
\* another flusher leaves no gap behind lastId.
NothingSkipped ==
  \A i \in Flushers : \A n \in 1..lastId[i] : stream[n] \in stored \cup Orphans

\* Every scan in the stream is copied to ScanEventRaw, through restarts and
\* failures of the database.
StreamIsStored ==
  \A o \in Scans \ Orphans : (o \in ToSet(stream)) ~> (o \in stored)

=============================================================================
