----------------------------- MODULE ImportJobs -----------------------------
(***************************************************************************)
(* ImportsService and its processor: an uploaded file becomes an import    *)
(* job with one row per line, and queue workers turn its rows into         *)
(* registrations while administrators and visitors work on the same event. *)
(* A worker may die, stall (its job is delivered again while it goes on)   *)
(* or fail to write.  The wait for a long WhatsApp queue changes nothing   *)
(* and is left out.                                                        *)
(***************************************************************************)
EXTENDS ImportFile, Registrations

CONSTANTS
  Uploads,       \* import requests, numbered: [sheet, header, start, mapping, kind,
                 \* duplicates], with <<>> or 0 for what is not given
  DefaultType,   \* the attendee type of lines that name none
  Workers,
  ChunkSize,     \* rows a worker reads at a time
  MaxFaults,     \* bound on crashes, stalls and failing writes
  MaxChanges     \* bound on what others do to the event

ASSUME ImportAssumption ==
  /\ ChunkSize \in Nat \ {0} /\ MaxFaults \in Nat /\ MaxChanges \in Nat
  /\ None \notin Workers
  /\ \A u \in 1..Len(Uploads) :
       /\ Uploads[u].sheet \in Seq(Seq(Cells))
       /\ Uploads[u].header \in Nat /\ Uploads[u].start \in Nat
       /\ Uploads[u].duplicates \in {"SKIP", "FAIL", "UPDATE_EXISTING"}

VARIABLES
  upload,     \* the request the job was made of, or 0
  job,        \* ImportJob: status and counters
  row,        \* ImportRow by line number
  queued,     \* the import.process job: state and attempts made
  pc,         \* next step of a worker
  todo,       \* rows of the chunk it has still to process
  kinds,      \* attendee types active when it read them
  found,      \* the registration it found or made for the row
  counts,     \* what it counted before the job is finished
  faults, changes,
  hit         \* rows a fault may have struck, and 0 for a job two workers had
              \* (history)

jobVars == <<upload, job, row, queued>>
workerVars == <<pc, todo, kinds, found, counts>>
faultVars == <<faults, changes, hit>>
vars == <<reg, types, archived, jobVars, workerVars, faultVars>>

NoRow == [status |-> "GONE", reg |-> 0, action |-> None]
NoCounts == [PROCESSED |-> 0, FAILED |-> 0, DUPLICATE |-> 0, PENDING |-> 0]
Attempts == 3

-----------------------------------------------------------------------------
(* The request.                                                            *)

HeaderRow(u) == IF u.header = 0 THEN DetectHeaderRow(u.sheet) ELSE u.header
DataStart(u) == IF u.start = 0 THEN HeaderRow(u) + 1 ELSE u.start
Parsed(u) == ParseFile(u.sheet, HeaderRow(u), DataStart(u))

\* The files of the uploads, and the mappings of their jobs: the given one or
\* the suggested one.
File ==
  [u \in {v \in 1..Len(Uploads) :
            ParserAccepts(Uploads[v].sheet, HeaderRow(Uploads[v]), DataStart(Uploads[v]))}
     |-> Parsed(Uploads[u])]
NormalizeMapping(given) ==
  [f \in DOMAIN NoMapping |-> IF f \in DOMAIN given THEN given[f] ELSE None]
Mapping ==
  [u \in DOMAIN File |->
     IF Uploads[u].mapping = <<>> THEN SuggestMapping(File[u])
     ELSE NormalizeMapping(Uploads[u].mapping)]
Request == Uploads[upload]

\* ensureEventCanBeModified and ensureAttendeeTypeBelongsToEvent.
EventAllows(kind) == ~archived /\ kind \in types \cup {None}

\* createImportJobFromFile and createJob; a failure deletes what it has made.
CreateJob(u) ==
  /\ job.status = "NONE" /\ EventAllows(Uploads[u].kind)
  /\ DOMAIN File[u].rows # {}
  /\ ValidMapping(File[u], Mapping[u], Uploads[u].kind)
  /\ upload' = u
  /\ job' = [job EXCEPT !.status = "PENDING"]
  /\ row' = [i \in DOMAIN File[u].rows |-> [NoRow EXCEPT !.status = "PENDING"]]
  /\ UNCHANGED <<reg, types, archived, queued, workerVars, faultVars>>

\* importRegistrations hands the job to the queue; if it is refused, the job
\* has failed.
Enqueue ==
  /\ job.status = "PENDING" /\ queued.state = "none"
  /\ \/ /\ queued' = [queued EXCEPT !.state = "waiting"]
        /\ UNCHANGED <<job, faults>>
     \/ /\ faults < MaxFaults
        /\ faults' = faults + 1
        /\ job' = [job EXCEPT !.status = "FAILED"]
        /\ UNCHANGED queued
  /\ UNCHANGED <<reg, types, archived, upload, row, workerVars, changes, hit>>

-----------------------------------------------------------------------------
(* processImportJob.                                                       *)

Final == {"COMPLETED", "PARTIAL_FAILED", "FAILED"}
Unmoved == UNCHANGED <<reg, types, archived, upload, faultVars>>
Goto(w, step) == pc' = [pc EXCEPT ![w] = step]

Forget(w) ==
  /\ todo' = [todo EXCEPT ![w] = {}]
  /\ kinds' = [kinds EXCEPT ![w] = {}]
  /\ found' = [found EXCEPT ![w] = 0]
  /\ counts' = [counts EXCEPT ![w] = NoCounts]

\* The queue job is done, or has failed an attempt; a worker that lost its lock
\* on the job reports in vain.
Return(w, state, tries) ==
  /\ Goto(w, "idle") /\ Forget(w)
  /\ queued' = IF queued.owner = w THEN [state |-> state, tries |-> tries, owner |-> None]
               ELSE queued

Finish(w) == Return(w, "done", queued.tries)

\* Mutant: a failed attempt is neither repeated nor reported as failed.
FailAttemptSilently(w) == Return(w, "active", queued.tries + 1)

\* An exception leaves the service: one of three attempts has failed.
FailAttempt(w) ==
  Return(w, IF queued.tries + 1 < Attempts THEN "waiting" ELSE "failed", queued.tries + 1)

Throw(w) ==
  /\ FailAttempt(w)
  /\ Unmoved /\ UNCHANGED <<job, row>>

Take(w) ==
  /\ pc[w] = "idle" /\ queued.state = "waiting"
  /\ queued' = [queued EXCEPT !.state = "active", !.owner = w]
  /\ Goto(w, "begin")
  /\ Unmoved /\ UNCHANGED <<job, row, todo, kinds, found, counts>>

\* A job that has ended is left alone.  Otherwise the event, its fields and its
\* attendee types are read once for all the rows.
Begin(w) ==
  /\ pc[w] = "begin"
  /\ \/ job.status \in Final /\ Finish(w) /\ Unmoved /\ UNCHANGED <<job, row>>
     \/ /\ job.status \notin Final
        /\ archived \/ types = {} \/ (Request.kind # None /\ Request.kind \notin types)
        /\ Throw(w)
     \/ /\ job.status \notin Final
        /\ ~archived /\ types # {} /\ Request.kind \in types \cup {None}
        /\ kinds' = [kinds EXCEPT ![w] = types]
        /\ Goto(w, "start")
        /\ Unmoved /\ UNCHANGED <<job, row, queued, todo, found, counts>>

Start(w) ==
  /\ pc[w] = "start"
  /\ job' = [job EXCEPT !.status = "PROCESSING"]
  /\ Goto(w, "fetch")
  /\ Unmoved /\ UNCHANGED <<row, queued, todo, kinds, found, counts>>

Pending == {i \in DOMAIN row : row[i].status = "PENDING"}

Fetch(w) ==
  /\ pc[w] = "fetch"
  /\ todo' = [todo EXCEPT ![w] =
                {i \in Pending : Cardinality({j \in Pending : j <= i}) <= ChunkSize}]
  /\ Goto(w, IF Pending = {} THEN "count" ELSE "find")
  /\ Unmoved /\ UNCHANGED <<job, row, queued, kinds, found, counts>>

\* What row i of a file asks for, given the active attendee types.
Asked == [u \in DOMAIN File |-> [i \in DOMAIN File[u].rows |-> [active \in SUBSET Types |->
  NormalizeRow(File[u], i, Mapping[u], Uploads[u].kind, active,
               IF DefaultType \in active THEN DefaultType ELSE None)]]]

\* The row in hand.
Cur(w) == Min(todo[w])
Data(w) == Asked[upload][Cur(w)][kinds[w]]
Matches(data) == {i \in Live : \E f \in Identifiers : Shares(i, data, f)}

\* findExistingRegistration, before the row is created and once more when the
\* creation meets a conflict.
Find(w) ==
  /\ pc[w] \in {"find", "refind"}
  /\ LET match == Matches(Data(w)) IN
     \/ /\ Data(w).kind = None \/ Cardinality(match) > 1
        /\ Goto(w, "fail") /\ UNCHANGED found
     \/ /\ Data(w).kind # None /\ match = {}
        /\ Goto(w, IF pc[w] = "find" THEN "create" ELSE "fail") /\ UNCHANGED found
     \/ /\ Data(w).kind # None
        /\ \E i \in Ids : match = {i} /\ found' = [found EXCEPT ![w] = i]
        /\ Goto(w, "existing")
  /\ Unmoved /\ UNCHANGED <<job, row, queued, todo, kinds, counts>>

\* createFromImport, with the event and attendee types read before.
Insert(w) ==
  /\ NextId \in Ids
  /\ FieldsAccepted(Data(w)) /\ Accepted(Data(w), {})
  /\ reg' = Added(Data(w), Cur(w))

\* Mutant: a queue that refuses the pipeline job fails the creation.
CreateOrThrow(w) ==
  /\ pc[w] = "create"
  /\ Insert(w) /\ Goto(w, "fail")
  /\ UNCHANGED <<jobVars, todo, kinds, found, counts, types, archived, faultVars>>

Create(w) ==
  /\ pc[w] = "create"
  /\ \/ /\ Insert(w)
        /\ found' = [found EXCEPT ![w] = NextId]
        /\ Goto(w, "created")
     \/ /\ ~FieldsAccepted(Data(w))
        /\ Goto(w, "fail") /\ UNCHANGED <<reg, found>>
     \/ /\ FieldsAccepted(Data(w)) /\ ~Accepted(Data(w), {})
        /\ Goto(w, "refind") /\ UNCHANGED <<reg, found>>
  /\ UNCHANGED <<jobVars, todo, kinds, counts, types, archived, faultVars>>

\* The row is written, and the next one is in hand.
Advance(w) ==
  /\ todo' = [todo EXCEPT ![w] = @ \ {Cur(w)}]
  /\ found' = [found EXCEPT ![w] = 0]
  /\ Goto(w, IF todo[w] = {Cur(w)} THEN "fetch" ELSE "find")
  /\ UNCHANGED <<queued, kinds, counts>>

Write(w, status, i, action) ==
  /\ row[Cur(w)].status # "GONE"
  /\ row' = [row EXCEPT ![Cur(w)] = [status |-> status, reg |-> i, action |-> action]]
  /\ Advance(w)
  /\ Unmoved /\ UNCHANGED job

\* A write that names a registration meets its foreign key.
CanName(w) == row[Cur(w)].status # "GONE" /\ found[w] \in Live

\* A write that fails after a creation is caught, one after an update is not.
FailMark(w) ==
  \/ /\ pc[w] = "created" /\ Goto(w, "fail")
     /\ UNCHANGED <<jobVars, todo, kinds, found, counts, reg, types, archived>>
  \/ /\ pc[w] = "updated"
     /\ FailAttempt(w)
     /\ UNCHANGED <<upload, job, row, reg, types, archived>>

\* markRowProcessed.
Mark(w) ==
  /\ pc[w] \in {"created", "updated"}
  /\ \/ CanName(w) /\ Write(w, "PROCESSED", found[w], pc[w])
     \/ ~CanName(w) /\ FailMark(w) /\ UNCHANGED faultVars

\* The catch of processImportRow; its own failure leaves the service.
Fail(w) ==
  /\ pc[w] = "fail"
  /\ \/ Write(w, "FAILED", row[Cur(w)].reg, row[Cur(w)].action)
     \/ row[Cur(w)].status = "GONE" /\ Throw(w)

\* What UPDATE_EXISTING writes: all the row has.
Renewal(w) == [f \in Identifiers \cup {"kind"} |-> Data(w)[f]]

\* handleExistingRegistration.  It is returned without await: no catch of
\* processImportRow sees what it throws.
Existing(w) ==
  /\ pc[w] = "existing"
  /\ \/ /\ Request.duplicates = "SKIP" /\ CanName(w)
        /\ Write(w, "DUPLICATE", found[w], None)
     \/ /\ Request.duplicates = "UPDATE_EXISTING" /\ MayUpdate(found[w], Renewal(w))
        /\ reg' = Updated(found[w], Renewal(w))
        /\ Goto(w, "updated")
        /\ UNCHANGED <<types, archived, jobVars, todo, kinds, found, counts, faultVars>>
     \/ /\ \/ Request.duplicates = "FAIL"
           \/ Request.duplicates = "SKIP" /\ ~CanName(w)
           \/ Request.duplicates = "UPDATE_EXISTING" /\ ~MayUpdate(found[w], Renewal(w))
        /\ Throw(w)

-----------------------------------------------------------------------------
(* finalizeImportJob.                                                      *)

\* Mutant: rows that failed before they had a registration are not counted.
WithNamed(status) == Cardinality({i \in DOMAIN row : row[i].status = status /\ row[i].reg # 0})

With(status) == Cardinality({i \in DOMAIN row : row[i].status = status})

Count(w) ==
  /\ pc[w] = "count"
  /\ counts' = [counts EXCEPT ![w] = [s \in DOMAIN NoCounts |-> With(s)]]
  /\ Goto(w, "final")
  /\ Unmoved /\ UNCHANGED <<job, row, queued, todo, kinds, found>>

GetJobStatus(c) ==
  IF c.PENDING > 0 THEN "PROCESSING"
  ELSE IF c.FAILED = 0 THEN "COMPLETED"
  ELSE IF c.PROCESSED = 0 /\ c.DUPLICATE = 0 THEN "FAILED" ELSE "PARTIAL_FAILED"

Finalize(w) ==
  /\ pc[w] = "final"
  /\ job' = [status |-> GetJobStatus(counts[w]), counts |-> counts[w]]
  /\ Finish(w)
  /\ Unmoved /\ UNCHANGED row

-----------------------------------------------------------------------------
(* Faults.                                                                 *)

Fault(rows) ==
  /\ faults < MaxFaults
  /\ faults' = faults + 1
  /\ hit' = hit \cup rows
  /\ UNCHANGED changes

\* The worker dies; its job is delivered again.
Crash(w) ==
  /\ pc[w] # "idle"
  /\ Fault({i \in todo[w] : i = Cur(w)})
  /\ Return(w, "waiting", queued.tries)
  /\ UNCHANGED <<reg, types, archived, upload, job, row>>

\* The job is taken for stalled, and delivered again while the worker goes on.
Stall(w) ==
  /\ queued.owner = w
  /\ Fault({0} \cup todo[w] \cup Pending)
  /\ queued' = [queued EXCEPT !.state = "waiting", !.owner = None]
  /\ UNCHANGED <<reg, types, archived, upload, job, row, workerVars>>

\* The row cannot be written.
FailWrite(w) ==
  /\ pc[w] \in {"created", "updated"}
  /\ Fault({Cur(w)}) /\ FailMark(w)

\* An administrator or a visitor works on the event; a removed registration
\* takes the rows that name it along.
Others ==
  /\ changes < MaxChanges
  /\ changes' = changes + 1
  /\ \/ (Register \/ Retire \/ \E i \in Live : Update(i)) /\ UNCHANGED row
     \/ \E i \in Live :
          /\ Delete(i)
          /\ row' = [n \in DOMAIN row |-> IF row[n].reg = i THEN NoRow ELSE row[n]]
  /\ UNCHANGED <<upload, job, queued, workerVars, faults, hit>>

-----------------------------------------------------------------------------
Init ==
  /\ InitRegistrations
  /\ upload = 0
  /\ job = [status |-> "NONE", counts |-> NoCounts]
  /\ row = <<>>
  /\ queued = [state |-> "none", tries |-> 0, owner |-> None]
  /\ pc = [w \in Workers |-> "idle"]
  /\ todo = [w \in Workers |-> {}]
  /\ kinds = [w \in Workers |-> {}]
  /\ found = [w \in Workers |-> 0]
  /\ counts = [w \in Workers |-> NoCounts]
  /\ faults = 0
  /\ changes = 0
  /\ hit = {}

Process(w) ==
  \/ Take(w) \/ Begin(w) \/ Start(w) \/ Fetch(w) \/ Find(w) \/ Create(w)
  \/ Mark(w) \/ Fail(w) \/ Existing(w) \/ Count(w) \/ Finalize(w)

Next ==
  \/ \E u \in DOMAIN File : CreateJob(u)
  \/ Enqueue
  \/ \E w \in Workers : Process(w) \/ Crash(w) \/ Stall(w) \/ FailWrite(w)
  \/ Others

Spec == Init /\ [][Next]_vars

\* Queue workers take jobs and go on with what they have begun.
FairSpec == Spec /\ \A w \in Workers : WF_vars(Process(w))

-----------------------------------------------------------------------------
(* Properties.                                                             *)

Idle == \A w \in Workers : pc[w] = "idle"
InHand(n, i) == \E w \in Workers : pc[w] = "created" /\ found[w] = i /\ Cur(w) = n

\* parseFile and buildHeaders: no cell of a line is lost between the sheet and
\* the data of its row, though labels repeat, lines are blank and lines are
\* wider than the header, as long as a line of the sample is as wide.
KeepsColumns(u) ==
  \A n \in 1..Len(Uploads[u].sheet) : \A c \in Filled(Uploads[u].sheet[n]) :
    n >= DataStart(Uploads[u]) /\ c <= Len(File[u].keys)
      => /\ n \in DOMAIN File[u].rows
         /\ File[u].rows[n][File[u].keys[c]] = Uploads[u].sheet[n][c]
Keeping == {u \in DOMAIN File : KeepsColumns(u)}

ColumnsKept == upload # 0 => upload \in Keeping /\ DOMAIN row = DOMAIN File[upload].rows

\* processImportRow creates a registration in one transaction and writes the row
\* in another.  Its report is true all the same: a registration a row made is
\* named by this row as PROCESSED, and not by one that is FAILED, PENDING or a
\* DUPLICATE of its own doing, unless a fault struck the row in between.
CreationIsReported ==
  \A i \in Live :
    LET n == reg[i].made IN
    n \in DOMAIN row /\ n \notin hit
      => InHand(n, i) \/ (row[n].status = "PROCESSED" /\ row[n].reg = i)

\* finalizeImportJob counts the rows and writes the counters in two steps.  When
\* every worker has gone home, an ended job has the counters of its rows and no
\* PENDING row, through crashes and repeated attempts; only rows removed with
\* their registration are missing, and two workers on one job may both end it.
ReportAddsUp ==
  /\ job.status \in Final /\ queued.state = "done" /\ Idle
  /\ 0 \notin hit /\ \A n \in DOMAIN row : row[n].status # "GONE"
  => /\ Pending = {}
     /\ \A s \in DOMAIN NoCounts :
          job.counts[s] = Cardinality({n \in DOMAIN row : row[n].status = s})

\* The preview and the import agree: when the preview of the suggested mapping
\* finds no identifier twice in the file, no row meets a duplicate while nobody
\* else works on the event.
NoneForetold ==
  {u \in DOMAIN File :
     /\ Uploads[u].mapping = <<>>
     /\ \E shown \in Preview(File[u], Uploads[u].kind, Types) :
          \A x \in shown.warnings : x[1] \notin Identifiers}

PreviewForetells ==
  upload \in NoneForetold /\ hit = {} /\ changes = 0
  => \A n \in DOMAIN row : row[n].status # "DUPLICATE"

\* The queue delivers a job to a worker again until it has ended, or failed three
\* times, whatever faults its attempts meet.
JobEnds == (queued.state = "waiting") ~> (job.status \in Final \/ queued.state = "failed")
=============================================================================
