---------------------------- MODULE ImportProofs ----------------------------
(***************************************************************************)
(* Proofs about ImportJobs, for all files, mappings, registrations,        *)
(* workers and changes by others: what an import creates is reported, its  *)
(* counters add up, no column of a file is lost, and the preview foretells *)
(* whether there are duplicates.                                           *)
(***************************************************************************)
EXTENDS ImportJobs, FiniteSetTheorems, SequenceTheorems, TLAPS

-----------------------------------------------------------------------------
(* The inductive invariant.                                                *)

Steps == {"idle", "begin", "start", "fetch", "find", "refind", "create", "created",
          "existing", "updated", "fail", "count", "final"}

\* The steps with a row in hand.
RowSteps == {"find", "refind", "create", "created", "existing", "updated", "fail"}

\* The shape of the state: which fields records have, and over what functions are
\* defined.
RegShape ==
  /\ reg = [i \in Ids |-> reg[i]]
  /\ \A i \in Ids :
       reg[i] = [status |-> reg[i].status, made |-> reg[i].made, data |-> reg[i].data]

RowShape ==
  /\ row = [n \in DOMAIN row |-> row[n]]
  /\ DOMAIN row \subseteq Nat \ {0}

JobShape ==
  /\ job = [status |-> job.status, counts |-> job.counts]
  /\ job.status \in {"NONE", "PENDING", "PROCESSING"} \cup Final
  /\ queued = [state |-> queued.state, tries |-> queued.tries, owner |-> queued.owner]
  /\ queued.state \in {"none", "waiting", "active", "done", "failed"}
  /\ queued.owner \in Workers \cup {None}

WorkerShape ==
  /\ pc \in [Workers -> Steps]
  /\ todo \in [Workers -> SUBSET DOMAIN row]
  /\ DOMAIN found = Workers
  /\ DOMAIN counts = Workers

\* Only a job under way is owned, one that was never queued has no worker, and
\* there are rows and a queued job only once there is an import job.
QueueHolds ==
  /\ queued.state # "active" => queued.owner = None
  /\ queued.state = "none" => \A w \in Workers : pc[w] = "idle"
  /\ job.status = "NONE" => DOMAIN row = {} /\ queued.state = "none"

\* A worker that goes on without owning the job was taken for stalled: the fault
\* may have struck all that was left to do.
StrayWorkers ==
  \A w \in Workers :
    pc[w] # "idle" /\ queued.owner # w => todo[w] \cup Pending \subseteq hit /\ 0 \in hit

\* The rows a worker has still to process are PENDING.
RowsInHand ==
  \A w \in Workers :
    /\ pc[w] \in RowSteps <=> todo[w] # {}
    /\ \A n \in todo[w] \ hit : row[n].status = "PENDING"

PendingRows == \A n \in DOMAIN row : row[n].status = "PENDING" => row[n].reg = 0

Makers == \A i \in Live : reg[i].made \in {0} \cup DOMAIN row

NoneGone == \A n \in DOMAIN row : row[n].status # "GONE"
TrueCounts == [s \in DOMAIN NoCounts |-> With(s)]

\* Unless two workers had the job: it is counted when nothing is PENDING, and
\* what is counted stays true.
CountersHold ==
  0 \notin hit =>
    \A w \in Workers :
      /\ pc[w] \in {"count", "final"} => Pending = {}
      /\ pc[w] = "final" /\ NoneGone => counts[w] = TrueCounts

\* An ended job is not taken again, and its counters stay true.
EndHolds ==
  0 \notin hit /\ job.status \in Final =>
    /\ queued.state \in {"none", "done"}
    /\ queued.state = "done" => Pending = {} /\ (NoneGone => job.counts = TrueCounts)

ImportShape == RegShape /\ RowShape /\ JobShape /\ WorkerShape

ImportInv ==
  /\ ImportShape
  /\ QueueHolds
  /\ StrayWorkers
  /\ RowsInHand
  /\ PendingRows /\ Makers /\ CreationIsReported
  /\ CountersHold /\ EndHolds

-----------------------------------------------------------------------------
(* Numbers and rows.                                                       *)

LEMMA MinInSet ==
  ASSUME NEW T \in SUBSET Nat, T # {}
  PROVE  Min(T) \in T /\ \A y \in T : Min(T) <= y
<1>1. \E x \in T : \A y \in T : ~(<<y, x>> \in OpToRel(<, Nat))
  BY WFMin, NatLessThanWellFounded, Zenon
<1>2. PICK x \in T : \A y \in T : ~(<<y, x>> \in OpToRel(<, Nat))
  BY <1>1, Zenon
<1>3. \A y \in T : <<y, x>> \in OpToRel(<, Nat) <=> y < x
  BY DEF OpToRel
<1>4. \A y \in T : ~(y < x)
  BY <1>2, <1>3, Zenon
<1>5. \A y \in T : x <= y
  BY <1>4
<1> QED BY <1>5 DEF Min

\* The row in hand is one of those still to process.
LEMMA CurInHand ==
  ASSUME ImportShape, NEW w \in Workers, todo[w] # {}
  PROVE  Cur(w) \in todo[w] /\ Cur(w) \in DOMAIN row
<1>1. todo[w] \in SUBSET DOMAIN row /\ todo[w] \in SUBSET Nat
  BY DEF ImportShape, WorkerShape, RowShape
<1> QED BY <1>1, MinInSet DEF Cur

\* The first PENDING row fits every chunk.
LEMMA ChunkNotEmpty ==
  ASSUME ImportShape, Pending # {}
  PROVE  {i \in Pending : Cardinality({j \in Pending : j <= i}) <= ChunkSize} # {}
<1>1. Pending \in SUBSET Nat
  BY DEF ImportShape, RowShape, Pending
<1> DEFINE m == Min(Pending)
<1>2. m \in Pending /\ m \in Nat /\ \A j \in Pending : m <= j
  BY <1>1, MinInSet
<1> HIDE DEF m
<1>3. {j \in Pending : j <= m} = {m}
  <2>1. \A j \in Pending : j \in Nat /\ (j <= m => j = m)
    BY <1>1, <1>2
  <2>2. m <= m
    BY <1>2
  <2> QED BY <1>2, <2>1, <2>2
<1>4. Cardinality({j \in Pending : j <= m}) = 1
  BY <1>3, FS_Singleton
<1>5. 1 <= ChunkSize
  BY ImportAssumption
<1> QED BY <1>2, <1>4, <1>5

\* Lines of a sheet are numbered from 1, and the data starts below the header.
LEMMA FileRows ==
  ASSUME NEW u \in DOMAIN File
  PROVE  DOMAIN File[u].rows \subseteq Nat \ {0}
<1> DEFINE asked == Uploads[u]
<1>1. /\ u \in 1..Len(Uploads)
      /\ ParserAccepts(asked.sheet, HeaderRow(asked), DataStart(asked))
      /\ File[u] = Parsed(asked)
  BY DEF File
<1>2. asked.sheet \in Seq(Seq(Cells))
  BY <1>1, ImportAssumption
<1> HIDE DEF asked
<1>3. DOMAIN File[u].rows = DataLines(asked.sheet, DataStart(asked))
  BY <1>1 DEF Parsed, ParseFile
<1>4. HeaderRow(asked) \in Nat \ {0} /\ DataStart(asked) \in Nat \ {0}
  BY <1>1, <1>2 DEF ParserAccepts
<1> QED BY <1>2, <1>3, <1>4 DEF DataLines

\* What is counted depends on the rows alone.
LEMMA SameRows ==
  ASSUME UNCHANGED row
  PROVE  /\ Pending' = Pending
         /\ NoneGone' <=> NoneGone
         /\ TrueCounts' = TrueCounts
<1>1. \A s : With(s)' = With(s)
  BY DEF With
<1> QED BY <1>1 DEF Pending, NoneGone, TrueCounts

-----------------------------------------------------------------------------
(* Steps of one worker that write no row.                                  *)

\* The other workers are where they were.
OthersStay(w) ==
  \A v \in Workers \ {w} :
    /\ pc'[v] = pc[v] /\ todo'[v] = todo[v]
    /\ found'[v] = found[v] /\ counts'[v] = counts[v]
    /\ queued'.owner = v <=> queued.owner = v

LEMMA WorkerMoves ==
  ASSUME ImportInv, ImportShape', NEW w \in Workers, OthersStay(w),
         UNCHANGED row, hit \subseteq hit',
         pc'[w] # "idle" /\ queued'.owner # w => todo'[w] \cup Pending \subseteq hit' /\ 0 \in hit',
         pc'[w] \in RowSteps <=> todo'[w] # {},
         \A n \in todo'[w] \ hit' : row[n].status = "PENDING",
         0 \notin hit' =>
           /\ pc'[w] \in {"count", "final"} => Pending = {}
           /\ pc'[w] = "final" /\ NoneGone => counts'[w] = TrueCounts
  PROVE  StrayWorkers' /\ RowsInHand' /\ PendingRows' /\ CountersHold'
<1>1. /\ Pending' = Pending
      /\ NoneGone' <=> NoneGone
      /\ TrueCounts' = TrueCounts
  BY SameRows
<1>2. StrayWorkers'
  BY <1>1 DEF ImportInv, StrayWorkers, OthersStay
<1>3. RowsInHand'
  BY DEF ImportInv, RowsInHand, OthersStay
<1>4. PendingRows'
  BY DEF ImportInv, PendingRows
<1>5. CountersHold'
  BY <1>1 DEF ImportInv, CountersHold, OthersStay
<1> QED BY <1>2, <1>3, <1>4, <1>5

\* What was created stays reported, if a worker that has just created a
\* registration stays with it, or a fault strikes its row, or its row cannot name
\* the registration, which then is not there.
LEMMA ReportStays ==
  ASSUME ImportInv, UNCHANGED <<reg, row>>, hit \subseteq hit',
         \A w \in Workers : pc[w] = "created" =>
           \/ pc'[w] = "created" /\ found'[w] = found[w] /\ todo'[w] = todo[w]
           \/ Cur(w) \in hit'
           \/ ~CanName(w)
  PROVE  Makers' /\ CreationIsReported'
<1>1. Live' = Live
  BY DEF Live
<1>2. Makers'
  BY <1>1 DEF ImportInv, Makers
<1>3. ASSUME NEW i \in Live, NEW n, n = reg[i].made, n \in DOMAIN row, n \notin hit'
      PROVE  InHand(n, i)' \/ (row[n].status = "PROCESSED" /\ row[n].reg = i)
  <2>1. n \notin hit
    BY <1>3
  <2>2. CASE row[n].status = "PROCESSED" /\ row[n].reg = i
    BY <2>2
  <2>3. CASE InHand(n, i)
    <3>1. PICK w \in Workers : pc[w] = "created" /\ found[w] = i /\ Cur(w) = n
      BY <2>3 DEF InHand
    <3>2. todo[w] # {} /\ Cur(w) \in todo[w]
      BY <3>1, CurInHand DEF ImportInv, RowsInHand, RowSteps
    <3>3. CanName(w)
      BY <1>3, <2>1, <3>1, <3>2 DEF ImportInv, RowsInHand, CanName
    <3>4. pc'[w] = "created" /\ found'[w] = i /\ Cur(w)' = n
      BY <1>3, <3>1, <3>3 DEF Cur
    <3> QED BY <3>4 DEF InHand
  <2> QED BY <1>3, <2>1, <2>2, <2>3 DEF ImportInv, CreationIsReported
<1> QED BY <1>1, <1>2, <1>3 DEF CreationIsReported

\* A worker that is busy has a queued job, and an import job.
LEMMA BusyJob ==
  ASSUME ImportInv, NEW w \in Workers, pc[w] # "idle"
  PROVE  queued.state # "none" /\ job.status # "NONE"
BY DEF ImportInv, QueueHolds

\* Unless two workers had the job, one that is busy owns it, and it has not ended.
LEMMA BusyOwner ==
  ASSUME ImportInv, NEW w \in Workers, pc[w] # "idle", 0 \notin hit
  PROVE  /\ queued.owner = w /\ queued.state = "active" /\ job.status \notin Final
         /\ \A v \in Workers \ {w} : pc[v] = "idle"
<1>1. queued.owner = w
  BY DEF ImportInv, StrayWorkers
<1>2. queued.state = "active"
  BY <1>1, ImportAssumption DEF ImportInv, QueueHolds
<1> QED BY <1>1, <1>2 DEF ImportInv, StrayWorkers, EndHolds

LEMMA ReturnKeeps ==
  ASSUME ImportInv, NEW w \in Workers, pc[w] # "idle",
         NEW s \in {"waiting", "done", "failed"}, NEW t, Return(w, s, t),
         UNCHANGED <<reg, row>>, hit \subseteq hit',
         job' = [status |-> job'.status, counts |-> job'.counts],
         job'.status \in {"PENDING", "PROCESSING"} \cup Final,
         pc[w] = "created" => Cur(w) \in hit' \/ ~CanName(w),
         EndHolds'
  PROVE  ImportInv'
<1>1. /\ pc' = [pc EXCEPT ![w] = "idle"] /\ todo' = [todo EXCEPT ![w] = {}]
      /\ found' = [found EXCEPT ![w] = 0] /\ counts' = [counts EXCEPT ![w] = NoCounts]
      /\ queued' = IF queued.owner = w THEN [state |-> s, tries |-> t, owner |-> None]
                   ELSE queued
  BY DEF Return, Goto, Forget
<1>2. ImportShape'
  BY <1>1 DEF ImportInv, ImportShape, RegShape, RowShape, JobShape, WorkerShape, Ids, Steps
<1>3. QueueHolds'
  BY <1>1, BusyJob DEF ImportInv, ImportShape, WorkerShape, QueueHolds, Final
<1>4. OthersStay(w)
  BY <1>1, ImportAssumption DEF OthersStay, ImportInv, ImportShape, WorkerShape
<1>5. pc'[w] = "idle" /\ todo'[w] = {}
  BY <1>1 DEF ImportInv, ImportShape, WorkerShape
<1>6. StrayWorkers' /\ RowsInHand' /\ PendingRows' /\ CountersHold'
  BY <1>2, <1>4, <1>5, WorkerMoves DEF RowSteps
<1>7. \A v \in Workers : pc[v] = "created" =>
        \/ pc'[v] = "created" /\ found'[v] = found[v] /\ todo'[v] = todo[v]
        \/ Cur(v) \in hit'
        \/ ~CanName(v)
  BY <1>4 DEF OthersStay
<1>8. Makers' /\ CreationIsReported'
  BY <1>7, ReportStays
<1> QED BY <1>2, <1>3, <1>6, <1>8 DEF ImportInv

LEMMA ThrowStep ==
  ASSUME ImportInv, NEW w \in Workers, pc[w] # "idle", Throw(w),
         pc[w] = "created" => ~CanName(w)
  PROVE  ImportInv'
<1>1. PICK s \in {"waiting", "failed"} : Return(w, s, queued.tries + 1)
  BY DEF Throw, FailAttempt
<1>2. UNCHANGED <<reg, row, job, hit>>
  BY DEF Throw, Unmoved, faultVars
<1>3. EndHolds'
  BY <1>2, BusyOwner DEF EndHolds
<1>4. job' = [status |-> job'.status, counts |-> job'.counts]
  BY <1>2 DEF ImportInv, ImportShape, JobShape
<1>5. job'.status \in {"PENDING", "PROCESSING"} \cup Final
  BY <1>2, BusyJob DEF ImportInv, ImportShape, JobShape
<1> QED BY <1>1, <1>2, <1>3, <1>4, <1>5, ReturnKeeps

LEMMA FailMarkStep ==
  ASSUME ImportInv, NEW w \in Workers, FailMark(w), hit \subseteq hit',
         Cur(w) \in hit' \/ ~CanName(w)
  PROVE  ImportInv'
<1>1. CASE pc[w] = "created"
  <2>1. /\ pc' = [pc EXCEPT ![w] = "fail"]
        /\ UNCHANGED <<jobVars, todo, kinds, found, counts, reg, types, archived>>
    BY <1>1 DEF FailMark, Goto
  <2>2. UNCHANGED <<job, row, queued>>
    BY <2>1 DEF jobVars
  <2>3. ImportShape'
    BY <2>1, <2>2 DEF ImportInv, ImportShape, RegShape, RowShape, JobShape, WorkerShape, Steps
  <2>4. QueueHolds'
    BY <1>1, <2>2, BusyJob DEF ImportInv, QueueHolds
  <2>5. OthersStay(w)
    BY <2>1, <2>2 DEF OthersStay, ImportInv, ImportShape, WorkerShape
  <2>6. pc'[w] = "fail" /\ todo'[w] = todo[w]
    BY <2>1 DEF ImportInv, ImportShape, WorkerShape
  <2>7. StrayWorkers' /\ RowsInHand' /\ PendingRows' /\ CountersHold'
    <3>1. /\ pc'[w] # "idle" /\ queued'.owner # w => todo'[w] \cup Pending \subseteq hit' /\ 0 \in hit'
          /\ pc'[w] \in RowSteps <=> todo'[w] # {}
          /\ \A n \in todo'[w] \ hit' : row[n].status = "PENDING"
      BY <1>1, <2>2, <2>6 DEF ImportInv, StrayWorkers, RowsInHand, RowSteps
    <3> QED BY <2>2, <2>3, <2>5, <2>6, <3>1, WorkerMoves
  <2>8. Makers' /\ CreationIsReported'
    BY <2>1, <2>2, <2>5, ReportStays DEF OthersStay
  <2>9. EndHolds'
    BY <2>2, SameRows DEF ImportInv, EndHolds
  <2> QED BY <2>3, <2>4, <2>7, <2>8, <2>9 DEF ImportInv
<1>2. CASE pc[w] = "updated"
  <2>1. /\ pc[w] # "idle" /\ pc[w] # "created"
        /\ FailAttempt(w)
        /\ UNCHANGED <<upload, job, row, reg, types, archived>>
    BY <1>2 DEF FailMark
  <2>2. PICK s \in {"waiting", "failed"} : Return(w, s, queued.tries + 1)
    BY <2>1 DEF FailAttempt
  <2>3. EndHolds'
    BY <2>1, BusyOwner DEF EndHolds
  <2>4. job' = [status |-> job'.status, counts |-> job'.counts]
    BY <2>1 DEF ImportInv, ImportShape, JobShape
  <2>5. job'.status \in {"PENDING", "PROCESSING"} \cup Final
    BY <2>1, BusyJob DEF ImportInv, ImportShape, JobShape
  <2> QED BY <2>1, <2>2, <2>3, <2>4, <2>5, ReturnKeeps
<1> QED BY <1>1, <1>2 DEF FailMark

LEMMA FailWriteStep ==
  ASSUME ImportInv, NEW w \in Workers, FailWrite(w)
  PROVE  ImportInv'
BY FailMarkStep DEF FailWrite, Fault

LEMMA CrashStep ==
  ASSUME ImportInv, NEW w \in Workers, Crash(w)
  PROVE  ImportInv'
<1>1. /\ pc[w] # "idle" /\ Return(w, "waiting", queued.tries)
      /\ hit' = hit \cup {i \in todo[w] : i = Cur(w)}
      /\ UNCHANGED <<reg, types, archived, upload, job, row>>
  BY DEF Crash, Fault
<1>2. pc[w] = "created" => Cur(w) \in hit'
  BY <1>1, CurInHand DEF ImportInv, RowsInHand, RowSteps
<1>3. EndHolds'
  BY <1>1, BusyOwner DEF EndHolds
<1>4. job' = [status |-> job'.status, counts |-> job'.counts]
  BY <1>1 DEF ImportInv, ImportShape, JobShape
<1>5. job'.status \in {"PENDING", "PROCESSING"} \cup Final
  BY <1>1, BusyJob DEF ImportInv, ImportShape, JobShape
<1> QED BY <1>1, <1>2, <1>3, <1>4, <1>5, ReturnKeeps

LEMMA StallStep ==
  ASSUME ImportInv, NEW w \in Workers, Stall(w)
  PROVE  ImportInv'
<1>1. /\ queued.owner = w
      /\ hit' = hit \cup ({0} \cup todo[w] \cup Pending)
      /\ queued' = [queued EXCEPT !.state = "waiting", !.owner = None]
      /\ UNCHANGED <<reg, types, archived, upload, job, row, workerVars>>
  BY DEF Stall, Fault
<1>2. UNCHANGED <<pc, todo, found, counts>>
  BY <1>1 DEF workerVars
<1>3. ImportShape'
  BY <1>1, <1>2 DEF ImportInv, ImportShape, RegShape, RowShape, JobShape, WorkerShape
<1>4. queued.state = "active" /\ queued'.state = "waiting" /\ queued'.owner = None
  BY <1>1, ImportAssumption DEF ImportInv, ImportShape, JobShape, QueueHolds
<1>5. QueueHolds'
  BY <1>1, <1>4 DEF ImportInv, QueueHolds
<1>6. OthersStay(w)
  BY <1>1, <1>2, <1>4, ImportAssumption DEF OthersStay
<1>7. StrayWorkers' /\ RowsInHand' /\ PendingRows' /\ CountersHold'
  <2>1. /\ pc'[w] # "idle" /\ queued'.owner # w => todo'[w] \cup Pending \subseteq hit' /\ 0 \in hit'
        /\ pc'[w] \in RowSteps <=> todo'[w] # {}
        /\ \A n \in todo'[w] \ hit' : row[n].status = "PENDING"
        /\ 0 \in hit'
    BY <1>1, <1>2 DEF ImportInv, RowsInHand
  <2> QED BY <1>1, <1>3, <1>6, <2>1, WorkerMoves
<1>8. Makers' /\ CreationIsReported'
  BY <1>1, <1>2, ReportStays
<1>9. EndHolds'
  BY <1>1 DEF EndHolds
<1> QED BY <1>3, <1>5, <1>7, <1>8, <1>9 DEF ImportInv

\* A step inside an attempt, that changes at most the status of the job.
LEMMA AttemptGoesOn ==
  ASSUME ImportInv, NEW w \in Workers, pc[w] # "idle", NEW step \in Steps \ {"idle"},
         pc' = [pc EXCEPT ![w] = step],
         todo' \in [Workers -> SUBSET DOMAIN row],
         \A v \in Workers \ {w} : todo'[v] = todo[v],
         DOMAIN found' = Workers, \A v \in Workers \ {w} : found'[v] = found[v],
         DOMAIN counts' = Workers, \A v \in Workers \ {w} : counts'[v] = counts[v],
         UNCHANGED <<row, queued, hit>>,
         job' = [status |-> job'.status, counts |-> job'.counts],
         job'.status \in {"PENDING", "PROCESSING"} \cup Final,
         job'.status \in Final => job' = job,
         step \in RowSteps <=> todo'[w] # {},
         todo'[w] \subseteq todo[w] \cup Pending,
         0 \notin hit =>
           /\ step \in {"count", "final"} => Pending = {}
           /\ step = "final" /\ NoneGone => counts'[w] = TrueCounts
  PROVE  /\ RowShape' /\ JobShape' /\ WorkerShape'
         /\ RegShape' => QueueHolds' /\ StrayWorkers' /\ RowsInHand' /\ PendingRows'
                         /\ CountersHold' /\ EndHolds'
<1>1. RowShape' /\ JobShape' /\ WorkerShape'
  BY DEF ImportInv, ImportShape, RowShape, JobShape, WorkerShape
<1>2. QueueHolds'
  BY BusyJob DEF ImportInv, QueueHolds, Final
<1>3. OthersStay(w) /\ pc'[w] = step
  BY DEF OthersStay, ImportInv, ImportShape, WorkerShape
<1>4. ASSUME RegShape'
      PROVE  StrayWorkers' /\ RowsInHand' /\ PendingRows' /\ CountersHold'
  <2>1. ImportShape'
    BY <1>1, <1>4 DEF ImportShape
  <2>2. pc'[w] # "idle" /\ queued'.owner # w => todo'[w] \cup Pending \subseteq hit' /\ 0 \in hit'
    BY DEF ImportInv, StrayWorkers
  <2>3. \A n \in todo'[w] \ hit' : row[n].status = "PENDING"
    BY DEF ImportInv, RowsInHand, Pending
  <2> QED BY <1>3, <2>1, <2>2, <2>3, WorkerMoves
<1>5. EndHolds'
  BY BusyOwner DEF EndHolds
<1> QED BY <1>1, <1>2, <1>4, <1>5

LEMMA TakeStep ==
  ASSUME ImportInv, NEW w \in Workers, Take(w)
  PROVE  ImportInv'
<1>1. /\ pc[w] = "idle" /\ queued.state = "waiting"
      /\ queued' = [queued EXCEPT !.state = "active", !.owner = w]
      /\ pc' = [pc EXCEPT ![w] = "begin"]
      /\ UNCHANGED <<reg, row, job, todo, found, counts, hit>>
  BY DEF Take, Goto, Unmoved, faultVars
<1>2. ImportShape'
  BY <1>1 DEF ImportInv, ImportShape, RegShape, RowShape, JobShape, WorkerShape, Steps
<1>3. queued.owner = None /\ queued'.owner = w /\ queued'.state = "active"
  BY <1>1 DEF ImportInv, ImportShape, JobShape, QueueHolds
<1>4. QueueHolds'
  BY <1>1, <1>3 DEF ImportInv, QueueHolds
<1>5. OthersStay(w)
  BY <1>1, <1>3, ImportAssumption DEF OthersStay, ImportInv, ImportShape, WorkerShape
<1>6. pc'[w] = "begin" /\ todo'[w] = {}
  BY <1>1 DEF ImportInv, ImportShape, WorkerShape, RowsInHand, RowSteps
<1>7. StrayWorkers' /\ RowsInHand' /\ PendingRows' /\ CountersHold'
  BY <1>1, <1>2, <1>3, <1>5, <1>6, WorkerMoves DEF RowSteps
<1>8. Makers' /\ CreationIsReported'
  BY <1>1, <1>5, ReportStays DEF OthersStay
<1>9. EndHolds'
  BY <1>1 DEF ImportInv, EndHolds
<1> QED BY <1>2, <1>4, <1>7, <1>8, <1>9 DEF ImportInv

LEMMA BeginStep ==
  ASSUME ImportInv, NEW w \in Workers, Begin(w)
  PROVE  ImportInv'
<1>1. CASE job.status \in Final /\ Finish(w) /\ Unmoved /\ UNCHANGED <<job, row>>
  <2>1. pc[w] = "begin" /\ Return(w, "done", queued.tries) /\ UNCHANGED <<reg, row, job, hit>>
    BY <1>1 DEF Begin, Finish, Unmoved, faultVars
  <2>2. EndHolds'
    BY <1>1, <2>1, BusyOwner DEF EndHolds
  <2> QED BY <2>1, <2>2, BusyJob, ReturnKeeps DEF ImportInv, ImportShape, JobShape
<1>2. CASE Throw(w)
  BY <1>2, ThrowStep DEF Begin
<1>3. CASE /\ Goto(w, "start")
           /\ Unmoved /\ UNCHANGED <<job, row, queued, todo, found, counts>>
  <2>1. /\ pc[w] = "begin" /\ pc' = [pc EXCEPT ![w] = "start"]
        /\ UNCHANGED <<reg, row, job, queued, todo, found, counts, hit>>
    BY <1>3 DEF Begin, Goto, Unmoved, faultVars
  <2>2. RegShape'
    BY <2>1 DEF ImportInv, ImportShape, RegShape
  <2>3. /\ RowShape' /\ JobShape' /\ WorkerShape'
        /\ QueueHolds' /\ StrayWorkers' /\ RowsInHand' /\ PendingRows'
        /\ CountersHold' /\ EndHolds'
    BY <2>1, <2>2, BusyJob, AttemptGoesOn
       DEF ImportInv, ImportShape, JobShape, WorkerShape, RowsInHand, RowSteps, Steps
  <2>4. Makers' /\ CreationIsReported'
    BY <2>1, ReportStays DEF ImportInv, ImportShape, WorkerShape
  <2> QED BY <2>2, <2>3, <2>4 DEF ImportInv, ImportShape
<1> QED BY <1>1, <1>2, <1>3 DEF Begin

LEMMA StartStep ==
  ASSUME ImportInv, NEW w \in Workers, Start(w)
  PROVE  ImportInv'
<1>1. /\ pc[w] = "start" /\ pc' = [pc EXCEPT ![w] = "fetch"]
      /\ job' = [job EXCEPT !.status = "PROCESSING"]
      /\ UNCHANGED <<reg, row, queued, todo, found, counts, hit>>
  BY DEF Start, Goto, Unmoved, faultVars
<1>2. RegShape'
  BY <1>1 DEF ImportInv, ImportShape, RegShape
<1>3. job' = [status |-> "PROCESSING", counts |-> job.counts]
  BY <1>1 DEF ImportInv, ImportShape, JobShape
<1>4. /\ RowShape' /\ JobShape' /\ WorkerShape'
      /\ QueueHolds' /\ StrayWorkers' /\ RowsInHand' /\ PendingRows'
      /\ CountersHold' /\ EndHolds'
  BY <1>1, <1>2, <1>3, AttemptGoesOn
     DEF ImportInv, ImportShape, WorkerShape, RowsInHand, RowSteps, Steps, Final
<1>5. Makers' /\ CreationIsReported'
  BY <1>1, ReportStays DEF ImportInv, ImportShape, WorkerShape
<1> QED BY <1>2, <1>4, <1>5 DEF ImportInv, ImportShape

LEMMA FetchStep ==
  ASSUME ImportInv, NEW w \in Workers, Fetch(w)
  PROVE  ImportInv'
<1> DEFINE chunk == {i \in Pending : Cardinality({j \in Pending : j <= i}) <= ChunkSize}
           step == IF Pending = {} THEN "count" ELSE "find"
<1>1. /\ pc[w] = "fetch" /\ pc' = [pc EXCEPT ![w] = step]
      /\ todo' = [todo EXCEPT ![w] = chunk]
      /\ UNCHANGED <<reg, row, job, queued, found, counts, hit>>
  BY DEF Fetch, Goto, Unmoved, faultVars
<1>2. chunk \subseteq Pending /\ (Pending # {} => chunk # {})
  BY ChunkNotEmpty DEF ImportInv
<1> HIDE DEF chunk
<1>3. Pending \subseteq DOMAIN row
  BY DEF Pending
<1>4. RegShape'
  BY <1>1 DEF ImportInv, ImportShape, RegShape
<1>5. todo' \in [Workers -> SUBSET DOMAIN row] /\ todo'[w] = chunk
  BY <1>1, <1>2, <1>3 DEF ImportInv, ImportShape, WorkerShape
<1>6. \A v \in Workers \ {w} : todo'[v] = todo[v] /\ pc'[v] = pc[v]
  BY <1>1 DEF ImportInv, ImportShape, WorkerShape
<1>7. step \in Steps \ {"idle", "final"} /\ (step \in RowSteps <=> chunk # {})
      /\ (step = "count" => Pending = {})
  BY <1>2 DEF Steps, RowSteps
<1>8. /\ DOMAIN found' = Workers /\ DOMAIN counts' = Workers
      /\ \A v \in Workers \ {w} : found'[v] = found[v] /\ counts'[v] = counts[v]
  BY <1>1 DEF ImportInv, ImportShape, WorkerShape
<1>9. job' = [status |-> job'.status, counts |-> job'.counts]
      /\ job'.status \in {"PENDING", "PROCESSING"} \cup Final
  BY <1>1, BusyJob DEF ImportInv, ImportShape, JobShape
<1> HIDE DEF step
<1>10. /\ RowShape' /\ JobShape' /\ WorkerShape'
       /\ QueueHolds' /\ StrayWorkers' /\ RowsInHand' /\ PendingRows'
       /\ CountersHold' /\ EndHolds'
  <2>1. 0 \notin hit =>
          /\ step \in {"count", "final"} => Pending = {}
          /\ step = "final" /\ NoneGone => counts'[w] = TrueCounts
    BY <1>7
  <2>2. todo'[w] \subseteq todo[w] \cup Pending
    BY <1>2, <1>5
  <2> QED BY <1>1, <1>4, <1>5, <1>6, <1>7, <1>8, <1>9, <2>1, <2>2, AttemptGoesOn
<1>11. Makers' /\ CreationIsReported'
  BY <1>1, <1>6, ReportStays
<1> QED BY <1>4, <1>10, <1>11 DEF ImportInv, ImportShape

LEMMA FindStep ==
  ASSUME ImportInv, NEW w \in Workers, Find(w)
  PROVE  ImportInv'
<1>1. PICK step \in {"fail", "create", "existing"} :
        /\ pc[w] \in {"find", "refind"} /\ pc' = [pc EXCEPT ![w] = step]
        /\ UNCHANGED <<reg, row, job, queued, todo, counts, hit>>
  BY DEF Find, Goto, Unmoved, faultVars
<1>2. DOMAIN found' = Workers /\ \A v \in Workers \ {w} : found'[v] = found[v]
  BY DEF Find, ImportInv, ImportShape, WorkerShape
<1>3. RegShape'
  BY <1>1 DEF ImportInv, ImportShape, RegShape
<1>4. job' = [status |-> job'.status, counts |-> job'.counts]
      /\ job'.status \in {"PENDING", "PROCESSING"} \cup Final
  BY <1>1, BusyJob DEF ImportInv, ImportShape, JobShape
<1>5. /\ RowShape' /\ JobShape' /\ WorkerShape'
      /\ QueueHolds' /\ StrayWorkers' /\ RowsInHand' /\ PendingRows'
      /\ CountersHold' /\ EndHolds'
  BY <1>1, <1>2, <1>3, <1>4, AttemptGoesOn
     DEF ImportInv, ImportShape, WorkerShape, RowsInHand, RowSteps, Steps
<1>6. Makers' /\ CreationIsReported'
  BY <1>1, <1>2, ReportStays DEF ImportInv, ImportShape, WorkerShape
<1> QED BY <1>3, <1>5, <1>6 DEF ImportInv, ImportShape

LEMMA CountStep ==
  ASSUME ImportInv, NEW w \in Workers, Count(w)
  PROVE  ImportInv'
<1>1. /\ pc[w] = "count" /\ pc' = [pc EXCEPT ![w] = "final"]
      /\ counts' = [counts EXCEPT ![w] = TrueCounts]
      /\ UNCHANGED <<reg, row, job, queued, todo, found, hit>>
  BY DEF Count, Goto, Unmoved, faultVars, TrueCounts
<1>2. DOMAIN counts' = Workers /\ counts'[w] = TrueCounts
      /\ \A v \in Workers \ {w} : counts'[v] = counts[v]
  BY <1>1 DEF ImportInv, ImportShape, WorkerShape
<1>3. RegShape'
  BY <1>1 DEF ImportInv, ImportShape, RegShape
<1>4. job' = [status |-> job'.status, counts |-> job'.counts]
      /\ job'.status \in {"PENDING", "PROCESSING"} \cup Final
  BY <1>1, BusyJob DEF ImportInv, ImportShape, JobShape
<1>5. 0 \notin hit => Pending = {}
  BY <1>1 DEF ImportInv, CountersHold
<1>6. /\ RowShape' /\ JobShape' /\ WorkerShape'
      /\ QueueHolds' /\ StrayWorkers' /\ RowsInHand' /\ PendingRows'
      /\ CountersHold' /\ EndHolds'
  BY <1>1, <1>2, <1>3, <1>4, <1>5, AttemptGoesOn
     DEF ImportInv, ImportShape, WorkerShape, RowsInHand, RowSteps, Steps
<1>7. Makers' /\ CreationIsReported'
  BY <1>1, ReportStays DEF ImportInv, ImportShape, WorkerShape
<1> QED BY <1>3, <1>6, <1>7 DEF ImportInv, ImportShape

LEMMA FinalizeStep ==
  ASSUME ImportInv, NEW w \in Workers, Finalize(w)
  PROVE  ImportInv'
<1>1. /\ pc[w] = "final" /\ Return(w, "done", queued.tries)
      /\ job' = [status |-> GetJobStatus(counts[w]), counts |-> counts[w]]
      /\ UNCHANGED <<reg, row, hit>>
  BY DEF Finalize, Finish, Unmoved, faultVars
<1>2. job'.status \in {"PENDING", "PROCESSING"} \cup Final
  BY <1>1 DEF GetJobStatus, Final
<1>3. job' = [status |-> job'.status, counts |-> job'.counts] /\ job'.counts = counts[w]
  BY <1>1
<1>4. EndHolds'
  <2> SUFFICES ASSUME 0 \notin hit
               PROVE  /\ queued'.state = "done"
                      /\ Pending' = {} /\ (NoneGone' => job'.counts = TrueCounts')
    BY <1>1 DEF EndHolds
  <2>1. queued'.state = "done"
    BY <1>1, BusyOwner DEF Return
  <2>2. Pending = {} /\ (NoneGone => counts[w] = TrueCounts)
    BY <1>1 DEF ImportInv, CountersHold
  <2> QED BY <1>1, <1>3, <2>1, <2>2, SameRows
<1> QED BY <1>1, <1>2, <1>3, <1>4, ReturnKeeps

-----------------------------------------------------------------------------
(* Steps that write a row or a registration.                               *)

\* A row has one worker, unless a fault may have struck it.
LEMMA OneWorkerOnRow ==
  ASSUME ImportInv, NEW w \in Workers, NEW v \in Workers, v # w,
         NEW n \in todo[w] \cap todo[v]
  PROVE  n \in hit
<1>1. pc[w] # "idle" /\ pc[v] # "idle"
  BY DEF ImportInv, RowsInHand, RowSteps
<1> QED BY <1>1 DEF ImportInv, StrayWorkers

LEMMA WriteKeeps ==
  ASSUME ImportInv, NEW w \in Workers, pc[w] \in RowSteps,
         NEW s \in {"PROCESSED", "FAILED", "DUPLICATE"}, NEW i, NEW action,
         Write(w, s, i, action),
         pc[w] = "created" => s = "PROCESSED" /\ i = found[w]
  PROVE  ImportInv'
<1> DEFINE n0 == Cur(w)
           written == [status |-> s, reg |-> i, action |-> action]
<1>1. n0 \in todo[w] /\ n0 \in DOMAIN row
  BY CurInHand DEF ImportInv, RowsInHand
<1>2. PICK step \in {"fetch", "find"} :
        /\ pc' = [pc EXCEPT ![w] = step]
        /\ step = "fetch" <=> todo[w] = {n0}
  BY DEF Write, Advance, Goto
<1>3. /\ row' = [row EXCEPT ![n0] = written]
      /\ todo' = [todo EXCEPT ![w] = @ \ {n0}]
      /\ found' = [found EXCEPT ![w] = 0]
      /\ UNCHANGED <<reg, job, queued, counts, hit>>
  BY DEF Write, Advance, Unmoved, faultVars
<1>4. written.status = s /\ written.reg = i
  OBVIOUS
<1> HIDE DEF n0, written
<1>5. /\ DOMAIN row' = DOMAIN row /\ row' = [n \in DOMAIN row |-> row'[n]]
      /\ row'[n0] = written
      /\ \A n \in DOMAIN row \ {n0} : row'[n] = row[n]
  BY <1>1, <1>3 DEF ImportInv, ImportShape, RowShape
<1>6. /\ pc'[w] = step /\ todo'[w] = todo[w] \ {n0}
      /\ \A v \in Workers \ {w} : pc'[v] = pc[v] /\ todo'[v] = todo[v] /\ found'[v] = found[v]
  BY <1>2, <1>3 DEF ImportInv, ImportShape, WorkerShape
<1>7. ImportShape'
  <2>1. RowShape'
    BY <1>5 DEF ImportInv, ImportShape, RowShape
  <2>2. WorkerShape'
    BY <1>2, <1>3, <1>5 DEF ImportInv, ImportShape, WorkerShape, Steps
  <2> QED BY <1>3, <2>1, <2>2 DEF ImportInv, ImportShape, RegShape, JobShape
<1>8. Pending' = Pending \ {n0}
  BY <1>4, <1>5 DEF Pending
<1>9. QueueHolds'
  BY <1>3, BusyJob DEF ImportInv, QueueHolds, RowSteps
<1>10. StrayWorkers'
  BY <1>3, <1>6, <1>8 DEF ImportInv, StrayWorkers, RowSteps
<1>11. RowsInHand'
  <2>1. ASSUME NEW v \in Workers
        PROVE  /\ pc'[v] \in RowSteps <=> todo'[v] # {}
               /\ \A n \in todo'[v] \ hit : row'[n].status = "PENDING"
    <3>1. \A n \in todo'[v] \ hit : n \in todo[v] /\ n # n0
      BY <1>1, <1>6, OneWorkerOnRow
    <3>2. \A n \in todo'[v] \ hit : n \in DOMAIN row
      BY <3>1 DEF ImportInv, ImportShape, WorkerShape
    <3>3. pc'[v] \in RowSteps <=> todo'[v] # {}
      BY <1>1, <1>2, <1>6 DEF ImportInv, RowsInHand, RowSteps
    <3> QED BY <1>5, <3>1, <3>2, <3>3 DEF ImportInv, RowsInHand
  <2> QED BY <1>3, <2>1 DEF RowsInHand
<1>12. PendingRows' /\ Makers'
  BY <1>3, <1>4, <1>5 DEF ImportInv, PendingRows, Makers, Live
<1>13. CreationIsReported'
  <2>1. Live' = Live
    BY <1>3 DEF Live
  <2>2. ASSUME NEW j \in Live, NEW n, n = reg[j].made, n \in DOMAIN row, n \notin hit
        PROVE  InHand(n, j)' \/ (row'[n].status = "PROCESSED" /\ row'[n].reg = j)
    <3>1. CASE InHand(n, j)
      <4>1. PICK v \in Workers : pc[v] = "created" /\ found[v] = j /\ Cur(v) = n
        BY <3>1 DEF InHand
      <4>2. CASE v = w
        BY <1>4, <1>5, <4>1, <4>2 DEF n0
      <4>3. CASE v # w
        <5>1. pc'[v] = "created" /\ found'[v] = j /\ Cur(v)' = n
          BY <1>6, <4>1, <4>3 DEF Cur
        <5> QED BY <5>1 DEF InHand
      <4> QED BY <4>2, <4>3
    <3>2. CASE row[n].status = "PROCESSED" /\ row[n].reg = j
      <4>1. n # n0
        BY <1>1, <2>2, <3>2 DEF ImportInv, RowsInHand
      <4> QED BY <1>5, <2>2, <3>2, <4>1
    <3> QED BY <2>2, <3>1, <3>2 DEF ImportInv, CreationIsReported
  <2> QED BY <1>3, <1>5, <2>1, <2>2 DEF CreationIsReported
<1>14. CountersHold' /\ EndHolds'
  <2> SUFFICES ASSUME 0 \notin hit
               PROVE  /\ \A v \in Workers : pc'[v] \notin {"count", "final"}
                      /\ job'.status \notin Final
    BY <1>3 DEF CountersHold, EndHolds
  <2>1. job.status \notin Final /\ \A v \in Workers \ {w} : pc[v] = "idle"
    BY BusyOwner DEF RowSteps
  <2> QED BY <1>2, <1>3, <1>6, <2>1
<1> QED BY <1>7, <1>9, <1>10, <1>11, <1>12, <1>13, <1>14 DEF ImportInv

LEMMA MarkStep ==
  ASSUME ImportInv, NEW w \in Workers, Mark(w)
  PROVE  ImportInv'
<1>1. CASE CanName(w) /\ Write(w, "PROCESSED", found[w], pc[w])
  BY <1>1, WriteKeeps DEF Mark, RowSteps
<1>2. CASE ~CanName(w) /\ FailMark(w) /\ UNCHANGED faultVars
  BY <1>2, FailMarkStep DEF faultVars
<1> QED BY <1>1, <1>2 DEF Mark

LEMMA FailStep ==
  ASSUME ImportInv, NEW w \in Workers, Fail(w)
  PROVE  ImportInv'
<1>1. CASE Write(w, "FAILED", row[Cur(w)].reg, row[Cur(w)].action)
  BY <1>1, WriteKeeps DEF Fail, RowSteps
<1>2. CASE Throw(w)
  BY <1>2, ThrowStep DEF Fail
<1> QED BY <1>1, <1>2 DEF Fail

\* A registration that is added takes its number alone.
LEMMA AddKeeps ==
  ASSUME RegShape, NEW data, NEW maker, NextId \in Ids, reg' = Added(data, maker)
  PROVE  /\ RegShape'
         /\ reg'[NextId].made = maker
         /\ \A i \in Live' : i # NextId => i \in Live /\ reg'[i].made = reg[i].made
<1> DEFINE new == [status |-> "live", made |-> maker, data |-> [f \in DOMAIN NoData |-> data[f]]]
<1>1. /\ new = [status |-> new.status, made |-> new.made, data |-> new.data]
      /\ new.made = maker
  OBVIOUS
<1>2. reg' = [reg EXCEPT ![NextId] = new]
  BY DEF Added
<1> HIDE DEF new
<1>3. reg' = [i \in Ids |-> reg'[i]] /\ reg'[NextId] = new
      /\ \A i \in Ids \ {NextId} : reg'[i] = reg[i]
  BY <1>2 DEF RegShape
<1> QED BY <1>1, <1>3 DEF RegShape, Live

\* An update leaves status and maker alone.
LEMMA UpdateKeeps ==
  ASSUME RegShape, NEW i \in Ids, NEW edit, reg' = Updated(i, edit)
  PROVE  RegShape' /\ Live' = Live /\ \A j \in Ids : reg'[j].made = reg[j].made
<1> DEFINE data == Merged(i, edit)
           new == [status |-> reg[i].status, made |-> reg[i].made, data |-> data]
<1>1. reg' = [reg EXCEPT ![i].data = data]
  BY DEF Updated
<1> HIDE DEF data
<1>2. reg' = [reg EXCEPT ![i] = new]
  BY <1>1 DEF RegShape
<1>3. /\ new = [status |-> new.status, made |-> new.made, data |-> new.data]
      /\ new.made = reg[i].made /\ new.status = reg[i].status
  OBVIOUS
<1> HIDE DEF new
<1>4. reg' = [j \in Ids |-> reg'[j]] /\ reg'[i] = new /\ \A j \in Ids \ {i} : reg'[j] = reg[j]
  BY <1>2 DEF RegShape
<1> QED BY <1>3, <1>4 DEF RegShape, Live

LEMMA CreateStep ==
  ASSUME ImportInv, NEW w \in Workers, Create(w)
  PROVE  ImportInv'
<1>1. /\ pc[w] = "create"
      /\ UNCHANGED <<row, job, queued, todo, counts, hit>>
  BY DEF Create, jobVars, faultVars
<1>2. job' = [status |-> job'.status, counts |-> job'.counts]
      /\ job'.status \in {"PENDING", "PROCESSING"} \cup Final
  BY <1>1, BusyJob DEF ImportInv, ImportShape, JobShape
<1>3. DOMAIN found' = Workers /\ \A v \in Workers \ {w} : found'[v] = found[v]
  BY DEF Create, ImportInv, ImportShape, WorkerShape
<1>4. PICK step \in {"created", "fail", "refind"} : pc' = [pc EXCEPT ![w] = step]
  BY DEF Create, Goto
<1>5. /\ RowShape' /\ JobShape' /\ WorkerShape'
      /\ RegShape' => QueueHolds' /\ StrayWorkers' /\ RowsInHand' /\ PendingRows'
                      /\ CountersHold' /\ EndHolds'
  BY <1>1, <1>2, <1>3, <1>4, AttemptGoesOn
     DEF ImportInv, ImportShape, WorkerShape, RowsInHand, RowSteps, Steps
<1>6. CASE UNCHANGED <<reg, found>>
  <2>1. RegShape'
    BY <1>6 DEF ImportInv, ImportShape, RegShape
  <2>2. Makers' /\ CreationIsReported'
    BY <1>1, <1>3, <1>4, <1>6, ReportStays DEF ImportInv, ImportShape, WorkerShape
  <2> QED BY <1>5, <2>1, <2>2 DEF ImportInv, ImportShape
<1>7. CASE Insert(w) /\ found' = [found EXCEPT ![w] = NextId] /\ Goto(w, "created")
  <2>1. NextId \in Ids /\ reg' = Added(Data(w), Cur(w)) /\ pc' = [pc EXCEPT ![w] = "created"]
    BY <1>7 DEF Insert, Goto
  <2>2. /\ RegShape'
        /\ reg'[NextId].made = Cur(w)
        /\ \A i \in Live' : i # NextId => i \in Live /\ reg'[i].made = reg[i].made
    BY <2>1, AddKeeps DEF ImportInv, ImportShape
  <2>3. Cur(w) \in DOMAIN row
    BY <1>1, CurInHand DEF ImportInv, RowsInHand, RowSteps
  <2>4. Makers'
    BY <1>1, <2>2, <2>3 DEF ImportInv, Makers
  <2>5. pc'[w] = "created" /\ found'[w] = NextId
        /\ \A v \in Workers \ {w} : pc'[v] = pc[v]
    BY <1>7, <2>1 DEF ImportInv, ImportShape, WorkerShape
  <2>6. \A v \in Workers : Cur(v)' = Cur(v)
    BY <1>1 DEF Cur
  <2>7. ASSUME NEW i \in Live', NEW n, n = reg'[i].made, n \in DOMAIN row, n \notin hit
        PROVE  InHand(n, i)' \/ (row[n].status = "PROCESSED" /\ row[n].reg = i)
    <3>1. CASE i = NextId
      BY <2>2, <2>5, <2>6, <2>7, <3>1 DEF InHand
    <3>2. CASE i # NextId /\ InHand(n, i)
      <4>1. PICK v \in Workers : pc[v] = "created" /\ found[v] = i /\ Cur(v) = n
        BY <3>2 DEF InHand
      <4>2. v # w
        BY <1>1, <4>1
      <4> QED BY <1>3, <2>5, <2>6, <4>1, <4>2 DEF InHand
    <3>3. CASE i # NextId /\ ~InHand(n, i)
      BY <2>2, <2>7, <3>3 DEF ImportInv, CreationIsReported
    <3> QED BY <3>1, <3>2, <3>3
  <2>8. CreationIsReported'
    BY <1>1, <2>7 DEF CreationIsReported
  <2> QED BY <1>5, <2>2, <2>4, <2>8 DEF ImportInv, ImportShape
<1> QED BY <1>6, <1>7 DEF Create

LEMMA ExistingStep ==
  ASSUME ImportInv, NEW w \in Workers, Existing(w)
  PROVE  ImportInv'
<1>1. CASE Write(w, "DUPLICATE", found[w], None)
  BY <1>1, WriteKeeps DEF Existing, RowSteps
<1>2. CASE Throw(w)
  BY <1>2, ThrowStep DEF Existing
<1>3. CASE /\ MayUpdate(found[w], Renewal(w))
           /\ reg' = Updated(found[w], Renewal(w))
           /\ Goto(w, "updated")
           /\ UNCHANGED <<types, archived, jobVars, todo, kinds, found, counts, faultVars>>
  <2>1. /\ pc[w] = "existing" /\ pc' = [pc EXCEPT ![w] = "updated"]
        /\ UNCHANGED <<row, job, queued, todo, found, counts, hit>>
    BY <1>3 DEF Existing, Goto, jobVars, faultVars
  <2>2. found[w] \in Ids
    BY <1>3 DEF MayUpdate, Live
  <2>3. RegShape' /\ Live' = Live /\ \A i \in Ids : reg'[i].made = reg[i].made
    BY <1>3, <2>2, UpdateKeeps DEF ImportInv, ImportShape
  <2>4. job' = [status |-> job'.status, counts |-> job'.counts]
        /\ job'.status \in {"PENDING", "PROCESSING"} \cup Final
    BY <2>1, BusyJob DEF ImportInv, ImportShape, JobShape
  <2>5. /\ RowShape' /\ JobShape' /\ WorkerShape'
        /\ QueueHolds' /\ StrayWorkers' /\ RowsInHand' /\ PendingRows'
        /\ CountersHold' /\ EndHolds'
    BY <2>1, <2>3, <2>4, AttemptGoesOn
       DEF ImportInv, ImportShape, WorkerShape, RowsInHand, RowSteps, Steps
  <2>6. \A n, i : InHand(n, i) => InHand(n, i)'
    BY <2>1 DEF InHand, Cur, ImportInv, ImportShape, WorkerShape
  <2>7. Makers' /\ CreationIsReported'
    BY <2>1, <2>3, <2>6 DEF ImportInv, Makers, CreationIsReported, Live
  <2> QED BY <2>3, <2>5, <2>7 DEF ImportInv, ImportShape
<1> QED BY <1>1, <1>2, <1>3 DEF Existing

-----------------------------------------------------------------------------
(* What others do, and the request.                                        *)

\* A step of somebody else leaves the workers and their job alone.
LEMMA OthersKeep ==
  ASSUME ImportInv, UNCHANGED <<job, queued, pc, todo, found, counts, hit>>,
         RegShape', RowShape', DOMAIN row' = DOMAIN row, Pending' = Pending,
         \A n \in Pending : row'[n] = row[n],
         NoneGone' => row' = row
  PROVE  /\ ImportShape' /\ QueueHolds' /\ StrayWorkers' /\ RowsInHand'
         /\ CountersHold' /\ EndHolds'
<1>1. ImportShape'
  BY DEF ImportInv, ImportShape, JobShape, WorkerShape
<1>2. QueueHolds' /\ StrayWorkers'
  BY DEF ImportInv, QueueHolds, StrayWorkers
<1>3. RowsInHand'
  <2>1. \A w \in Workers : \A n \in todo[w] \ hit : n \in Pending /\ row'[n].status = "PENDING"
    BY DEF ImportInv, ImportShape, WorkerShape, RowsInHand, Pending
  <2> QED BY <2>1 DEF ImportInv, RowsInHand
<1>4. NoneGone' => NoneGone /\ TrueCounts' = TrueCounts
  BY SameRows
<1>5. CountersHold' /\ EndHolds'
  BY <1>4 DEF ImportInv, CountersHold, EndHolds
<1> QED BY <1>1, <1>2, <1>3, <1>5

LEMMA DeleteStep ==
  ASSUME ImportInv, NEW i \in Live, Delete(i),
         row' = [n \in DOMAIN row |-> IF row[n].reg = i THEN NoRow ELSE row[n]],
         UNCHANGED <<job, queued, pc, todo, found, counts, hit>>
  PROVE  ImportInv'
<1> DEFINE gone == [Free EXCEPT !.status = "removed"]
<1>1. /\ gone = [status |-> gone.status, made |-> gone.made, data |-> gone.data]
      /\ gone.status = "removed"
  BY DEF Free
<1>2. reg' = [reg EXCEPT ![i] = gone] /\ i \in Ids
  BY DEF Delete, Live
<1> HIDE DEF gone
<1>3. RegShape' /\ \A j \in Ids \ {i} : reg'[j] = reg[j]
  BY <1>1, <1>2 DEF ImportInv, ImportShape, RegShape
<1>4. Live' = Live \ {i}
  BY <1>1, <1>2, <1>3 DEF Live, ImportInv, ImportShape, RegShape
<1>5. NoRow.status = "GONE" /\ NoRow.reg = 0 /\ i # 0
  BY <1>2, RegistrationsAssumption DEF NoRow, Ids
<1>6. /\ DOMAIN row' = DOMAIN row
      /\ \A n \in DOMAIN row : row'[n] = IF row[n].reg = i THEN NoRow ELSE row[n]
  OBVIOUS
<1>7. RowShape'
  BY <1>6 DEF ImportInv, ImportShape, RowShape
<1>8. \A n \in Pending : row'[n] = row[n]
  BY <1>5, <1>6 DEF Pending, ImportInv, PendingRows
<1>9. Pending' = Pending
  BY <1>5, <1>6, <1>8 DEF Pending
<1>10. NoneGone' => row' = row
  <2> SUFFICES ASSUME NoneGone' PROVE row' = row
    OBVIOUS
  <2>1. \A n \in DOMAIN row : row'[n] = row[n]
    BY <1>5, <1>6 DEF NoneGone
  <2> QED BY <1>6, <1>7, <2>1 DEF RowShape, ImportInv, ImportShape
<1>11. PendingRows'
  BY <1>5, <1>6 DEF ImportInv, PendingRows
<1>12. Makers'
  BY <1>3, <1>4, <1>6 DEF ImportInv, Makers, Live
<1>13. CreationIsReported'
  <2>1. \A n, j : InHand(n, j) => InHand(n, j)'
    BY DEF InHand, Cur
  <2>2. ASSUME NEW j \in Live \ {i}, NEW n, n = reg[j].made, n \in DOMAIN row, n \notin hit
        PROVE  InHand(n, j)' \/ (row'[n].status = "PROCESSED" /\ row'[n].reg = j)
    BY <1>6, <2>1, <2>2 DEF ImportInv, CreationIsReported
  <2> QED BY <1>3, <1>4, <1>6, <2>2 DEF CreationIsReported, Live
<1> QED BY <1>3, <1>6, <1>7, <1>8, <1>9, <1>10, <1>11, <1>12, <1>13, OthersKeep DEF ImportInv

LEMMA OthersStep ==
  ASSUME ImportInv, Others
  PROVE  ImportInv'
<1>1. UNCHANGED <<job, queued, pc, todo, found, counts, hit>>
  BY DEF Others, workerVars
<1>2. \A n, i : InHand(n, i) => InHand(n, i)'
  BY <1>1 DEF InHand, Cur
<1>3. ASSUME UNCHANGED row, RegShape', Makers', CreationIsReported'
      PROVE  ImportInv'
  <2>1. RowShape' /\ PendingRows' /\ Pending' = Pending
    BY <1>3, SameRows DEF ImportInv, ImportShape, RowShape, PendingRows
  <2> QED BY <1>1, <1>3, <2>1, OthersKeep DEF ImportInv
<1>4. CASE Register /\ UNCHANGED row
  <2>1. PICK data \in Forms : NextId \in Ids /\ reg' = Added(data, 0)
    BY <1>4 DEF Register
  <2>2. /\ RegShape' /\ reg'[NextId].made = 0
        /\ \A i \in Live' : i # NextId => i \in Live /\ reg'[i].made = reg[i].made
    BY <2>1, AddKeeps DEF ImportInv, ImportShape
  <2>3. Makers' /\ CreationIsReported'
    BY <1>1, <1>2, <1>4, <2>2
       DEF ImportInv, ImportShape, RowShape, Makers, CreationIsReported
  <2> QED BY <1>3, <1>4, <2>2, <2>3
<1>5. CASE Retire /\ UNCHANGED row
  <2>1. RegShape' /\ Makers' /\ CreationIsReported'
    BY <1>1, <1>2, <1>5
       DEF Retire, ImportInv, ImportShape, RegShape, Makers, CreationIsReported, Live
  <2> QED BY <1>3, <1>5, <2>1
<1>6. CASE (\E i \in Live : Update(i)) /\ UNCHANGED row
  <2>1. PICK i \in Ids, edit \in Edits : reg' = Updated(i, edit)
    BY <1>6 DEF Update, Live
  <2>2. RegShape' /\ Live' = Live /\ \A j \in Ids : reg'[j].made = reg[j].made
    BY <2>1, UpdateKeeps DEF ImportInv, ImportShape
  <2>3. Makers' /\ CreationIsReported'
    BY <1>1, <1>2, <1>6, <2>2 DEF ImportInv, Makers, CreationIsReported, Live
  <2> QED BY <1>3, <1>6, <2>2, <2>3
<1>7. CASE \E i \in Live :
             /\ Delete(i)
             /\ row' = [n \in DOMAIN row |-> IF row[n].reg = i THEN NoRow ELSE row[n]]
  BY <1>1, <1>7, DeleteStep
<1> QED BY <1>4, <1>5, <1>6, <1>7 DEF Others

LEMMA CreateJobStep ==
  ASSUME ImportInv, NEW u \in DOMAIN File, CreateJob(u)
  PROVE  ImportInv'
<1>1. /\ job.status = "NONE" /\ job' = [job EXCEPT !.status = "PENDING"]
      /\ row' = [i \in DOMAIN File[u].rows |-> [NoRow EXCEPT !.status = "PENDING"]]
      /\ UNCHANGED <<reg, queued, pc, todo, found, counts, hit>>
  BY DEF CreateJob, workerVars, faultVars
<1>2. DOMAIN row = {} /\ queued.state = "none" /\ \A w \in Workers : pc[w] = "idle"
  BY <1>1 DEF ImportInv, QueueHolds
<1>3. DOMAIN row' \subseteq Nat \ {0} /\ row' = [n \in DOMAIN row' |-> row'[n]]
      /\ \A n \in DOMAIN row' : row'[n].reg = 0
  BY <1>1, FileRows DEF NoRow
<1>4. \A w \in Workers : todo[w] = {}
  BY <1>2 DEF ImportInv, RowsInHand, RowSteps
<1>5. job' = [status |-> "PENDING", counts |-> job.counts]
  BY <1>1 DEF ImportInv, ImportShape, JobShape
<1>6. ImportShape'
  BY <1>1, <1>3, <1>4, <1>5
     DEF ImportInv, ImportShape, RegShape, RowShape, JobShape, WorkerShape
<1>7. QueueHolds' /\ StrayWorkers' /\ RowsInHand' /\ PendingRows'
  BY <1>1, <1>2, <1>3, <1>4, <1>5
     DEF ImportInv, QueueHolds, StrayWorkers, RowsInHand, RowSteps, PendingRows
<1>8. \A i \in Live' : reg'[i].made = 0
  BY <1>1, <1>2 DEF ImportInv, Makers, Live
<1>9. Makers' /\ CreationIsReported'
  BY <1>3, <1>8 DEF Makers, CreationIsReported
<1>10. CountersHold' /\ EndHolds'
  BY <1>1, <1>2, <1>5 DEF CountersHold, EndHolds, Final
<1> QED BY <1>6, <1>7, <1>9, <1>10 DEF ImportInv

LEMMA EnqueueStep ==
  ASSUME ImportInv, Enqueue
  PROVE  ImportInv'
<1>1. /\ job.status = "PENDING" /\ queued.state = "none"
      /\ UNCHANGED <<reg, row, pc, todo, found, counts, hit>>
      /\ \/ queued' = [queued EXCEPT !.state = "waiting"] /\ UNCHANGED job
         \/ job' = [job EXCEPT !.status = "FAILED"] /\ UNCHANGED queued
  BY DEF Enqueue, workerVars
<1>2. \A w \in Workers : pc[w] = "idle"
  BY <1>1 DEF ImportInv, QueueHolds
<1>3. queued.owner = None /\ queued'.owner = None /\ queued'.state \in {"none", "waiting"}
      /\ job'.status # "NONE" /\ (job'.status \in Final => queued'.state = "none")
  BY <1>1 DEF ImportInv, ImportShape, JobShape, QueueHolds, Final
<1>4. ImportShape'
  BY <1>1 DEF ImportInv, ImportShape, RegShape, RowShape, JobShape, WorkerShape, Final
<1>5. QueueHolds' /\ StrayWorkers' /\ RowsInHand' /\ PendingRows' /\ CountersHold' /\ EndHolds'
  BY <1>1, <1>2, <1>3
     DEF ImportInv, QueueHolds, StrayWorkers, RowsInHand, PendingRows, CountersHold, EndHolds
<1>6. Makers' /\ CreationIsReported'
  BY <1>1, ReportStays
<1> QED BY <1>4, <1>5, <1>6 DEF ImportInv

LEMMA ImportStarts == Init => ImportInv
<1> SUFFICES ASSUME Init PROVE ImportInv
  OBVIOUS
<1>1. /\ reg = [i \in Ids |-> Free] /\ row = <<>> /\ hit = {}
      /\ job = [status |-> "NONE", counts |-> NoCounts]
      /\ queued = [state |-> "none", tries |-> 0, owner |-> None]
      /\ pc = [w \in Workers |-> "idle"] /\ todo = [w \in Workers |-> {}]
      /\ DOMAIN found = Workers /\ DOMAIN counts = Workers
  BY DEF Init, InitRegistrations
<1>2. DOMAIN row = {} /\ row = [n \in DOMAIN row |-> row[n]]
  BY <1>1
<1>3. Live = {}
  BY <1>1 DEF Live, Free
<1>4. ImportShape
  BY <1>1, <1>2
     DEF ImportShape, RegShape, RowShape, JobShape, WorkerShape, Steps, Free
<1>5. QueueHolds /\ StrayWorkers /\ RowsInHand /\ PendingRows
  BY <1>1, <1>2 DEF QueueHolds, StrayWorkers, RowsInHand, PendingRows, RowSteps
<1>6. Makers /\ CreationIsReported /\ CountersHold /\ EndHolds
  BY <1>1, <1>3 DEF Makers, CreationIsReported, CountersHold, EndHolds, Final
<1> QED BY <1>4, <1>5, <1>6 DEF ImportInv

LEMMA ImportSteps == ImportInv /\ [Next]_vars => ImportInv'
<1> SUFFICES ASSUME ImportInv, [Next]_vars PROVE ImportInv'
  OBVIOUS
<1>1. CASE \E u \in DOMAIN File : CreateJob(u)
  BY <1>1, CreateJobStep
<1>2. CASE Enqueue
  BY <1>2, EnqueueStep
<1>3. CASE \E w \in Workers : Process(w)
  BY <1>3, TakeStep, BeginStep, StartStep, FetchStep, FindStep, CreateStep, MarkStep,
     FailStep, ExistingStep, CountStep, FinalizeStep DEF Process
<1>4. CASE \E w \in Workers : Crash(w) \/ Stall(w) \/ FailWrite(w)
  BY <1>4, CrashStep, StallStep, FailWriteStep
<1>5. CASE Others
  BY <1>5, OthersStep
<1>6. CASE UNCHANGED vars
  <2>1. UNCHANGED <<reg, job, row, queued, pc, todo, found, counts, hit>>
    BY <1>6 DEF vars, jobVars, workerVars, faultVars
  <2>2. ImportShape'
    BY <2>1 DEF ImportInv, ImportShape, RegShape, RowShape, JobShape, WorkerShape
  <2>3. QueueHolds' /\ StrayWorkers' /\ RowsInHand' /\ PendingRows'
    BY <2>1, SameRows
       DEF ImportInv, QueueHolds, StrayWorkers, RowsInHand, PendingRows
  <2>4. CountersHold' /\ EndHolds'
    BY <2>1, SameRows DEF ImportInv, CountersHold, EndHolds
  <2>5. Makers' /\ CreationIsReported'
    BY <2>1, ReportStays
  <2> QED BY <2>2, <2>3, <2>4, <2>5 DEF ImportInv
<1> QED BY <1>1, <1>2, <1>3, <1>4, <1>5, <1>6 DEF Next

-----------------------------------------------------------------------------
(* The columns of a file.                                                  *)

\* A finite set of numbers has a greatest: the smallest set without one would be
\* without one when an element is removed.
LEMMA MaxInSet ==
  ASSUME NEW T \in SUBSET Nat, IsFiniteSet(T), T # {}
  PROVE  Max(T) \in T /\ \A y \in T : y <= Max(T)
<1> DEFINE Topless(S) == S # {} /\ \A x \in S : \E y \in S : ~(y <= x)
           sizes == {n \in Nat : \E S \in SUBSET T : Topless(S) /\ Cardinality(S) = n}
<1>1. ~Topless(T)
  <2> SUFFICES ASSUME Topless(T) PROVE FALSE
    OBVIOUS
  <2>1. Cardinality(T) \in sizes
    BY FS_CardinalityType
  <2>2. PICK S \in SUBSET T : Topless(S) /\ \A n \in sizes : Cardinality(S) <= n
    <3>1. sizes \in SUBSET Nat
      OBVIOUS
    <3>2. Min(sizes) \in sizes /\ \A n \in sizes : Min(sizes) <= n
      <4> HIDE DEF sizes
      <4> QED BY <2>1, <3>1, MinInSet
    <3> QED BY <3>2
  <2>3. IsFiniteSet(S) /\ Cardinality(S) \in Nat
    BY FS_Subset, FS_CardinalityType
  <2>4. PICK x \in S : TRUE
    BY <2>2
  <2> DEFINE rest == S \ {x}
  <2>5. IsFiniteSet(rest) /\ Cardinality(rest) = Cardinality(S) - 1 /\ Cardinality(rest) \in Nat
    BY <2>3, <2>4, FS_RemoveElement, FS_CardinalityType
  <2>6. ~Topless(rest)
    <3>1. Cardinality(rest) \in sizes => Cardinality(S) <= Cardinality(rest)
      BY <2>2
    <3>2. rest \in SUBSET T
      OBVIOUS
    <3> HIDE DEF Topless, rest
    <3> QED BY <2>3, <2>5, <3>1, <3>2
  <2>7. S \in SUBSET Nat /\ x \in Nat
    BY <2>4
  <2>8. CASE rest = {}
    BY <2>2, <2>4, <2>7, <2>8
  <2>9. CASE rest # {}
    <3>1. PICK m \in rest : \A y \in rest : y <= m
      BY <2>6, <2>9
    <3>2. CASE x <= m
      BY <2>2, <2>7, <3>1, <3>2
    <3>3. CASE m <= x
      <4>1. \A y \in rest : y <= x
        BY <2>7, <3>1, <3>3
      <4>2. \A y \in S : y <= x
        BY <2>7, <4>1
      <4> QED BY <2>2, <2>4, <4>2
    <3> QED BY <2>7, <3>1, <3>2, <3>3
  <2> QED BY <2>8, <2>9
<1>2. PICK x \in T : \A y \in T : y <= x
  BY <1>1
<1>3. \A y \in T : x >= y
  BY <1>2
<1>4. Max(T) \in T /\ \A y \in T : Max(T) >= y
  BY <1>3 DEF Max
<1> QED BY <1>4

\* A table has the width of one of its lines.
LEMMA WidthIsNumber ==
  ASSUME NEW sheet \in Seq(Seq(Cells)), NEW header \in Nat, NEW start \in Nat,
         ParserAccepts(sheet, header, start)
  PROVE  Width(sheet, header, start) \in Nat
<1> DEFINE last == Min({Len(sheet), start + SampleLines - 1})
           lines == {header} \cup start..last
           widths == {Len(sheet[i]) : i \in lines}
<1>1. /\ Len(sheet) \in Nat /\ start + SampleLines - 1 \in Nat
      /\ header \in 1..Len(sheet)
  BY FileAssumption DEF ParserAccepts
<1>2. last \in {Len(sheet), start + SampleLines - 1} /\ last <= Len(sheet)
  BY <1>1, MinInSet
<1>3. last \in Nat
  BY <1>1, <1>2
<1> HIDE DEF last
<1>4. lines \subseteq 1..Len(sheet)
  BY <1>1, <1>2, <1>3 DEF ParserAccepts
<1>5. IsFiniteSet(lines)
  <2>1. IsFiniteSet(1..Len(sheet))
    BY <1>1, FS_Interval
  <2> QED BY <1>4, <2>1, FS_Subset
<1>6. header \in lines
  OBVIOUS
<1> HIDE DEF lines
<1>7. widths \in SUBSET Nat /\ widths # {}
  <2>1. \A i \in lines : sheet[i] \in Seq(Cells)
    BY <1>4
  <2>2. \A i \in lines : Len(sheet[i]) \in Nat
    BY <2>1
  <2> QED BY <1>6, <2>2
<1>8. IsFiniteSet(widths)
  <2> DEFINE f == [i \in lines |-> Len(sheet[i])]
  <2>1. f \in Surjection(lines, widths)
    BY DEF Surjection
  <2> QED BY <1>5, <2>1, FS_Surjection
<1>9. Width(sheet, header, start) = Max(widths)
  BY DEF Width, last, lines
<1> HIDE DEF widths
<1> QED BY <1>7, <1>8, <1>9, MaxInSet

\* No label looks like the key of a repeated label, and the number of a repetition
\* can be read from its key.
LabelsDiffer(labels) ==
  \A c, d \in DOMAIN labels : \A m, n \in Nat \ {0, 1} :
    /\ Renamed(labels[c], n) # labels[d]
    /\ Renamed(labels[c], m) = Renamed(labels[d], n) => labels[c] = labels[d] /\ m = n

\* buildHeaders gives every column a key of its own.
LEMMA KeysDiffer ==
  ASSUME NEW line, NEW width \in Nat, LabelsDiffer(Labels(line, width)),
         NEW c \in 1..width, NEW d \in 1..width, c < d
  PROVE  BuildHeaders(line, width)[c] # BuildHeaders(line, width)[d]
<1> DEFINE label == Labels(line, width)
           before(e) == {x \in 1..e : label[x] = label[e]}
           n(e) == Cardinality(before(e))
<1>1. ASSUME NEW e \in 1..width
      PROVE  /\ IsFiniteSet(before(e)) /\ n(e) \in Nat \ {0}
             /\ BuildHeaders(line, width)[e] = IF n(e) = 1 THEN label[e] ELSE Renamed(label[e], n(e))
  <2>1. IsFiniteSet(1..e) /\ e \in 1..e
    BY FS_Interval
  <2>2. before(e) \in SUBSET (1..e) /\ e \in before(e)
    BY <2>1
  <2>3. IsFiniteSet(before(e))
    BY <2>1, <2>2, FS_Subset
  <2>4. n(e) \in Nat /\ n(e) # 0
    <3> HIDE DEF before
    <3> QED BY <2>2, <2>3, FS_CardinalityType, FS_EmptySet
  <2>5. BuildHeaders(line, width)[e] = IF n(e) = 1 THEN label[e] ELSE Renamed(label[e], n(e))
    BY DEF BuildHeaders
  <2> QED BY <2>3, <2>4, <2>5
<1>2. label[c] = label[d] => n(c) # n(d)
  <2> SUFFICES ASSUME label[c] = label[d] PROVE n(c) # n(d)
    OBVIOUS
  <2>1. before(c) \in SUBSET before(d)
    OBVIOUS
  <2>2. d \in before(d) /\ d \notin before(c)
    OBVIOUS
  <2>3. IsFiniteSet(before(d))
    BY <1>1
  <2> HIDE DEF before
  <2> QED BY <2>1, <2>2, <2>3, FS_Subset
<1>3. DOMAIN label = 1..width
  BY DEF Labels
<1> HIDE DEF label, n
<1>4. \A e \in 1..width : n(e) \in Nat \ {0}
  BY <1>1
<1>5. \A x, y \in 1..width : \A j, k \in Nat \ {0, 1} :
        /\ Renamed(label[x], k) # label[y]
        /\ Renamed(label[x], j) = Renamed(label[y], k) => label[x] = label[y] /\ j = k
  BY <1>3 DEF LabelsDiffer, label
<1>6. /\ BuildHeaders(line, width)[c] = IF n(c) = 1 THEN label[c] ELSE Renamed(label[c], n(c))
      /\ BuildHeaders(line, width)[d] = IF n(d) = 1 THEN label[d] ELSE Renamed(label[d], n(d))
  BY <1>1
<1>7. CASE n(c) = 1 /\ n(d) = 1
  BY <1>2, <1>6, <1>7
<1>8. CASE n(c) = 1 /\ n(d) # 1
  BY <1>4, <1>5, <1>6, <1>8
<1>9. CASE n(c) # 1 /\ n(d) = 1
  BY <1>4, <1>5, <1>6, <1>9
<1>10. CASE n(c) # 1 /\ n(d) # 1
  BY <1>2, <1>4, <1>5, <1>6, <1>10
<1> QED BY <1>7, <1>8, <1>9, <1>10

LEMMA KeysLength ==
  ASSUME NEW width \in Nat, NEW keys, keys = [c \in 1..width |-> keys[c]]
  PROVE  Len(keys) = width
<1> DEFINE S == {keys[c] : c \in 1..width}
<1>1. keys \in [1..width -> S]
  OBVIOUS
<1>2. keys \in Seq(S)
  BY <1>1, SeqDef
<1> HIDE DEF S
<1>3. Len(keys) \in Nat /\ DOMAIN keys = 1..Len(keys) /\ DOMAIN keys = 1..width
  BY <1>1, <1>2, LenProperties
<1> QED BY <1>3

\* A line of the sheet has its cells in the data of its row.
LEMMA LineIsKept ==
  ASSUME NEW line \in Seq(Cells), NEW width \in Nat, NEW keys, keys = [c \in 1..width |-> keys[c]],
         \A c, d \in 1..width : c < d => keys[c] # keys[d],
         NEW c \in 1..width, c <= Len(line)
  PROVE  DataOf(line, keys)[keys[c]] = line[c]
<1>1. Len(keys) = width
  BY KeysLength
<1>2. \A d \in 1..Len(keys) : keys[d] = keys[c] <=> d = c
  BY <1>1
<1>3. {d \in 1..Len(keys) : keys[d] = keys[c]} = {c}
  BY <1>1, <1>2
<1>4. Max({c}) = c
  <2>1. IsFiniteSet({c})
    BY FS_Singleton, Zenon
  <2>2. {c} \in SUBSET Nat /\ {c} # {}
    OBVIOUS
  <2> QED BY <2>1, <2>2, MaxInSet
<1>5. DataOf(line, keys)[keys[c]] = Cell(line, c)
  BY <1>1, <1>3, <1>4 DEF DataOf
<1> QED BY <1>5 DEF Cell

LEMMA FileKeepsColumns ==
  ASSUME NEW u \in DOMAIN File, LabelsDiffer(File[u].labels)
  PROVE  KeepsColumns(u)
<1> DEFINE asked == Uploads[u]
           header == HeaderRow(asked)
           start == DataStart(asked)
           width == Width(asked.sheet, header, start)
           keys == BuildHeaders(asked.sheet[header], width)
<1>1. /\ u \in 1..Len(Uploads)
      /\ ParserAccepts(asked.sheet, header, start)
      /\ File[u] = Parsed(asked)
  BY DEF File
<1>2. asked.sheet \in Seq(Seq(Cells))
  BY <1>1, ImportAssumption
<1>3. /\ File[u].labels = Labels(asked.sheet[header], width)
      /\ File[u].keys = keys
      /\ File[u].rows = [i \in DataLines(asked.sheet, start) |-> DataOf(asked.sheet[i], keys)]
  BY <1>1 DEF Parsed, ParseFile
<1>4. header \in Nat \ {0} /\ start \in Nat \ {0}
  <2> HIDE DEF asked, header, start
  <2> QED BY <1>1, <1>2 DEF ParserAccepts
<1>5. width \in Nat
  <2> HIDE DEF asked, header, start
  <2> QED BY <1>1, <1>2, <1>4, WidthIsNumber
<1>6. \A c, d \in 1..width : c < d => keys[c] # keys[d]
  <2> HIDE DEF asked, header, start, width
  <2> QED BY <1>3, <1>5, KeysDiffer
<1>7. keys = [c \in 1..width |-> keys[c]]
  BY DEF BuildHeaders
<1>8. Len(keys) = width
  <2> HIDE DEF asked, header, start, width, keys
  <2> QED BY <1>5, <1>7, KeysLength
<1>9. ASSUME NEW n \in 1..Len(asked.sheet), NEW c \in Filled(asked.sheet[n]),
             n >= start, c <= Len(keys)
      PROVE  /\ n \in DOMAIN File[u].rows
             /\ File[u].rows[n][keys[c]] = asked.sheet[n][c]
  <2> HIDE DEF asked, header, start, width, keys
  <2>1. asked.sheet[n] \in Seq(Cells) /\ Len(asked.sheet) \in Nat
    BY <1>2
  <2>2. c \in 1..Len(asked.sheet[n]) /\ Len(asked.sheet[n]) \in Nat
    BY <2>1 DEF Filled
  <2>3. c \in 1..width
    BY <1>5, <1>8, <1>9, <2>2
  <2>4. n \in DataLines(asked.sheet, start)
    BY <1>4, <1>9, <2>1 DEF DataLines
  <2>5. DataOf(asked.sheet[n], keys)[keys[c]] = asked.sheet[n][c]
    BY <1>5, <1>6, <1>7, <2>1, <2>2, <2>3, LineIsKept
  <2> QED BY <1>3, <2>4, <2>5
<1> QED BY <1>3, <1>9 DEF KeepsColumns

\* The rows of the job are the lines of its file.
FileHolds == upload # 0 => upload \in DOMAIN File /\ DOMAIN row = DOMAIN File[upload].rows

\* Rows are written, and a removed registration takes them along, but no step other
\* than the request changes which rows there are.
LEMMA RowsStay ==
  ASSUME [Next]_vars, ~ \E u \in DOMAIN File : CreateJob(u)
  PROVE  UNCHANGED upload /\ DOMAIN row' = DOMAIN row
<1>1. CASE UNCHANGED <<upload, row>>
  BY <1>1
<1>2. ASSUME NEW w \in Workers, NEW s, NEW i, NEW action, Write(w, s, i, action)
      PROVE  UNCHANGED upload /\ DOMAIN row' = DOMAIN row
  BY <1>2 DEF Write, Unmoved
<1>3. ASSUME NEW w \in Workers, FailMark(w)
      PROVE  UNCHANGED <<upload, row>>
  BY <1>3 DEF FailMark, jobVars
<1>4. ASSUME NEW w \in Workers, Process(w)
      PROVE  UNCHANGED upload /\ DOMAIN row' = DOMAIN row
  <2>1. CASE Take(w) \/ Begin(w) \/ Start(w) \/ Fetch(w) \/ Find(w) \/ Count(w) \/ Finalize(w)
    BY <1>1, <2>1 DEF Take, Begin, Start, Fetch, Find, Count, Finalize, Throw, Unmoved
  <2>2. CASE Create(w)
    BY <2>2 DEF Create, jobVars
  <2>3. CASE Mark(w)
    BY <1>2, <1>3, <2>3 DEF Mark
  <2>4. CASE Fail(w)
    BY <1>2, <2>4 DEF Fail, Throw, Unmoved
  <2>5. CASE Existing(w)
    BY <1>2, <2>5 DEF Existing, Throw, Unmoved, jobVars
  <2> QED BY <1>4, <2>1, <2>2, <2>3, <2>4, <2>5 DEF Process
<1>5. CASE Enqueue
  BY <1>5 DEF Enqueue
<1>6. CASE \E w \in Workers : Crash(w) \/ Stall(w) \/ FailWrite(w)
  BY <1>3, <1>6 DEF Crash, Stall, FailWrite
<1>7. CASE Others
  BY <1>7 DEF Others
<1>8. CASE UNCHANGED vars
  BY <1>8 DEF vars, jobVars
<1> QED BY <1>4, <1>5, <1>6, <1>7, <1>8 DEF Next

LEMMA FileStep == FileHolds /\ [Next]_vars => FileHolds'
<1> SUFFICES ASSUME FileHolds, [Next]_vars PROVE FileHolds'
  OBVIOUS
<1>1. CASE \E u \in DOMAIN File : CreateJob(u)
  BY <1>1 DEF CreateJob, FileHolds
<1>2. CASE ~ \E u \in DOMAIN File : CreateJob(u)
  BY <1>2, RowsStay DEF FileHolds
<1> QED BY <1>1, <1>2

LEMMA FileStays == Spec => []FileHolds
<1>1. Init => FileHolds
  BY DEF Init, FileHolds
<1> QED BY <1>1, FileStep, PTL DEF Spec

-----------------------------------------------------------------------------
(* What the preview foretells.                                             *)

\* A column with an identifier is in the suggested mapping: no other field has
\* taken it, to be found by the fallback labels of normalizeRow.
IdentifiersMapped(u) ==
  \A f \in Identifiers :
    Mapping[u][f] = None => \A c \in DOMAIN File[u].keys : Normal[File[u].keys[c]] \notin Fallbacks[f]

\* The identifier row n of the job asks for.
Identifier(n, f) == SystemValue(File[upload], n, Mapping[upload], f)

LEMMA AskedIdentifier ==
  ASSUME NEW u \in DOMAIN File, NEW n \in DOMAIN File[u].rows, NEW active \in SUBSET Types,
         NEW f \in Identifiers
  PROVE  Asked[u][n][active][f] = SystemValue(File[u], n, Mapping[u], f)
<1> DEFINE data == NormalizeRow(File[u], n, Mapping[u], Uploads[u].kind, active,
                                IF DefaultType \in active THEN DefaultType ELSE None)
<1>1. Asked[u][n][active] = data
  BY DEF Asked
<1>2. /\ data["phone"] = SystemValue(File[u], n, Mapping[u], "phone")
      /\ data["email"] = SystemValue(File[u], n, Mapping[u], "email")
      /\ data["externalId"] = SystemValue(File[u], n, Mapping[u], "externalId")
  BY DEF NormalizeRow
<1> HIDE DEF data
<1> QED BY <1>1, <1>2 DEF Identifiers

\* No two rows of a file the preview had nothing to say about share an identifier.
LEMMA RowsDiffer ==
  ASSUME NEW u \in NoneForetold, IdentifiersMapped(u),
         NEW n \in DOMAIN File[u].rows, NEW m \in DOMAIN File[u].rows, n # m,
         NEW f \in Identifiers,
         SystemValue(File[u], n, Mapping[u], f) # "none"
  PROVE  SystemValue(File[u], n, Mapping[u], f) # SystemValue(File[u], m, Mapping[u], f)
<1> DEFINE file == File[u]
           key == Mapping[u][f]
           value(i) == SystemValue(file, i, Mapping[u], f)
<1>1. u \in DOMAIN File /\ Uploads[u].mapping = <<>> /\ Mapping[u] = SuggestMapping(file)
  BY DEF NoneForetold, Mapping
<1>2. PICK shown \in Preview(file, Uploads[u].kind, Types) :
        \A x \in shown.warnings : x[1] \notin Identifiers
  BY DEF NoneForetold
<1>3. shown.warnings = Warnings(file, SuggestMapping(file), Uploads[u].kind)
  BY DEF Preview
<1>4. key # None => Repeated(file, key) = {}
  <2> SUFFICES ASSUME key # None, Repeated(file, key) # {}
               PROVE  <<f, Repeated(file, key)>> \in shown.warnings
    BY <1>2
  <2> DEFINE sm == SuggestMapping(file)
  <2>1. key = sm[f]
    BY <1>1
  <2> HIDE DEF sm, key
  <2>2. <<f, Repeated(file, sm[f])>> \in
          {<<g, Repeated(file, sm[g])>> :
             g \in {h \in {"phone", "email", "externalId"} :
                      sm[h] # None /\ Repeated(file, sm[h]) # {}}}
    BY <2>1 DEF Identifiers
  <2>3. shown.warnings = Warnings(file, sm, Uploads[u].kind)
    BY <1>3 DEF sm
  <2> QED BY <2>1, <2>2, <2>3 DEF Warnings
<1>5. key # None
  <2> SUFFICES ASSUME key = None PROVE FALSE
    OBVIOUS
  <2>1. {c \in DOMAIN file.keys : Normal[file.keys[c]] \in Fallbacks[f]} = {}
    BY DEF IdentifiersMapped
  <2>2. value(n) = None
    BY <2>1 DEF SystemValue, MappedValue
  <2> QED BY <2>2 DEF None
<1>6. \A i \in DOMAIN file.rows :
        value(i) = IF file.rows[i][key] = Blank THEN None ELSE file.rows[i][key]
  BY <1>5 DEF SystemValue, MappedValue
<1>7. value(n) = file.rows[n][key] /\ file.rows[n][key] # Blank
  BY <1>6 DEF None
<1>8. file.rows[m][key] # file.rows[n][key]
  <2>1. n \notin Repeated(file, key)
    BY <1>4, <1>5
  <2> HIDE DEF file, key
  <2> QED BY <1>7, <2>1 DEF Repeated, file
<1> QED BY <1>6, <1>7, <1>8 DEF None

\* What a worker read of the attendee types are types of the event.
KindsHold == types \subseteq Types /\ kinds \in [Workers -> SUBSET Types] /\ changes \in Nat

LEMMA KindsStay ==
  ASSUME KindsHold, [Next]_vars
  PROVE  KindsHold' /\ (changes' = 0 => changes = 0 /\ ~Others)
<1>1. ASSUME NEW w \in Workers, NEW s, NEW t, Return(w, s, t), UNCHANGED <<types, changes>>
      PROVE  KindsHold'
  BY <1>1 DEF Return, Forget, KindsHold
<1>2. CASE Others
  <2>1. changes' = changes + 1 /\ UNCHANGED kinds
    BY <1>2 DEF Others, workerVars
  <2>2. types' \subseteq types
    BY <1>2 DEF Others, Register, Retire, Update, Delete
  <2> QED BY <2>1, <2>2 DEF KindsHold
<1>3. ASSUME NEW w \in Workers, Process(w)
      PROVE  KindsHold' /\ UNCHANGED changes
  <2>1. CASE Begin(w)
    BY <1>1, <2>1 DEF Begin, Finish, Throw, FailAttempt, Unmoved, faultVars, KindsHold
  <2>2. CASE Take(w) \/ Start(w) \/ Fetch(w) \/ Find(w) \/ Count(w)
    BY <2>2 DEF Take, Start, Fetch, Find, Count, Unmoved, faultVars, KindsHold
  <2>3. CASE Create(w)
    BY <2>3 DEF Create, faultVars, KindsHold
  <2>4. CASE Mark(w) \/ Fail(w) \/ Existing(w)
    BY <1>1, <2>4
       DEF Mark, FailMark, Fail, Existing, Write, Advance, Throw, FailAttempt, Unmoved,
           faultVars, KindsHold
  <2>5. CASE Finalize(w)
    BY <1>1, <2>5 DEF Finalize, Finish, Unmoved, faultVars, KindsHold
  <2> QED BY <1>3, <2>1, <2>2, <2>3, <2>4, <2>5 DEF Process
<1>4. ASSUME NEW w \in Workers, Crash(w) \/ Stall(w) \/ FailWrite(w)
      PROVE  KindsHold' /\ UNCHANGED changes
  BY <1>1, <1>4 DEF Crash, Stall, FailWrite, FailMark, FailAttempt, Fault, workerVars, KindsHold
<1>5. ASSUME (\E u \in DOMAIN File : CreateJob(u)) \/ Enqueue
      PROVE  KindsHold' /\ UNCHANGED changes
  BY <1>5 DEF CreateJob, Enqueue, workerVars, faultVars, KindsHold
<1>6. ASSUME UNCHANGED vars
      PROVE  KindsHold' /\ UNCHANGED changes
  BY <1>6 DEF vars, workerVars, faultVars, KindsHold
<1> QED BY <1>2, <1>3, <1>4, <1>5, <1>6 DEF Next, KindsHold

\* While nobody else works on the event, every registration was made by a row.
OnlyImported == changes = 0 => \A i \in Live : reg[i].made \in DOMAIN row

\* Registrations have the identifiers of their rows, and no row met a duplicate.
AsAsked == \A i \in Live : \A f \in Identifiers : reg[i].data[f] = Identifier(reg[i].made, f)
NoDuplicate ==
  /\ \A w \in Workers : pc[w] \notin {"existing", "updated"}
  /\ \A n \in DOMAIN row : row[n].status # "DUPLICATE"

Foretold == upload \in NoneForetold /\ hit = {} /\ changes = 0 => AsAsked /\ NoDuplicate

PreviewInv == ImportInv /\ FileHolds /\ KindsHold /\ OnlyImported /\ Foretold

\* What a worker reads of its row.
LEMMA DataOfRow ==
  ASSUME ImportShape, FileHolds, KindsHold, upload \in DOMAIN File,
         NEW w \in Workers, Cur(w) \in DOMAIN row, NEW f \in Identifiers
  PROVE  Data(w)[f] = Identifier(Cur(w), f)
<1>1. Cur(w) \in DOMAIN File[upload].rows /\ kinds[w] \in SUBSET Types
  <2>1. upload # 0
    BY DEF File
  <2> QED BY <2>1 DEF FileHolds, KindsHold
<1> QED BY <1>1, AskedIdentifier DEF Data, Identifier

\* A row that has made no registration yet matches none: it would share an
\* identifier with the row that made it.
LEMMA NoMatch ==
  ASSUME PreviewInv, upload \in NoneForetold, IdentifiersMapped(upload), hit = {}, changes = 0,
         NEW w \in Workers, pc[w] \in {"find", "refind"}
  PROVE  Matches(Data(w)) = {}
<1>1. /\ upload \in DOMAIN File /\ upload # 0 /\ DOMAIN row = DOMAIN File[upload].rows
      /\ Cur(w) \in todo[w] /\ Cur(w) \in DOMAIN row
  <2>1. upload \in DOMAIN File /\ upload # 0
    BY DEF NoneForetold, File
  <2> QED BY <2>1, CurInHand DEF PreviewInv, FileHolds, ImportInv, RowsInHand, RowSteps
<1> SUFFICES ASSUME NEW i \in Live, NEW f \in Identifiers, Shares(i, Data(w), f)
             PROVE  FALSE
  BY DEF Matches
<1> DEFINE n == reg[i].made
<1>2. n \in DOMAIN row /\ reg[i].data[f] = Identifier(n, f)
  BY DEF PreviewInv, OnlyImported, Foretold, AsAsked
<1>3. Data(w)[f] = Identifier(Cur(w), f)
  BY <1>1, DataOfRow DEF PreviewInv, ImportInv
<1>4. n = Cur(w)
  <2>1. Identifier(Cur(w), f) # "none" /\ Identifier(n, f) = Identifier(Cur(w), f)
    BY <1>2, <1>3 DEF Shares
  <2> HIDE DEF n
  <2> QED BY <1>1, <1>2, <2>1, RowsDiffer DEF Identifier
<1>5. row[n].status = "PENDING"
  BY <1>1, <1>4 DEF PreviewInv, ImportInv, RowsInHand
<1>6. InHand(n, i)
  BY <1>2, <1>5 DEF PreviewInv, ImportInv, CreationIsReported
<1>7. PICK v \in Workers : pc[v] = "created" /\ Cur(v) = n
  BY <1>6 DEF InHand
<1>8. n \in todo[v]
  BY <1>7, CurInHand DEF PreviewInv, ImportInv, RowsInHand, RowSteps
<1>9. v = w
  BY <1>1, <1>4, <1>8, OneWorkerOnRow DEF PreviewInv
<1> QED BY <1>7, <1>9

\* A step that adds no registration leaves them as they were asked for.
LEMMA SameRegistrations ==
  ASSUME UNCHANGED <<reg, upload>>, DOMAIN row' = DOMAIN row
  PROVE  /\ AsAsked => AsAsked'
         /\ (\A i \in Live : reg[i].made \in DOMAIN row)
              => \A i \in Live' : reg'[i].made \in DOMAIN row'
BY DEF AsAsked, Live, Identifier

\* A worker creates the registration its row asks for.
LEMMA InsertAsAsked ==
  ASSUME PreviewInv, NEW w \in Workers, pc[w] = "create", Insert(w),
         UNCHANGED <<upload, row>>, \A i \in Live : reg[i].made \in DOMAIN row
  PROVE  /\ \A i \in Live' : reg'[i].made \in DOMAIN row'
         /\ upload \in DOMAIN File /\ AsAsked => AsAsked'
<1> DEFINE data == [f \in DOMAIN NoData |-> Data(w)[f]]
           new == [status |-> "live", made |-> Cur(w), data |-> data]
<1>1. Cur(w) \in DOMAIN row
  BY CurInHand DEF PreviewInv, ImportInv, RowsInHand, RowSteps
<1>2. NextId \in Ids /\ reg' = [reg EXCEPT ![NextId] = new]
  BY DEF Insert, Added
<1>3. new.made = Cur(w) /\ new.data = data
  OBVIOUS
<1>4. \A f \in Identifiers : data[f] = Data(w)[f]
  BY DEF Identifiers, NoData
<1> HIDE DEF new, data
<1>5. reg'[NextId] = new /\ \A i \in Live' : i # NextId => i \in Live /\ reg'[i] = reg[i]
  BY <1>2 DEF PreviewInv, ImportInv, ImportShape, RegShape, Live
<1>6. \A i \in Live' : reg'[i].made \in DOMAIN row'
  BY <1>1, <1>3, <1>5
<1>7. ASSUME upload \in DOMAIN File, AsAsked
      PROVE  AsAsked'
  <2>1. \A f \in Identifiers : new.data[f] = Identifier(Cur(w), f)
    BY <1>1, <1>3, <1>4, <1>7, DataOfRow DEF PreviewInv, ImportInv
  <2>2. \A n, f : Identifier(n, f)' = Identifier(n, f)
    BY DEF Identifier
  <2> SUFFICES ASSUME NEW i \in Live', NEW f \in Identifiers
               PROVE  reg'[i].data[f] = Identifier(reg'[i].made, f)
    BY <2>2 DEF AsAsked, Identifier
  <2> QED BY <1>3, <1>5, <1>7, <2>1 DEF AsAsked
<1> QED BY <1>6, <1>7

\* A step that adds no registration, and meets no duplicate, keeps what was foretold.
LEMMA StepKeeps ==
  ASSUME PreviewInv, UNCHANGED <<reg, upload, changes>>, DOMAIN row' = DOMAIN row,
         hit \subseteq hit',
         upload \in NoneForetold /\ hit' = {} /\ changes = 0 => NoDuplicate'
  PROVE  OnlyImported' /\ Foretold'
<1>1. OnlyImported'
  BY SameRegistrations DEF PreviewInv, OnlyImported
<1>2. ASSUME upload \in NoneForetold, hit' = {}, changes = 0
      PROVE  AsAsked' /\ NoDuplicate'
  <2>1. AsAsked
    BY <1>2 DEF PreviewInv, Foretold
  <2> QED BY <1>2, <2>1, SameRegistrations
<1> QED BY <1>1, <1>2 DEF Foretold

\* A worker that writes no row meets no duplicate on its way to another step.
LEMMA MoveKeeps ==
  ASSUME PreviewInv, NEW w \in Workers, NEW step \in Steps \ {"existing", "updated"}, Goto(w, step),
         UNCHANGED <<reg, upload, changes, row>>, hit \subseteq hit'
  PROVE  OnlyImported' /\ Foretold'
<1>1. ASSUME upload \in NoneForetold, hit' = {}, changes = 0
      PROVE  NoDuplicate'
  <2>1. NoDuplicate
    BY <1>1 DEF PreviewInv, Foretold
  <2>2. \A v \in Workers : pc'[v] \in {pc[v], step}
    BY DEF Goto, PreviewInv, ImportInv, ImportShape, WorkerShape
  <2> QED BY <2>1, <2>2 DEF NoDuplicate
<1> QED BY <1>1, StepKeeps

\* A row that is written is no duplicate, unless its worker found a registration.
LEMMA RowKeeps ==
  ASSUME PreviewInv, NEW w \in Workers, pc[w] \in RowSteps,
         NEW s, NEW i, NEW action, Write(w, s, i, action),
         s = "DUPLICATE" => pc[w] = "existing"
  PROVE  OnlyImported' /\ Foretold'
<1>1. /\ UNCHANGED <<reg, upload, changes, hit>>
      /\ row' = [row EXCEPT ![Cur(w)] = [status |-> s, reg |-> i, action |-> action]]
  BY DEF Write, Unmoved, faultVars
<1>2. ASSUME upload \in NoneForetold, hit' = {}, changes = 0
      PROVE  NoDuplicate'
  <2>1. NoDuplicate
    BY <1>1, <1>2 DEF PreviewInv, Foretold
  <2>2. s # "DUPLICATE"
    BY <2>1 DEF NoDuplicate
  <2>3. PICK step \in {"fetch", "find"} : pc' = [pc EXCEPT ![w] = step]
    BY DEF Write, Advance, Goto
  <2>4. \A v \in Workers : pc'[v] \in {pc[v], step}
    BY <2>3 DEF PreviewInv, ImportInv, ImportShape, WorkerShape
  <2>5. \A n \in DOMAIN row : row'[n].status \in {row[n].status, s}
    BY <1>1
  <2> QED BY <1>1, <2>1, <2>2, <2>4, <2>5 DEF NoDuplicate
<1> QED BY <1>1, <1>2, StepKeeps

LEMMA ReturnForetells ==
  ASSUME PreviewInv, NEW w \in Workers, NEW s, NEW t, Return(w, s, t),
         UNCHANGED <<reg, upload, changes, row>>, hit \subseteq hit'
  PROVE  OnlyImported' /\ Foretold'
BY MoveKeeps DEF Return, Steps

LEMMA FindForetells ==
  ASSUME PreviewInv, \A u \in NoneForetold : IdentifiersMapped(u), NEW w \in Workers, Find(w)
  PROVE  OnlyImported' /\ Foretold'
<1>1. pc[w] \in {"find", "refind"} /\ UNCHANGED <<reg, upload, changes, row, hit>>
  BY DEF Find, Unmoved, faultVars
<1>2. PICK step \in {"fail", "create", "existing"} :
        /\ Goto(w, step)
        /\ step = "existing" => \E i \in Ids : Matches(Data(w)) = {i}
  BY <1>1 DEF Find
<1>3. CASE step # "existing"
  BY <1>1, <1>2, <1>3, MoveKeeps DEF Steps
<1>4. CASE step = "existing"
  <2>1. ~(upload \in NoneForetold /\ hit = {} /\ changes = 0)
    BY <1>1, <1>2, <1>4, NoMatch
  <2> QED BY <1>1, <2>1, StepKeeps
<1> QED BY <1>3, <1>4

LEMMA CreateForetells ==
  ASSUME PreviewInv, NEW w \in Workers, Create(w)
  PROVE  OnlyImported' /\ Foretold'
<1>1. pc[w] = "create" /\ UNCHANGED <<upload, row, changes, hit>>
  BY DEF Create, jobVars, faultVars
<1>2. CASE UNCHANGED reg /\ (Goto(w, "fail") \/ Goto(w, "refind"))
  BY <1>1, <1>2, MoveKeeps DEF Steps
<1>3. CASE Insert(w) /\ Goto(w, "created")
  <2>1. ASSUME changes = 0 PROVE \A i \in Live : reg[i].made \in DOMAIN row
    BY <2>1 DEF PreviewInv, OnlyImported
  <2>2. OnlyImported'
    BY <1>1, <1>3, <2>1, InsertAsAsked DEF OnlyImported
  <2>3. ASSUME upload \in NoneForetold, hit = {}, changes = 0
        PROVE  AsAsked' /\ NoDuplicate'
    <3>1. AsAsked /\ NoDuplicate /\ upload \in DOMAIN File
      BY <2>3 DEF PreviewInv, Foretold, NoneForetold
    <3>2. AsAsked'
      BY <1>1, <1>3, <2>1, <2>3, <3>1, InsertAsAsked
    <3>3. \A v \in Workers : pc'[v] \in {pc[v], "created"}
      BY <1>3 DEF Goto, PreviewInv, ImportInv, ImportShape, WorkerShape
    <3> QED BY <1>1, <3>1, <3>2, <3>3 DEF NoDuplicate
  <2> QED BY <1>1, <2>2, <2>3 DEF Foretold
<1> QED BY <1>2, <1>3 DEF Create

LEMMA FailMarkForetells ==
  ASSUME PreviewInv, NEW w \in Workers, FailMark(w), hit \subseteq hit', UNCHANGED changes
  PROVE  OnlyImported' /\ Foretold'
<1>1. UNCHANGED <<reg, upload, row>>
  BY DEF FailMark, jobVars
<1>2. CASE Goto(w, "fail")
  BY <1>1, <1>2, MoveKeeps DEF Steps
<1>3. CASE FailAttempt(w)
  BY <1>1, <1>3, ReturnForetells DEF FailAttempt
<1> QED BY <1>2, <1>3 DEF FailMark

LEMMA ExistingForetells ==
  ASSUME PreviewInv, NEW w \in Workers, Existing(w)
  PROVE  OnlyImported' /\ Foretold'
<1>1. pc[w] = "existing"
  BY DEF Existing
<1>2. CASE Write(w, "DUPLICATE", found[w], None)
  BY <1>1, <1>2, RowKeeps DEF RowSteps
<1>3. CASE Throw(w)
  BY <1>3, ReturnForetells DEF Throw, FailAttempt, Unmoved, faultVars
<1>4. CASE /\ MayUpdate(found[w], Renewal(w))
           /\ reg' = Updated(found[w], Renewal(w))
           /\ UNCHANGED <<jobVars, faultVars>>
  <2>1. UNCHANGED <<upload, row, changes, hit>>
    BY <1>4 DEF jobVars, faultVars
  <2>2. Live' = Live /\ \A i \in Ids : reg'[i].made = reg[i].made
    BY <1>4, UpdateKeeps DEF MayUpdate, Live, PreviewInv, ImportInv, ImportShape
  <2>3. OnlyImported'
    BY <2>1, <2>2 DEF PreviewInv, OnlyImported, Live
  <2>4. ~(upload \in NoneForetold /\ hit = {} /\ changes = 0)
    BY <1>1 DEF PreviewInv, Foretold, NoDuplicate
  <2> QED BY <2>1, <2>3, <2>4 DEF Foretold
<1> QED BY <1>2, <1>3, <1>4 DEF Existing

LEMMA ProcessForetells ==
  ASSUME PreviewInv, \A u \in NoneForetold : IdentifiersMapped(u), NEW w \in Workers, Process(w)
  PROVE  OnlyImported' /\ Foretold'
<1>1. CASE Take(w) \/ Start(w) \/ Fetch(w) \/ Count(w)
  BY <1>1, MoveKeeps DEF Take, Start, Fetch, Count, Unmoved, faultVars, Steps
<1>2. CASE Begin(w)
  <2>1. UNCHANGED <<reg, upload, changes, row, hit>>
    BY <1>2 DEF Begin, Throw, Unmoved, faultVars
  <2>2. CASE Goto(w, "start")
    BY <2>1, <2>2, MoveKeeps DEF Steps
  <2>3. CASE Finish(w) \/ Throw(w)
    BY <2>1, <2>3, ReturnForetells DEF Finish, Throw, FailAttempt
  <2> QED BY <1>2, <2>2, <2>3 DEF Begin
<1>3. CASE Find(w)
  BY <1>3, FindForetells
<1>4. CASE Create(w)
  BY <1>4, CreateForetells
<1>5. CASE Mark(w)
  <2>1. CASE Write(w, "PROCESSED", found[w], pc[w])
    BY <1>5, <2>1, RowKeeps DEF Mark, RowSteps
  <2>2. CASE FailMark(w) /\ UNCHANGED faultVars
    BY <2>2, FailMarkForetells DEF faultVars
  <2> QED BY <1>5, <2>1, <2>2 DEF Mark
<1>6. CASE Fail(w)
  <2>1. CASE Write(w, "FAILED", row[Cur(w)].reg, row[Cur(w)].action)
    BY <1>6, <2>1, RowKeeps DEF Fail, RowSteps
  <2>2. CASE Throw(w)
    BY <2>2, ReturnForetells DEF Throw, FailAttempt, Unmoved, faultVars
  <2> QED BY <1>6, <2>1, <2>2 DEF Fail
<1>7. CASE Existing(w)
  BY <1>7, ExistingForetells
<1>8. CASE Finalize(w)
  BY <1>8, ReturnForetells DEF Finalize, Finish, Unmoved, faultVars
<1> QED BY <1>1, <1>2, <1>3, <1>4, <1>5, <1>6, <1>7, <1>8 DEF Process

\* The request begins with no registration, or others have been at work.
LEMMA RequestForetells ==
  ASSUME PreviewInv, NEW u \in DOMAIN File, CreateJob(u)
  PROVE  OnlyImported' /\ Foretold'
<1>1. /\ job.status = "NONE" /\ upload' = u
      /\ row' = [i \in DOMAIN File[u].rows |-> [NoRow EXCEPT !.status = "PENDING"]]
      /\ UNCHANGED <<reg, pc, changes>>
  BY DEF CreateJob, workerVars, faultVars
<1>2. DOMAIN row = {} /\ \A w \in Workers : pc[w] = "idle"
  BY <1>1 DEF PreviewInv, ImportInv, QueueHolds
<1>3. changes = 0 => Live = {} /\ Live' = {}
  BY <1>1, <1>2 DEF PreviewInv, OnlyImported, Live
<1>4. NoDuplicate'
  <2>1. \A n \in DOMAIN row' : row'[n].status = "PENDING"
    BY <1>1 DEF NoRow
  <2> QED BY <1>1, <1>2, <2>1 DEF NoDuplicate
<1> QED BY <1>1, <1>3, <1>4 DEF OnlyImported, Foretold, AsAsked

LEMMA PreviewSteps ==
  ASSUME \A u \in NoneForetold : IdentifiersMapped(u), PreviewInv, [Next]_vars
  PROVE  PreviewInv'
<1>1. ImportInv'
  BY ImportSteps DEF PreviewInv
<1>2. FileHolds'
  BY FileStep DEF PreviewInv
<1>3. KindsHold' /\ (changes' = 0 => changes = 0 /\ ~Others)
  BY KindsStay DEF PreviewInv
<1> SUFFICES OnlyImported' /\ Foretold'
  BY <1>1, <1>2, <1>3 DEF PreviewInv
<1>4. CASE \E u \in DOMAIN File : CreateJob(u)
  BY <1>4, RequestForetells
<1>5. CASE \E w \in Workers : Process(w)
  BY <1>5, ProcessForetells
<1>6. CASE \E w \in Workers : Crash(w) \/ FailWrite(w)
  BY <1>6, ReturnForetells, FailMarkForetells DEF Crash, FailWrite, Fault
<1>7. ASSUME UNCHANGED <<reg, upload, changes, row, pc>>, hit \subseteq hit'
      PROVE  OnlyImported' /\ Foretold'
  BY <1>7, StepKeeps DEF PreviewInv, Foretold, NoDuplicate
<1>8. CASE (\E w \in Workers : Stall(w)) \/ Enqueue \/ UNCHANGED vars
  BY <1>7, <1>8 DEF Stall, Fault, Enqueue, vars, jobVars, workerVars, faultVars
<1>9. CASE Others
  BY <1>3, <1>9 DEF OnlyImported, Foretold
<1> QED BY <1>4, <1>5, <1>6, <1>8, <1>9 DEF Next

LEMMA PreviewStarts == Init => PreviewInv
<1> SUFFICES ASSUME Init PROVE PreviewInv
  OBVIOUS
<1>1. /\ reg = [i \in Ids |-> Free] /\ types = Types /\ upload = 0 /\ changes = 0
      /\ kinds = [w \in Workers |-> {}]
  BY DEF Init, InitRegistrations
<1>2. Live = {} /\ upload \notin NoneForetold
  BY <1>1 DEF Live, Free, NoneForetold, File
<1> QED BY <1>1, <1>2, ImportStarts DEF PreviewInv, FileHolds, KindsHold, OnlyImported, Foretold

-----------------------------------------------------------------------------
(* Theorems.                                                               *)

\* The inductive invariant of ImportJobs: who has the job, which rows a worker has
\* to process, what was created is reported and the counters are true.
THEOREM ImportInductive == Spec => []ImportInv
BY ImportStarts, ImportSteps, PTL DEF Spec

\* For any number of workers, rows, faults and changes by others, a registration a
\* row made is named by this row as PROCESSED, unless a fault struck the row
\* between the creation and the write (processImportRow).
THEOREM CreationsAreReported == Spec => []CreationIsReported
<1>1. ImportInv => CreationIsReported
  BY DEF ImportInv
<1> QED BY <1>1, ImportInductive, PTL

\* An ended job has the counters of its rows and no PENDING row, through crashes
\* and repeated attempts, when no two workers had the job (finalizeImportJob).
THEOREM ReportsAddUp == Spec => []ReportAddsUp
<1>1. ImportInv => ReportAddsUp
  <2> SUFFICES ASSUME ImportInv, job.status \in Final, queued.state = "done", 0 \notin hit, NoneGone
               PROVE  /\ Pending = {}
                      /\ \A s \in DOMAIN NoCounts : job.counts[s] = With(s)
    BY DEF ReportAddsUp, NoneGone, With
  <2>1. Pending = {} /\ job.counts = TrueCounts
    BY DEF ImportInv, EndHolds
  <2> QED BY <2>1 DEF TrueCounts
<1> QED BY <1>1, ImportInductive, PTL

\* No cell between the sheet and the data of its row is lost, for every sheet in
\* which no label looks like the key of a repeated one (parseFile, buildHeaders).
THEOREM ColumnsAreKept ==
  ASSUME \A u \in DOMAIN File : LabelsDiffer(File[u].labels)
  PROVE  Spec => []ColumnsKept
<1>1. FileHolds => ColumnsKept
  BY FileKeepsColumns DEF FileHolds, ColumnsKept, Keeping
<1> QED BY <1>1, FileStays, PTL

\* When the preview of the suggested mapping finds no identifier twice in the file,
\* no row of any import meets a duplicate, whatever the workers, crashes and
\* repeated attempts, while nobody else works on the event (buildPreviewWarnings,
\* findDuplicateIdentifiersInFile, processImportRow).
THEOREM PreviewsForetell ==
  ASSUME \A u \in NoneForetold : IdentifiersMapped(u)
  PROVE  Spec => []PreviewForetells
<1>1. PreviewInv => PreviewForetells
  BY DEF PreviewInv, Foretold, NoDuplicate, PreviewForetells
<1>2. PreviewInv /\ [Next]_vars => PreviewInv'
  BY PreviewSteps
<1> QED BY <1>1, <1>2, PreviewStarts, PTL DEF Spec
=============================================================================
