-------------------------- MODULE ScanIngestProofs --------------------------
(* Proofs of the safety of ScanIngest for every number of scans, attendees *)
(* and processes.                                                          *)
EXTENDS ScanIngest, TLAPS

-----------------------------------------------------------------------------
(* Type correctness.                                                       *)

\* The types, and every process but the waiting ones holding a scan.
TInv == TypeOK /\ \A p \in Procs : HasScan(p)

\* How handler steps end: a jump that keeps the local variables, or one of
\* Leave, Return and Throw.
Transfer(p) ==
  \/ \E l \in Labels \ {"idle", "next"} : Goto(p, l) /\ UNCHANGED local
  \/ Leave(p) \/ Return(p) \/ Throw(p)

\* A control transfer changes local variables only to values of their types,
\* and only a reconciliation or an idle process is left without a scan.
LEMMA TransferTyped ==
  ASSUME HandlersTyped, \A q \in Procs : HasScan(q),
         NEW p \in Procs, cur[p] # 0, Transfer(p)
  PROVE  HandlersTyped' /\ \A q \in Procs : HasScan(q)'
<1> DEFINE Kept == HandlersTyped' /\ \A q \in Procs : HasScan(q)'
<1>1. ASSUME NEW l \in Labels \ {"idle", "next"}, Goto(p, l), UNCHANGED local PROVE Kept
  BY <1>1 DEF HandlersTyped, HasScan, Goto, local
<1>2. CASE Leave(p)
  <2>1. "idle" \in Labels
    BY DEF Labels
  <2> QED
    BY <1>2, <2>1 DEF HandlersTyped, HasScan, Leave, Goto
<1>3. CASE Return(p)
  <2>1. "next" \in Labels
    BY DEF Labels
  <2>2. CASE via[p] = "reconcile"
    BY <1>3, <2>1, <2>2 DEF Return, HandlersTyped, HasScan, Goto, local
  <2> QED
    BY <1>2, <1>3, <2>2 DEF Return
<1>4. CASE Throw(p)
  <2>1. {"scanFail", "recFail"} \subseteq Labels \ {"idle", "next"}
    BY DEF Labels
  <2> QED
    BY <1>1, <1>2, <1>4, <2>1 DEF Throw
<1> QED
  BY <1>1, <1>2, <1>3, <1>4 DEF Transfer

\* Every step of a handler under way keeps the types.
LEMMA StepTyped ==
  ASSUME TInv, NEW p \in Procs, Step(p)
  PROVE  TInv'
<1>0. RowsTyped /\ QueuesTyped /\ HandlersTyped /\ \A q \in Procs : HasScan(q)
  BY DEF TInv, TypeOK
<1>a. ASSUME RowsTyped', QueuesTyped', HandlersTyped', \A q \in Procs : HasScan(q)' PROVE TInv'
  BY <1>a DEF TInv, TypeOK
<1>1. CASE DeleteStale(p)
  <2>1. cur[p] \in Scans /\ cur[p] # 0
    BY <1>0, <1>1 DEF DeleteStale, HasScan, HandlersTyped
  <2>2. RowsTyped' /\ QueuesTyped'
    BY <1>0, <1>1, <2>1 DEF DeleteStale, RowsTyped, QueuesTyped, RawStatuses, OfflineStatuses, db, queue, obs
  <2>4. Transfer(p)
    BY <1>1 DEF DeleteStale, Transfer, Labels
  <2>5. HandlersTyped' /\ \A q \in Procs : HasScan(q)'
    BY <1>0, <2>1, <2>4, TransferTyped
  <2> QED
    BY <1>a, <2>2, <2>5
<1>2. CASE Validate(p)
  <2>1. cur[p] \in Scans /\ cur[p] # 0
    BY <1>0, <1>2 DEF Validate, HasScan, HandlersTyped
  <2>2. RowsTyped' /\ QueuesTyped'
    BY <1>0, <1>2, <2>1 DEF Validate, RowsTyped, QueuesTyped, RawStatuses, OfflineStatuses, db, queue, obs
  <2>4. Transfer(p)
    BY <1>2 DEF Validate, Transfer, Labels
  <2>5. HandlersTyped' /\ \A q \in Procs : HasScan(q)'
    BY <1>0, <2>1, <2>4, TransferTyped
  <2> QED
    BY <1>a, <2>2, <2>5
<1>3. CASE RecordInvalid(p)
  <2>1. cur[p] \in Scans /\ cur[p] # 0
    BY <1>0, <1>3 DEF RecordInvalid, HasScan, HandlersTyped
  <2>2. RowsTyped' /\ QueuesTyped'
    BY <1>0, <1>3, <2>1 DEF RecordInvalid, RowsTyped, QueuesTyped, RawStatuses, OfflineStatuses, db, queue, obs
  <2>4. Transfer(p)
    BY <1>3 DEF RecordInvalid, Transfer, Labels
  <2>5. HandlersTyped' /\ \A q \in Procs : HasScan(q)'
    BY <1>0, <2>1, <2>4, TransferTyped
  <2> QED
    BY <1>a, <2>2, <2>5
<1>4. CASE FindOffline(p)
  <2>1. cur[p] \in Scans /\ cur[p] # 0
    BY <1>0, <1>4 DEF FindOffline, HasScan, HandlersTyped
  <2>2. RowsTyped' /\ QueuesTyped'
    BY <1>0, <1>4, <2>1 DEF FindOffline, RowsTyped, QueuesTyped, RawStatuses, OfflineStatuses, db, queue, obs
  <2>4. Transfer(p)
    BY <1>4 DEF FindOffline, Transfer, Labels
  <2>5. HandlersTyped' /\ \A q \in Procs : HasScan(q)'
    BY <1>0, <2>1, <2>4, TransferTyped
  <2> QED
    BY <1>a, <2>2, <2>5
<1>5. CASE CreateOffline(p)
  <2>1. cur[p] \in Scans /\ cur[p] # 0
    BY <1>0, <1>5 DEF CreateOffline, HasScan, HandlersTyped
  <2>2. RowsTyped' /\ QueuesTyped'
    BY <1>0, <1>5, <2>1 DEF CreateOffline, RowsTyped, QueuesTyped, RawStatuses, OfflineStatuses, db, queue, obs
  <2>4. Transfer(p)
    BY <1>5 DEF CreateOffline, Transfer, Labels
  <2>5. HandlersTyped' /\ \A q \in Procs : HasScan(q)'
    BY <1>0, <2>1, <2>4, TransferTyped
  <2> QED
    BY <1>a, <2>2, <2>5
<1>6. CASE DecideResult(p)
  <2>1. cur[p] \in Scans /\ cur[p] # 0
    BY <1>0, <1>6 DEF DecideResult, HasScan, HandlersTyped
  <2>2. RowsTyped' /\ QueuesTyped'
    BY <1>0, <1>6, <2>1 DEF DecideResult, RowsTyped, QueuesTyped, RawStatuses, OfflineStatuses, db, queue, obs
  <2>4. HandlersTyped' /\ \A q \in Procs : HasScan(q)'
    BY <1>0, <1>6, <2>1 DEF DecideResult, HandlersTyped, HasScan, Labels, Goto
  <2> QED
    BY <1>a, <2>2, <2>4
<1>7. CASE CommitDecision(p)
  <2>1. cur[p] \in Scans /\ cur[p] # 0
    BY <1>0, <1>7 DEF CommitDecision, HasScan, HandlersTyped
  <2>2. RowsTyped'
    BY <1>0, <1>7, <2>1 DEF CommitDecision, RowsTyped, HandlersTyped, RawStatuses
  <2>3. QueuesTyped'
    BY <1>0, <1>7, <2>1 DEF CommitDecision, QueuesTyped, HandlersTyped, queue
  <2>4. Transfer(p)
    BY <1>7 DEF CommitDecision, Transfer, Labels
  <2>5. HandlersTyped' /\ \A q \in Procs : HasScan(q)'
    BY <1>0, <2>1, <2>4, TransferTyped
  <2> QED
    BY <1>a, <2>2, <2>5, <2>3
<1>8. CASE FastCreate(p)
  <2>1. cur[p] \in Scans /\ cur[p] # 0
    BY <1>0, <1>8 DEF FastCreate, HasScan, HandlersTyped
  <2>2. RowsTyped' /\ QueuesTyped'
    BY <1>0, <1>8, <2>1 DEF FastCreate, RowsTyped, QueuesTyped, RawStatuses, OfflineStatuses, db, queue, obs
  <2>4. Transfer(p)
    BY <1>8 DEF FastCreate, Transfer, Labels
  <2>5. HandlersTyped' /\ \A q \in Procs : HasScan(q)'
    BY <1>0, <2>1, <2>4, TransferTyped
  <2> QED
    BY <1>a, <2>2, <2>5
<1>9. CASE FastEnqueue(p)
  <2>1. cur[p] \in Scans /\ cur[p] # 0
    BY <1>0, <1>9 DEF FastEnqueue, HasScan, HandlersTyped
  <2>2. RowsTyped' /\ QueuesTyped'
    BY <1>0, <1>9, <2>1 DEF FastEnqueue, RowsTyped, QueuesTyped, RawStatuses, OfflineStatuses, db, queue, obs
  <2>4. Transfer(p)
    BY <1>9 DEF FastEnqueue, Transfer, Labels
  <2>5. HandlersTyped' /\ \A q \in Procs : HasScan(q)'
    BY <1>0, <2>1, <2>4, TransferTyped
  <2> QED
    BY <1>a, <2>2, <2>5
<1>10. CASE RecordWarning(p)
  <2>1. cur[p] \in Scans /\ cur[p] # 0
    BY <1>0, <1>10 DEF RecordWarning, HasScan, HandlersTyped
  <2>2. RowsTyped' /\ QueuesTyped'
    BY <1>0, <1>10, <2>1 DEF RecordWarning, RowsTyped, QueuesTyped, RawStatuses, OfflineStatuses, db, queue, obs
  <2>4. Transfer(p)
    BY <1>10 DEF RecordWarning, Transfer, Labels
  <2>5. HandlersTyped' /\ \A q \in Procs : HasScan(q)'
    BY <1>0, <2>1, <2>4, TransferTyped
  <2> QED
    BY <1>a, <2>2, <2>5
<1>11. CASE RecordFailure(p)
  <2>1. cur[p] \in Scans /\ cur[p] # 0
    BY <1>0, <1>11 DEF RecordFailure, HasScan, HandlersTyped
  <2>2. RowsTyped' /\ QueuesTyped'
    BY <1>0, <1>11, <2>1 DEF RecordFailure, RowsTyped, QueuesTyped, RawStatuses, OfflineStatuses, db, queue, obs
  <2>4. Transfer(p)
    BY <1>11 DEF RecordFailure, Transfer, Labels
  <2>5. HandlersTyped' /\ \A q \in Procs : HasScan(q)'
    BY <1>0, <2>1, <2>4, TransferTyped
  <2> QED
    BY <1>a, <2>2, <2>5
<1>12. CASE ReadBatch(p)
  <2>1. cur[p] \in Scans /\ cur[p] # 0
    BY <1>0, <1>12 DEF ReadBatch, HasScan, HandlersTyped
  <2>2. RowsTyped' /\ QueuesTyped'
    BY <1>0, <1>12, <2>1 DEF ReadBatch, RowsTyped, QueuesTyped, RawStatuses, OfflineStatuses, db, queue, obs
  <2>3. HasRegistration(RegOf[cur[p]]) \in BOOLEAN
    BY DEF HasRegistration
  <2>4. ASSUME Transfer(p) PROVE HandlersTyped' /\ \A q \in Procs : HasScan(q)'
    BY <1>0, <2>1, <2>4, TransferTyped
  <2>5. ASSUME NEW b \in BOOLEAN, Goto(p, "createScan"),
               linked' = [linked EXCEPT ![p] = b],
               UNCHANGED <<via, cur, saw, dec, todo, before>>
        PROVE  HandlersTyped' /\ \A q \in Procs : HasScan(q)'
    BY <1>0, <2>1, <2>5 DEF HandlersTyped, HasScan, Labels, Goto
  <2>6. HandlersTyped' /\ \A q \in Procs : HasScan(q)'
    BY <1>12, <2>3, <2>4, <2>5 DEF ReadBatch, Transfer, Labels
  <2> QED
    BY <1>a, <2>2, <2>6
<1>13. CASE MarkConflict(p)
  <2>1. cur[p] \in Scans /\ cur[p] # 0
    BY <1>0, <1>13 DEF MarkConflict, HasScan, HandlersTyped
  <2>2. RowsTyped' /\ QueuesTyped'
    BY <1>0, <1>13, <2>1 DEF MarkConflict, RowsTyped, QueuesTyped, RawStatuses, OfflineStatuses, db, queue, obs
  <2>4. Transfer(p)
    BY <1>13 DEF MarkConflict, Transfer, Labels
  <2>5. HandlersTyped' /\ \A q \in Procs : HasScan(q)'
    BY <1>0, <2>1, <2>4, TransferTyped
  <2> QED
    BY <1>a, <2>2, <2>5
<1>14. CASE Relink(p)
  <2>1. cur[p] \in Scans /\ cur[p] # 0
    BY <1>0, <1>14 DEF Relink, HasScan, HandlersTyped
  <2>2. RowsTyped' /\ QueuesTyped'
    BY <1>0, <1>14, <2>1 DEF Relink, RowsTyped, QueuesTyped, RawStatuses, OfflineStatuses, db, queue, obs
  <2>4. Transfer(p)
    BY <1>14 DEF Relink, Transfer, Labels
  <2>5. HandlersTyped' /\ \A q \in Procs : HasScan(q)'
    BY <1>0, <2>1, <2>4, TransferTyped
  <2> QED
    BY <1>a, <2>2, <2>5
<1>15. CASE CreateScan(p)
  <2>1. cur[p] \in Scans /\ cur[p] # 0
    BY <1>0, <1>15 DEF CreateScan, HasScan, HandlersTyped
  <2>2. RowsTyped' /\ QueuesTyped'
    BY <1>0, <1>15, <2>1 DEF CreateScan, RowsTyped, QueuesTyped, RawStatuses, OfflineStatuses, db, queue, obs
  <2>4. Transfer(p)
    BY <1>15 DEF CreateScan, Transfer, Labels
  <2>5. HandlersTyped' /\ \A q \in Procs : HasScan(q)'
    BY <1>0, <2>1, <2>4, TransferTyped
  <2> QED
    BY <1>a, <2>2, <2>5
<1>16. CASE Replay(p)
  <2>1. cur[p] \in Scans /\ cur[p] # 0
    BY <1>0, <1>16 DEF Replay, HasScan, HandlersTyped
  <2>2. RowsTyped' /\ QueuesTyped'
    BY <1>0, <1>16, <2>1 DEF Replay, RowsTyped, QueuesTyped, RawStatuses, OfflineStatuses, db, queue, obs
  <2>4. ASSUME Transfer(p) PROVE HandlersTyped' /\ \A q \in Procs : HasScan(q)'
    BY <1>0, <2>1, <2>4, TransferTyped
  <2>5. ASSUME ~Transfer(p) PROVE HandlersTyped' /\ \A q \in Procs : HasScan(q)'
    BY <1>0, <1>16, <2>1, <2>5 DEF Replay, Transfer, HandlersTyped, HasScan, Labels, Goto
  <2> QED
    BY <1>a, <2>2, <2>5, <2>4
<1>17. CASE LinkMovement(p)
  <2>1. cur[p] \in Scans /\ cur[p] # 0
    BY <1>0, <1>17 DEF LinkMovement, HasScan, HandlersTyped
  <2>2. RowsTyped' /\ QueuesTyped'
    BY <1>0, <1>17, <2>1 DEF LinkMovement, RowsTyped, QueuesTyped, RawStatuses, OfflineStatuses, db, queue, obs
  <2>4. Transfer(p)
    BY <1>17 DEF LinkMovement, Transfer, Labels
  <2>5. HandlersTyped' /\ \A q \in Procs : HasScan(q)'
    BY <1>0, <2>1, <2>4, TransferTyped
  <2> QED
    BY <1>a, <2>2, <2>5
<1>18. CASE FindContext(p)
  <2>1. cur[p] \in Scans /\ cur[p] # 0
    BY <1>0, <1>18 DEF FindContext, HasScan, HandlersTyped
  <2>2. RowsTyped' /\ QueuesTyped'
    BY <1>0, <1>18, <2>1 DEF FindContext, RowsTyped, QueuesTyped, RawStatuses, OfflineStatuses, db, queue, obs
  <2>4. Transfer(p)
    BY <1>18 DEF FindContext, Transfer, Labels
  <2>5. HandlersTyped' /\ \A q \in Procs : HasScan(q)'
    BY <1>0, <2>1, <2>4, TransferTyped
  <2> QED
    BY <1>a, <2>2, <2>5
<1>19. CASE MarkProcessed(p)
  <2>1. cur[p] \in Scans /\ cur[p] # 0
    BY <1>0, <1>19 DEF MarkProcessed, HasScan, HandlersTyped
  <2>2. RowsTyped' /\ QueuesTyped'
    BY <1>0, <1>19, <2>1 DEF MarkProcessed, RowsTyped, QueuesTyped, RawStatuses, OfflineStatuses, db, queue, obs
  <2>4. Transfer(p)
    BY <1>19 DEF MarkProcessed, Transfer, Labels
  <2>5. HandlersTyped' /\ \A q \in Procs : HasScan(q)'
    BY <1>0, <2>1, <2>4, TransferTyped
  <2> QED
    BY <1>a, <2>2, <2>5
<1>20. CASE NextPending(p)
  <2>1. RowsTyped' /\ QueuesTyped'
    BY <1>0, <1>20 DEF NextPending, RowsTyped, QueuesTyped, OfflineStatuses, queue, obs
  <2>2. ASSUME Leave(p) PROVE HandlersTyped' /\ \A q \in Procs : HasScan(q)'
    BY <1>0, <2>2 DEF HandlersTyped, HasScan, Leave, Goto, Labels
  <2>3. ASSUME NEW o \in todo[p], NEW b \in SUBSET Scans,
               Goto(p, "replay"), cur' = [cur EXCEPT ![p] = o],
               todo' = [todo EXCEPT ![p] = @ \ {o}], before' = [before EXCEPT ![p] = b],
               UNCHANGED <<via, saw, linked, dec>>
        PROVE  HandlersTyped' /\ \A q \in Procs : HasScan(q)'
    <3>1. o \in Scans /\ o # 0 /\ "replay" \in Labels
      BY <1>0, <2>3, SizeAssumption DEF HandlersTyped, Labels, Scans
    <3> QED
      BY <1>0, <2>3, <3>1 DEF HandlersTyped, HasScan, Goto
  <2>4. \A r : Entries(r) \in SUBSET Scans
    BY ScanAssumption DEF Entries
  <2>5. HandlersTyped' /\ \A q \in Procs : HasScan(q)'
    BY <1>20, <2>2, <2>3, <2>4 DEF NextPending
  <2> QED
    BY <1>a, <2>1, <2>5
<1>21. CASE RecordReconFailure(p)
  <2>1. cur[p] \in Scans /\ cur[p] # 0
    BY <1>0, <1>21 DEF RecordReconFailure, HasScan, HandlersTyped
  <2>2. RowsTyped' /\ QueuesTyped'
    BY <1>0, <1>21, <2>1 DEF RecordReconFailure, RowsTyped, QueuesTyped, RawStatuses, OfflineStatuses, db, queue, obs
  <2>4. HandlersTyped' /\ \A q \in Procs : HasScan(q)'
    BY <1>0, <1>21, <2>1 DEF RecordReconFailure, HandlersTyped, HasScan, Labels, Goto, local
  <2> QED
    BY <1>a, <2>2, <2>4
<1> QED
  BY <1>1, <1>2, <1>3, <1>4, <1>5, <1>6, <1>7, <1>8, <1>9, <1>10, <1>11, <1>12, <1>13, <1>14, <1>15, <1>16, <1>17, <1>18, <1>19, <1>20, <1>21 DEF Step

\* Entry points, crashes and stalled jobs keep the types.
LEMMA ArriveTyped ==
  ASSUME TInv, NEW p \in Procs, Arrive(p)
  PROVE  TInv'
<1>0. RowsTyped /\ QueuesTyped /\ HandlersTyped /\ \A q \in Procs : HasScan(q)
  BY DEF TInv, TypeOK
<1>a. ASSUME RowsTyped', QueuesTyped', HandlersTyped', \A q \in Procs : HasScan(q)' PROVE TInv'
  BY <1>a DEF TInv, TypeOK
<1>b. ASSUME NEW o \in Scans,
             NEW entry \in {"ingest", "fast", "worker", "batch"},
             NEW l \in Labels \ {"idle", "next"},
             Enter(p, entry, o, l), UNCHANGED <<linked, dec, todo>>,
             saw' \in [Procs -> {"NONE", "STALE_INVALID", "ROW"}]
      PROVE  HandlersTyped' /\ \A q \in Procs : HasScan(q)'
  <2>1. o # 0
    BY SizeAssumption DEF Scans
  <2>2. Entries(RegOf[o]) \in SUBSET Scans
    BY ScanAssumption DEF Entries
  <2> QED
    BY <1>0, <1>b, <2>1, <2>2 DEF HandlersTyped, HasScan, Enter, Goto
<1>c. saw \in [Procs -> {"NONE", "STALE_INVALID", "ROW"}]
  BY <1>0 DEF HandlersTyped
<1>1. ASSUME NEW o \in Scans, BeginIngest(p, o) PROVE TInv'
  <2>1. RowsTyped' /\ QueuesTyped'
    BY <1>0, <1>1 DEF BeginIngest, RowsTyped, QueuesTyped, db, queue
  <2>2. HandlersTyped' /\ \A q \in Procs : HasScan(q)'
    <3>1. CASE UNCHANGED <<pc, via, cur, before>>
      BY <1>0, <1>1, <3>1 DEF BeginIngest, HandlersTyped, HasScan
    <3>2. CASE Enter(p, "ingest", o, "validate") \/ Enter(p, "ingest", o, "deleteStale")
      BY <1>1, <1>b, <1>c, <3>2 DEF BeginIngest, Labels
    <3> QED
      BY <1>1, <3>1, <3>2 DEF BeginIngest
  <2> QED
    BY <1>a, <2>1, <2>2
<1>2. ASSUME NEW o \in Scans, BeginFast(p, o) PROVE TInv'
  <2>1. RowsTyped' /\ QueuesTyped'
    BY <1>0, <1>2 DEF BeginFast, RowsTyped, QueuesTyped, db, queue, obs
  <2>2. HandlersTyped' /\ \A q \in Procs : HasScan(q)'
    BY <1>2, <1>b, <1>c DEF BeginFast, Labels
  <2> QED
    BY <1>a, <2>1, <2>2
<1>3. ASSUME NEW o \in Scans, BeginBatch(p, o) PROVE TInv'
  <2>1. RowsTyped' /\ QueuesTyped'
    BY <1>0, <1>3 DEF BeginBatch, RowsTyped, QueuesTyped, queue, obs
  <2>2. HandlersTyped' /\ \A q \in Procs : HasScan(q)'
    BY <1>3, <1>b, <1>c DEF BeginBatch, Labels
  <2> QED
    BY <1>a, <2>1, <2>2
<1>4. ASSUME NEW o \in Scans, TakeScanJob(p, o) PROVE TInv'
  <2>1. RowsTyped' /\ QueuesTyped'
    BY <1>0, <1>4 DEF TakeScanJob, RowsTyped, QueuesTyped, db, obs
  <2>2. HandlersTyped' /\ \A q \in Procs : HasScan(q)'
    <3>1. CASE UNCHANGED <<pc, via, cur, before, saw>>
      BY <1>0, <1>4, <3>1 DEF TakeScanJob, HandlersTyped, HasScan
    <3>2. CASE Enter(p, "worker", o, "validate") /\ saw' = [saw EXCEPT ![p] = "ROW"]
      BY <1>4, <1>b, <1>c, <3>2 DEF TakeScanJob, Labels
    <3> QED
      BY <1>4, <3>1, <3>2 DEF TakeScanJob
  <2> QED
    BY <1>a, <2>1, <2>2
<1>5. ASSUME NEW r \in Registrations, TakeReconJob(p, r) PROVE TInv'
  <2>1. RowsTyped' /\ QueuesTyped'
    BY <1>0, <1>5 DEF TakeReconJob, RowsTyped, QueuesTyped, db, obs
  <2>2. Reconcilable(r) \in SUBSET Scans
    BY DEF Reconcilable
  <2>3. HandlersTyped' /\ \A q \in Procs : HasScan(q)'
    BY <1>0, <1>5, <2>2 DEF TakeReconJob, HandlersTyped, HasScan, Goto, Labels
  <2> QED
    BY <1>a, <2>1, <2>3
<1>6. CASE Crash(p)
  <2>1. HandlersTyped' /\ \A q \in Procs : HasScan(q)'
    BY <1>0, <1>6 DEF Crash, Leave, Goto, HandlersTyped, HasScan, Labels
  <2>2. RowsTyped'
    BY <1>0, <1>6 DEF Crash, RowsTyped, db
  <2>3. scanJobs' \subseteq Scans
    BY <1>0, <1>6 DEF Crash, HasScan, HandlersTyped, QueuesTyped
  <2>4. \A o \in todo[p] \cup ({cur[p]} \ {0}) : RegOf[o] \in Registrations
    BY <1>0, ScanAssumption DEF HandlersTyped
  <2>5. reconJobs' \subseteq Registrations
    BY <1>0, <1>6, <2>4 DEF Crash, QueuesTyped
  <2>6. QueuesTyped'
    BY <1>0, <1>6, <2>3, <2>5, SizeAssumption DEF Crash, QueuesTyped, obs
  <2> QED
    BY <1>a, <2>1, <2>2, <2>6
<1>7. CASE Stall(p)
  <2>1. HandlersTyped' /\ \A q \in Procs : HasScan(q)'
    BY <1>0, <1>7 DEF Stall, HandlersTyped, HasScan, local
  <2>2. RowsTyped'
    BY <1>0, <1>7 DEF Stall, RowsTyped, db
  <2>3. RegOf[cur[p]] \in Registrations
    BY <1>0, <1>7, ScanAssumption DEF Stall, HandlersTyped
  <2>4. QueuesTyped'
    BY <1>0, <1>7, <2>3, SizeAssumption DEF Stall, QueuesTyped, HandlersTyped, obs
  <2> QED
    BY <1>a, <2>1, <2>2, <2>4
<1> QED
  BY <1>1, <1>2, <1>3, <1>4, <1>5, <1>6, <1>7 DEF Arrive

\* Administrators, registration sync and the queue keep the types.
LEMMA EnvironmentTyped ==
  ASSUME TInv, Environment
  PROVE  TInv'
<1>0. RowsTyped /\ QueuesTyped /\ HandlersTyped /\ \A q \in Procs : HasScan(q)
  BY DEF TInv, TypeOK
<1>1. HandlersTyped' /\ \A q \in Procs : HasScan(q)'
  <2>1. UNCHANGED <<pc, local>>
    BY DEF Environment, AddReconJob, LoseReconJob, ReserveMapping, LinkMapping,
           RefuseMapping, RetireQr, SetRegistrationStatus, SetGate
  <2> QED
    BY <1>0, <2>1 DEF HandlersTyped, HasScan, local
<1>2. RowsTyped'
  BY <1>0 DEF Environment, AddReconJob, LoseReconJob, ReserveMapping, LinkMapping,
     RefuseMapping, SetMapping, RetireQr, SetRegistrationStatus, SetGate, RowsTyped, db
<1>3. QueuesTyped'
  BY <1>0, SizeAssumption DEF Environment, AddReconJob, LoseReconJob, ReserveMapping,
     LinkMapping, RefuseMapping, RetireQr, SetRegistrationStatus, SetGate, QueuesTyped,
     queue, obs
<1> QED
  BY <1>1, <1>2, <1>3 DEF TInv, TypeOK

LEMMA InitTyped ==
  ASSUME Init
  PROVE  TInv
<1>1. RowsTyped
  BY DEF Init, RowsTyped, RawStatuses, OfflineStatuses
<1>2. QueuesTyped
  BY SizeAssumption DEF Init, QueuesTyped
<1>3. HandlersTyped /\ \A p \in Procs : HasScan(p)
  BY DEF Init, HandlersTyped, HasScan, Labels
<1> QED
  BY <1>1, <1>2, <1>3 DEF TInv, TypeOK

\* Every database column, queue and local variable keeps the values it is
\* declared with, and no handler runs on without the scan it was started for.
THEOREM TypeCorrect == Spec => []TypeOK
<1>1. Init => TInv
  BY InitTyped
<1>2. TInv /\ [Next]_vars => TInv'
  <2>1. TInv /\ UNCHANGED vars => TInv'
    BY DEF TInv, TypeOK, RowsTyped, QueuesTyped, HandlersTyped, HasScan,
           vars, db, queue, local, obs
  <2> QED
    BY <2>1, StepTyped, ArriveTyped, EnvironmentTyped DEF Next
<1>3. TInv => TypeOK
  BY DEF TInv
<1> QED
  BY <1>1, <1>2, <1>3, PTL DEF Spec

-----------------------------------------------------------------------------
(* The inductive invariant.                                                *)

Recorded == /\ ProcessedAgreesWithMovement
            /\ MovementKeepsItsScan
            /\ InvalidIsDenied
            /\ ReplayedHasMovement
            /\ AdmittedHasMovement
            /\ NoLateSecondEntry

LEMMA Parts == IInv <=> TypeOK /\ Recorded /\ \A p \in Procs : HandlerKnows(p)
BY DEF IInv, Recorded

LEMMA IInvTInv == IInv => TInv
BY DEF IInv, TInv, HandlerKnows

\* No recorded movement is changed by this step.
Grows == \A o \in Scans : movement[o] # "NONE" => movement'[o] = movement[o]

\* Local variables of the processes other than p are left alone.
OthersRest(p) ==
  \A q \in Procs \ {p} : /\ pc'[q] = pc[q]
                         /\ cur'[q] = cur[q]
                         /\ dec'[q] = dec[q]
                         /\ before'[q] = before[q]

\* What a process knows of its scan stays true while others work.
LEMMA OthersKnow ==
  ASSUME TypeOK, NEW p \in Procs, \A q \in Procs : HandlerKnows(q),
         \A q \in Procs : HasScan(q)', Grows, OthersRest(p)
  PROVE  \A q \in Procs \ {p} : HandlerKnows(q)'
<1> SUFFICES ASSUME NEW q \in Procs \ {p} PROVE HandlerKnows(q)'
  OBVIOUS
<1>1. HandlerKnows(q) /\ HasScan(q)' /\ cur[q] \in Scans \cup {0}
  BY DEF TypeOK, HandlersTyped
<1>2. pc'[q] = pc[q] /\ cur'[q] = cur[q] /\ dec'[q] = dec[q] /\ before'[q] = before[q]
  BY DEF OthersRest
<1>3. pc[q] \in {"linkMovement", "markProcessed"} => movement'[cur[q]] # "NONE"
  BY <1>1 DEF HandlerKnows, HasScan, Grows
<1>4. Entries(RegOf[cur[q]]) \subseteq Entries(RegOf[cur[q]])'
  BY <1>2, ScanAssumption DEF Grows, Entries
<1> QED
  BY <1>1, <1>2, <1>3, <1>4 DEF HandlerKnows, Entries

\* Most jumps ask nothing new of the process.
PlainTransfer(p) ==
  \/ \E l \in Labels \ {"idle", "next", "linkMovement", "markProcessed", "commit"} :
       Goto(p, l) /\ UNCHANGED local
  \/ Leave(p) \/ Return(p) \/ Throw(p)

LEMMA PlainTransferKnows ==
  ASSUME TypeOK, NEW p \in Procs, \A q \in Procs : HandlerKnows(q),
         \A q \in Procs : HasScan(q)', Grows, PlainTransfer(p)
  PROVE  \A q \in Procs : HandlerKnows(q)'
<1>1. HandlersTyped /\ HandlerKnows(p) /\ HasScan(p)'
  BY DEF TypeOK
<1>2. ASSUME NEW l \in Labels \ {"linkMovement", "markProcessed", "commit"},
             Goto(p, l), UNCHANGED local
      PROVE  OthersRest(p) /\ HandlerKnows(p)'
  <2>1. Entries(RegOf[cur[p]]) \subseteq Entries(RegOf[cur[p]])'
    BY <1>2, ScanAssumption DEF Grows, Entries, local
  <2> QED
    BY <1>1, <1>2, <2>1 DEF HandlersTyped, Goto, local, OthersRest, HandlerKnows, Entries
<1>3. ASSUME Leave(p) PROVE OthersRest(p) /\ HandlerKnows(p)'
  BY <1>1, <1>3 DEF HandlersTyped, Leave, Goto, OthersRest, HandlerKnows
<1>4. {"next", "scanFail", "recFail"} \subseteq Labels \ {"linkMovement", "markProcessed", "commit"}
  BY DEF Labels
<1>5. ASSUME Return(p) PROVE OthersRest(p) /\ HandlerKnows(p)'
  BY <1>2, <1>3, <1>4, <1>5 DEF Return
<1>6. ASSUME Throw(p) PROVE OthersRest(p) /\ HandlerKnows(p)'
  BY <1>2, <1>3, <1>4, <1>6 DEF Throw
<1>7. OthersRest(p) /\ HandlerKnows(p)'
  BY <1>2, <1>3, <1>5, <1>6 DEF PlainTransfer
<1> QED
  BY <1>7, OthersKnow

\* Only CommitDecision writes MovementLog, and it never finds one recorded.
LEMMA CommitGrows ==
  ASSUME IInv, NEW p \in Procs, CommitDecision(p)
  PROVE  Grows
<1>1. cur[p] \in Scans /\ saw[p] \in {"NONE", "STALE_INVALID", "ROW"}
  BY DEF IInv, TypeOK, HandlersTyped, HandlerKnows, HasScan, CommitDecision
<1>2. CommitSucceeds(p) => movement[cur[p]] = "NONE"
  BY <1>1 DEF CommitSucceeds, IInv, MovementKeepsItsScan
<1> QED
  BY <1>1, <1>2 DEF CommitDecision, Grows, IInv, TypeOK, RowsTyped

LEMMA OtherStepsKeepMovements ==
  ASSUME NEW p \in Procs, Step(p), ~CommitDecision(p)
  PROVE  UNCHANGED <<movement, witness, admitted>>
BY DEF Step, DeleteStale, Validate, RecordInvalid, FindOffline, CreateOffline,
   DecideResult, FastCreate, FastEnqueue, RecordWarning, RecordFailure, ReadBatch,
   MarkConflict, Relink, CreateScan, Replay, LinkMovement, FindContext, MarkProcessed,
   NextPending, RecordReconFailure, db, queue, obs

LEMMA ArriveKeepsMovements ==
  ASSUME NEW p \in Procs, Arrive(p)
  PROVE  UNCHANGED <<raw, rawResult, movement, offline, witness>>
BY DEF Arrive, BeginIngest, BeginFast, BeginBatch, TakeScanJob, TakeReconJob, Crash,
   Stall, db, obs

LEMMA EnvironmentKeepsMovements ==
  ASSUME Environment
  PROVE  UNCHANGED <<raw, rawResult, movement, offline, obs, pc, local>>
BY DEF Environment, AddReconJob, LoseReconJob, ReserveMapping, LinkMapping,
   RefuseMapping, RetireQr, SetRegistrationStatus, SetGate, db

\* What was recorded stays consistent through every step under way.
LEMMA StepRecorded ==
  ASSUME IInv, NEW p \in Procs, Step(p)
  PROVE  Recorded'
<1> DEFINE Scanned == <<raw, rawResult, movement, offline, obs>>
<1>0. /\ TypeOK /\ Recorded /\ HandlerKnows(p)
      /\ RowsTyped /\ QueuesTyped /\ HandlersTyped
  BY Parts DEF TypeOK
<1>a. ASSUME UNCHANGED Scanned PROVE Recorded'
  BY <1>0, <1>a DEF Recorded, ProcessedAgreesWithMovement, MovementKeepsItsScan,
     InvalidIsDenied, ReplayedHasMovement, AdmittedHasMovement, NoLateSecondEntry, obs
<1>b. ASSUME UNCHANGED <<raw, rawResult, movement, obs>>,
             \A o \in Scans : offline'[o] = "PROCESSED" => movement[o] # "NONE"
      PROVE  Recorded'
  BY <1>0, <1>b DEF Recorded, ProcessedAgreesWithMovement, MovementKeepsItsScan,
     InvalidIsDenied, ReplayedHasMovement, AdmittedHasMovement, NoLateSecondEntry, obs
<1>c. ASSUME UNCHANGED <<movement, offline, obs>>, NEW o \in Scans,
             NEW s \in RawStatuses \ {"PROCESSED", "STALE_INVALID"},
             s = "INVALID_QR" => rawResult'[o] = "DENIED",
             s = "NONE" => movement[o] = "NONE",
             raw' = [raw EXCEPT ![o] = s],
             \A e \in Scans \ {o} : rawResult'[e] = rawResult[e]
      PROVE  Recorded'
  BY <1>0, <1>c DEF Recorded, ProcessedAgreesWithMovement, MovementKeepsItsScan,
     InvalidIsDenied, ReplayedHasMovement, AdmittedHasMovement, NoLateSecondEntry, obs,
     RowsTyped
<1>d. \A o \in Scans : offline[o] = "PROCESSED" => movement[o] # "NONE"
  BY <1>0 DEF Recorded, ReplayedHasMovement
<1>1. CASE DeleteStale(p)
  <2>1. cur[p] \in Scans
    BY <1>0, <1>1 DEF DeleteStale, HandlerKnows, HasScan, HandlersTyped
  <2>2. CASE raw' = raw /\ rawResult' = rawResult
    BY <1>1, <1>a, <2>2 DEF DeleteStale, obs
  <2>3. CASE ~(raw' = raw /\ rawResult' = rawResult)
    BY <1>0, <1>1, <1>c, <2>1, <2>3 DEF DeleteStale, RowsTyped, RawStatuses, Recorded, MovementKeepsItsScan, Deletable, obs
  <2> QED
    BY <2>2, <2>3
<1>2. CASE Validate(p)
  BY <1>2, <1>a DEF Validate, db, obs
<1>3. CASE RecordInvalid(p)
  <2>1. cur[p] \in Scans
    BY <1>0, <1>3 DEF RecordInvalid, HandlerKnows, HasScan, HandlersTyped
  <2>2. CASE raw' = raw /\ rawResult' = rawResult
    BY <1>3, <1>a, <2>2 DEF RecordInvalid, obs
  <2>3. CASE ~(raw' = raw /\ rawResult' = rawResult)
    BY <1>0, <1>3, <1>c, <2>1, <2>3 DEF RecordInvalid, RowsTyped, RawStatuses, Recorded, MovementKeepsItsScan, obs
  <2> QED
    BY <2>2, <2>3
<1>4. CASE FindOffline(p)
  BY <1>4, <1>a DEF FindOffline, db, obs
<1>5. CASE CreateOffline(p)
  <2>1. UNCHANGED <<raw, rawResult, movement, obs>>
    BY <1>5 DEF CreateOffline, obs
  <2>2. \A o \in Scans : offline'[o] = "PROCESSED" => movement[o] # "NONE"
    BY <1>0, <1>d, <1>5 DEF CreateOffline, RowsTyped, HandlerKnows
  <2> QED
    BY <1>b, <2>1, <2>2
<1>6. CASE DecideResult(p)
  BY <1>6, <1>a DEF DecideResult, db, obs
<1>7. CASE CommitDecision(p)
  <2>1. /\ cur[p] \in Scans
        /\ dec[p] \in {"ALLOWED", "DENIED"}
        /\ Grows
    BY <1>0, <1>7, CommitGrows DEF CommitDecision, HandlerKnows, HasScan, HandlersTyped
  <2>2. CASE UNCHANGED <<raw, rawResult, movement, witness, admitted>>
    BY <1>7, <1>a, <2>2 DEF CommitDecision, obs
  <2>3. ASSUME raw' = [raw EXCEPT ![cur[p]] = "PROCESSED"],
               rawResult' = [rawResult EXCEPT ![cur[p]] = dec[p]],
               movement' = [movement EXCEPT ![cur[p]] = dec[p]],
               witness' = [witness EXCEPT ![cur[p]] = before[p]],
               \/ admitted' = admitted
               \/ dec[p] = "ALLOWED" /\ admitted' = admitted \cup {cur[p]}
        PROVE  Recorded'
    <3>1. ProcessedAgreesWithMovement' /\ MovementKeepsItsScan' /\ InvalidIsDenied'
      BY <1>0, <2>1, <2>3 DEF Recorded, ProcessedAgreesWithMovement, MovementKeepsItsScan,
         InvalidIsDenied, RowsTyped
    <3>2. ReplayedHasMovement'
      BY <1>0, <1>d, <1>7, <2>1, <2>3 DEF CommitDecision, ReplayedHasMovement, RowsTyped
    <3>3. AdmittedHasMovement'
      BY <1>0, <2>1, <2>3 DEF Recorded, AdmittedHasMovement, RowsTyped, QueuesTyped, Grows
    <3>4. NoLateSecondEntry'
      BY <1>0, <1>7, <2>1, <2>3, ScanAssumption DEF CommitDecision, Recorded,
         NoLateSecondEntry, RowsTyped, QueuesTyped, HandlerKnows
    <3> QED
      BY <3>1, <3>2, <3>3, <3>4 DEF Recorded
  <2> QED
    BY <1>7, <2>2, <2>3 DEF CommitDecision
<1>8. CASE FastCreate(p)
  <2>1. cur[p] \in Scans
    BY <1>0, <1>8 DEF FastCreate, HandlerKnows, HasScan, HandlersTyped
  <2>2. CASE raw' = raw /\ rawResult' = rawResult
    BY <1>8, <1>a, <2>2 DEF FastCreate, obs
  <2>3. CASE ~(raw' = raw /\ rawResult' = rawResult)
    BY <1>0, <1>8, <1>c, <2>1, <2>3 DEF FastCreate, RowsTyped, RawStatuses, Recorded, MovementKeepsItsScan, obs
  <2> QED
    BY <2>2, <2>3
<1>9. CASE FastEnqueue(p)
  BY <1>9, <1>a DEF FastEnqueue, db, obs
<1>10. CASE RecordWarning(p)
  <2>1. cur[p] \in Scans
    BY <1>0, <1>10 DEF RecordWarning, HandlerKnows, HasScan, HandlersTyped
  <2>2. CASE raw' = raw /\ rawResult' = rawResult
    BY <1>10, <1>a, <2>2 DEF RecordWarning, obs
  <2>3. CASE ~(raw' = raw /\ rawResult' = rawResult)
    BY <1>0, <1>10, <1>c, <2>1, <2>3 DEF RecordWarning, RowsTyped, RawStatuses, Recorded, MovementKeepsItsScan, obs
  <2> QED
    BY <2>2, <2>3
<1>11. CASE RecordFailure(p)
  <2>1. cur[p] \in Scans
    BY <1>0, <1>11 DEF RecordFailure, HandlerKnows, HasScan, HandlersTyped
  <2>2. CASE raw' = raw /\ rawResult' = rawResult
    BY <1>11, <1>a, <2>2 DEF RecordFailure, obs
  <2>3. CASE ~(raw' = raw /\ rawResult' = rawResult)
    BY <1>0, <1>11, <1>c, <2>1, <2>3 DEF RecordFailure, RowsTyped, RawStatuses, Recorded, MovementKeepsItsScan, obs
  <2> QED
    BY <2>2, <2>3
<1>12. CASE ReadBatch(p)
  BY <1>12, <1>a DEF ReadBatch, db, obs
<1>13. CASE MarkConflict(p)
  <2>1. UNCHANGED <<raw, rawResult, movement, obs>>
    BY <1>13 DEF MarkConflict, obs
  <2>2. \A o \in Scans : offline'[o] = "PROCESSED" => movement[o] # "NONE"
    BY <1>0, <1>d, <1>13 DEF MarkConflict, RowsTyped, HandlerKnows
  <2> QED
    BY <1>b, <2>1, <2>2
<1>14. CASE Relink(p)
  <2>1. UNCHANGED <<raw, rawResult, movement, obs>>
    BY <1>14 DEF Relink, obs
  <2>2. \A o \in Scans : offline'[o] = "PROCESSED" => movement[o] # "NONE"
    BY <1>0, <1>d, <1>14 DEF Relink, RowsTyped, HandlerKnows
  <2> QED
    BY <1>b, <2>1, <2>2
<1>15. CASE CreateScan(p)
  <2>1. UNCHANGED <<raw, rawResult, movement, obs>>
    BY <1>15 DEF CreateScan, obs
  <2>2. \A o \in Scans : offline'[o] = "PROCESSED" => movement[o] # "NONE"
    BY <1>0, <1>d, <1>15 DEF CreateScan, RowsTyped, HandlerKnows
  <2> QED
    BY <1>b, <2>1, <2>2
<1>16. CASE Replay(p)
  BY <1>16, <1>a DEF Replay, db, obs
<1>17. CASE LinkMovement(p)
  <2>1. UNCHANGED <<raw, rawResult, movement, obs>>
    BY <1>17 DEF LinkMovement, obs
  <2>2. \A o \in Scans : offline'[o] = "PROCESSED" => movement[o] # "NONE"
    BY <1>0, <1>d, <1>17 DEF LinkMovement, RowsTyped, HandlerKnows
  <2> QED
    BY <1>b, <2>1, <2>2
<1>18. CASE FindContext(p)
  BY <1>18, <1>a DEF FindContext, db, obs
<1>19. CASE MarkProcessed(p)
  <2>1. UNCHANGED <<raw, rawResult, movement, obs>>
    BY <1>19 DEF MarkProcessed, obs
  <2>2. \A o \in Scans : offline'[o] = "PROCESSED" => movement[o] # "NONE"
    BY <1>0, <1>d, <1>19 DEF MarkProcessed, RowsTyped, HandlerKnows
  <2> QED
    BY <1>b, <2>1, <2>2
<1>20. CASE NextPending(p)
  <2>1. UNCHANGED <<raw, rawResult, movement, obs>>
    BY <1>20 DEF NextPending, obs
  <2>2. \A o \in Scans : offline'[o] = "PROCESSED" => movement[o] # "NONE"
    BY <1>0, <1>d, <1>20 DEF NextPending, RowsTyped, HandlerKnows
  <2> QED
    BY <1>b, <2>1, <2>2
<1>21. CASE RecordReconFailure(p)
  <2>1. UNCHANGED <<raw, rawResult, movement, obs>>
    BY <1>21 DEF RecordReconFailure, obs
  <2>2. \A o \in Scans : offline'[o] = "PROCESSED" => movement[o] # "NONE"
    BY <1>0, <1>d, <1>21 DEF RecordReconFailure, RowsTyped, HandlerKnows
  <2> QED
    BY <1>b, <2>1, <2>2
<1> QED
  BY <1>1, <1>2, <1>3, <1>4, <1>5, <1>6, <1>7, <1>8, <1>9, <1>10, <1>11, <1>12, <1>13, <1>14, <1>15, <1>16, <1>17, <1>18, <1>19, <1>20, <1>21 DEF Step

\* What a process knows stays true through every step under way.
LEMMA StepKnows ==
  ASSUME IInv, NEW p \in Procs, Step(p), TInv', Grows
  PROVE  \A q \in Procs : HandlerKnows(q)'
<1>0. /\ TypeOK /\ HandlersTyped /\ HandlerKnows(p)
      /\ \A q \in Procs : HandlerKnows(q)
      /\ \A q \in Procs : HasScan(q)'
  BY Parts DEF TypeOK, TInv
<1>a. ASSUME PlainTransfer(p) PROVE \A q \in Procs : HandlerKnows(q)'
  BY <1>0, <1>a, PlainTransferKnows
<1>b. ASSUME OthersRest(p), HandlerKnows(p)' PROVE \A q \in Procs : HandlerKnows(q)'
  BY <1>0, <1>b, OthersKnow
<1>1. CASE DeleteStale(p) \/ Validate(p) \/ RecordInvalid(p) \/ FindOffline(p)
            \/ CreateOffline(p) \/ FastCreate(p) \/ FastEnqueue(p)
            \/ RecordWarning(p) \/ RecordFailure(p) \/ MarkConflict(p)
            \/ Relink(p) \/ CreateScan(p) \/ LinkMovement(p) \/ MarkProcessed(p)
  <2>1. PlainTransfer(p)
    BY <1>1 DEF PlainTransfer, Labels, DeleteStale, Validate, RecordInvalid, FindOffline,
       CreateOffline, FastCreate, FastEnqueue, RecordWarning, RecordFailure, MarkConflict,
       Relink, CreateScan, LinkMovement, MarkProcessed
  <2> QED
    BY <1>a, <2>1
<1>2. CASE DecideResult(p)
  <2>1. OthersRest(p)
    BY <1>0, <1>2 DEF DecideResult, HandlersTyped, Goto, OthersRest
  <2>2. UNCHANGED <<cur, before, movement>> /\ pc'[p] = "commit" /\ cur[p] # 0
    BY <1>0, <1>2 DEF DecideResult, HandlersTyped, Goto, HandlerKnows, HasScan, db
  <2>3. dec'[p] = "ALLOWED" => MayEnter(p)
    BY <1>0, <1>2 DEF DecideResult, HandlersTyped
  <2>4. before[p] \subseteq Entries(RegOf[cur[p]])
    BY <1>0, <2>2 DEF HandlerKnows
  <2> QED
    BY <1>0, <1>b, <2>1, <2>2, <2>3, <2>4 DEF HandlerKnows, MayEnter, Entries
<1>3. CASE CommitDecision(p)
  <2>1. CASE PlainTransfer(p)
    BY <1>a, <2>1
  <2>2. CASE Goto(p, "markProcessed") /\ UNCHANGED local /\ CommitSucceeds(p)
    <3>1. OthersRest(p)
      BY <1>0, <2>2 DEF HandlersTyped, Goto, OthersRest, local
    <3>2. cur[p] \in Scans /\ dec[p] # "NONE"
      BY <1>0, <1>3 DEF CommitDecision, HandlerKnows, HasScan, HandlersTyped
    <3>3. movement'[cur[p]] # "NONE"
      BY <1>0, <1>3, <2>2, <3>2 DEF CommitDecision, TypeOK, RowsTyped
    <3>4. pc'[p] = "markProcessed" /\ cur' = cur /\ before' = before
      BY <1>0, <2>2 DEF HandlersTyped, Goto, local
    <3>5. before[p] \subseteq Entries(RegOf[cur[p]])'
      <4>1. cur[p] # 0
        BY <3>2, SizeAssumption DEF Scans
      <4>2. before[p] \subseteq Entries(RegOf[cur[p]])
        BY <1>0, <4>1 DEF HandlerKnows
      <4> QED
        BY <3>4, <4>2, ScanAssumption DEF Entries, Grows
    <3> QED
      BY <1>0, <1>b, <3>1, <3>3, <3>4, <3>5 DEF HandlerKnows
  <2> QED
    BY <1>3, <2>1, <2>2 DEF CommitDecision, PlainTransfer
<1>4. CASE ReadBatch(p)
  <2>1. CASE PlainTransfer(p)
    BY <1>a, <2>1
  <2>2. CASE Goto(p, "createScan") /\ UNCHANGED <<via, cur, saw, dec, todo, before>>
    <3>1. OthersRest(p) /\ pc'[p] = "createScan"
      BY <1>0, <2>2 DEF HandlersTyped, Goto, OthersRest
    <3>2. movement' = movement
      BY <1>4 DEF ReadBatch, db
    <3> QED
      BY <1>0, <1>b, <2>2, <3>1, <3>2 DEF HandlerKnows, Entries
  <2> QED
    BY <1>4, <2>1, <2>2 DEF ReadBatch, PlainTransfer, Labels
<1>5. CASE Replay(p)
  <2>0. movement' = movement
    BY <1>5 DEF Replay, db
  <2>1. CASE PlainTransfer(p)
    BY <1>a, <2>1
  <2>2. CASE Goto(p, "context") /\ UNCHANGED <<via, cur, linked, dec, todo, before>>
    <3>1. OthersRest(p) /\ pc'[p] = "context"
      BY <1>0, <2>2 DEF HandlersTyped, Goto, OthersRest
    <3> QED
      BY <1>0, <1>b, <2>0, <2>2, <3>1 DEF HandlerKnows, Entries
  <2>3. CASE Goto(p, "linkMovement") /\ UNCHANGED local /\ movement[cur[p]] # "NONE"
    <3>1. OthersRest(p) /\ pc'[p] = "linkMovement"
      BY <1>0, <2>3 DEF HandlersTyped, Goto, OthersRest, local
    <3> QED
      BY <1>0, <1>b, <2>0, <2>3, <3>1 DEF HandlerKnows, Entries, local
  <2> QED
    BY <1>5, <2>1, <2>2, <2>3 DEF Replay, PlainTransfer
<1>6. CASE FindContext(p)
  <2>1. PlainTransfer(p)
    BY <1>6 DEF FindContext, PlainTransfer, Labels
  <2> QED
    BY <1>a, <2>1
<1>7. CASE NextPending(p)
  <2>1. CASE PlainTransfer(p)
    BY <1>a, <2>1
  <2>2. ASSUME NEW o \in Scans, Goto(p, "replay"), cur' = [cur EXCEPT ![p] = o],
               before' = [before EXCEPT ![p] = Entries(RegOf[o])], dec' = dec,
               movement' = movement
        PROVE  \A q \in Procs : HandlerKnows(q)'
    <3>1. OthersRest(p) /\ pc'[p] = "replay" /\ cur'[p] = o
                        /\ before'[p] = Entries(RegOf[o])
      BY <1>0, <2>2 DEF HandlersTyped, Goto, OthersRest
    <3> QED
      BY <1>0, <1>b, <2>2, <3>1 DEF HandlerKnows, Entries
  <2>3. todo[p] \subseteq Scans
    BY <1>0 DEF HandlersTyped
  <2> QED
    BY <1>7, <2>1, <2>2, <2>3 DEF NextPending, PlainTransfer
<1>8. CASE RecordReconFailure(p)
  <2>1. OthersRest(p) /\ pc'[p] = "next" /\ UNCHANGED <<cur, before, movement>>
    BY <1>0, <1>8 DEF RecordReconFailure, HandlersTyped, Goto, OthersRest, local
  <2> QED
    BY <1>0, <1>b, <2>1 DEF HandlerKnows, Entries
<1> QED
  BY <1>1, <1>2, <1>3, <1>4, <1>5, <1>6, <1>7, <1>8 DEF Step

\* Entry points only echo a recorded ALLOWED, and remember the entries there are.
LEMMA ArriveKeeps ==
  ASSUME IInv, NEW p \in Procs, Arrive(p), TInv'
  PROVE  Recorded' /\ \A q \in Procs : HandlerKnows(q)'
<1>0. /\ TypeOK /\ HandlersTyped /\ RowsTyped /\ Recorded
      /\ \A q \in Procs : HandlerKnows(q)
      /\ \A q \in Procs : HasScan(q)'
  BY Parts DEF TypeOK, TInv
<1>1. UNCHANGED <<raw, rawResult, movement, offline, witness>> /\ Grows
  BY ArriveKeepsMovements DEF Grows
<1>2. Recorded'
  <2>1. \A o \in admitted' : o \in admitted \/ movement[o] = "ALLOWED"
    <3>1. ASSUME NEW o \in Scans, BeginIngest(p, o)
          PROVE  \A e \in admitted' : e \in admitted \/ movement[e] = "ALLOWED"
      BY <1>0, <3>1 DEF BeginIngest, Recorded, ProcessedAgreesWithMovement, InvalidIsDenied
    <3>2. CASE ~\E o \in Scans : BeginIngest(p, o)
      BY <3>2 DEF Arrive, BeginFast, BeginBatch, TakeScanJob, TakeReconJob, Crash, Stall, obs
    <3> QED
      BY <3>1, <3>2
  <2> QED
    BY <1>0, <1>1, <2>1 DEF Recorded, ProcessedAgreesWithMovement, MovementKeepsItsScan,
       InvalidIsDenied, ReplayedHasMovement, AdmittedHasMovement, NoLateSecondEntry
<1>3. ASSUME OthersRest(p), HandlerKnows(p)' PROVE \A q \in Procs : HandlerKnows(q)'
  BY <1>0, <1>1, <1>3, OthersKnow
<1>4. ASSUME UNCHANGED <<pc, cur, dec, before>> PROVE \A q \in Procs : HandlerKnows(q)'
  BY <1>0, <1>1, <1>4 DEF HandlerKnows, HasScan, Entries
<1>5. ASSUME NEW o \in Scans, NEW entry, NEW l \in {"validate", "deleteStale", "fastCreate", "readBatch"},
             Enter(p, entry, o, l), dec' = dec
      PROVE  \A q \in Procs : HandlerKnows(q)'
  <2>1. OthersRest(p) /\ pc'[p] = l /\ cur'[p] = o /\ before'[p] = Entries(RegOf[o])
    BY <1>0, <1>5 DEF HandlersTyped, Enter, Goto, OthersRest
  <2> QED
    BY <1>0, <1>1, <1>3, <2>1 DEF HandlerKnows, Entries
<1>6. CASE Crash(p)
  <2>1. PlainTransfer(p)
    BY <1>6 DEF Crash, PlainTransfer
  <2> QED
    BY <1>0, <1>1, <1>2, <2>1, PlainTransferKnows
<1>7. ASSUME NEW r \in Registrations, TakeReconJob(p, r)
      PROVE  \A q \in Procs : HandlerKnows(q)'
  <2>1. OthersRest(p) /\ pc'[p] = "next" /\ UNCHANGED <<cur, before, movement>>
    BY <1>0, <1>1, <1>7 DEF TakeReconJob, HandlersTyped, Goto, OthersRest
  <2> QED
    BY <1>0, <1>3, <2>1 DEF HandlerKnows, Entries
<1>8. CASE Stall(p)
  BY <1>2, <1>4, <1>8 DEF Stall, local
<1>9. CASE \E o \in Scans : BeginIngest(p, o)
  BY <1>2, <1>4, <1>5, <1>9 DEF BeginIngest
<1>10. CASE \E o \in Scans : BeginFast(p, o) \/ BeginBatch(p, o)
  BY <1>2, <1>5, <1>10 DEF BeginFast, BeginBatch
<1>11. CASE \E o \in Scans : TakeScanJob(p, o)
  BY <1>2, <1>4, <1>5, <1>11 DEF TakeScanJob
<1> QED
  BY <1>2, <1>6, <1>7, <1>8, <1>9, <1>10, <1>11 DEF Arrive

LEMMA NextGrows ==
  ASSUME IInv, [Next]_vars
  PROVE  Grows
<1>1. CASE UNCHANGED vars
  BY <1>1 DEF vars, db, Grows
<1>2. ASSUME NEW p \in Procs, Step(p) PROVE Grows
  BY <1>2, CommitGrows, OtherStepsKeepMovements DEF Grows
<1>3. ASSUME NEW p \in Procs, Arrive(p) PROVE Grows
  BY <1>3, ArriveKeepsMovements DEF Grows
<1>4. CASE Environment
  BY <1>4, EnvironmentKeepsMovements DEF Grows
<1> QED
  BY <1>1, <1>2, <1>3, <1>4 DEF Next

\* The whole of what the scan log promises is inductive, together with what
\* each handler knows between two of its database calls.
THEOREM Inductive == Spec => []IInv
<1>1. Init => IInv
  <2> SUFFICES ASSUME Init PROVE IInv
    OBVIOUS
  <2>1. TypeOK
    BY InitTyped DEF TInv
  <2>2. Recorded
    <3>1. admitted = {} /\ \A o \in Scans : /\ raw[o] \in {"NONE", "STALE_INVALID"}
                                           /\ movement[o] = "NONE"
                                           /\ offline[o] = "NONE"
      BY DEF Init
    <3> QED
      BY <3>1, ScanAssumption DEF Recorded, ProcessedAgreesWithMovement,
         MovementKeepsItsScan, InvalidIsDenied, ReplayedHasMovement, AdmittedHasMovement,
         NoLateSecondEntry
  <2>3. \A p \in Procs : HandlerKnows(p)
    BY DEF Init, HandlerKnows, HasScan
  <2> QED
    BY <2>1, <2>2, <2>3, Parts
<1>2. IInv /\ [Next]_vars => IInv'
  <2> SUFFICES ASSUME IInv, [Next]_vars PROVE IInv'
    OBVIOUS
  <2>0. TInv /\ Grows /\ TypeOK /\ Recorded /\ \A p \in Procs : HandlerKnows(p)
    BY IInvTInv, NextGrows, Parts
  <2>a. ASSUME TInv', Recorded', \A p \in Procs : HandlerKnows(p)' PROVE IInv'
    BY <2>a DEF TInv, IInv, Recorded
  <2>1. CASE UNCHANGED vars
    <3>1. TypeOK'
      BY <2>0, <2>1 DEF TypeOK, RowsTyped, QueuesTyped, HandlersTyped, vars, db, queue,
         local, obs
    <3>2. Recorded'
      BY <2>0, <2>1 DEF Recorded, ProcessedAgreesWithMovement, MovementKeepsItsScan,
         InvalidIsDenied, ReplayedHasMovement, AdmittedHasMovement, NoLateSecondEntry,
         vars, db, obs
    <3>3. \A p \in Procs : HandlerKnows(p)'
      BY <2>0, <2>1 DEF HandlerKnows, HasScan, Entries, vars, db, local
    <3> QED
      BY <3>1, <3>2, <3>3 DEF IInv, Recorded
  <2>2. ASSUME NEW p \in Procs, Step(p) PROVE IInv'
    BY <2>0, <2>2, <2>a, StepTyped, StepRecorded, StepKnows
  <2>3. ASSUME NEW p \in Procs, Arrive(p) PROVE IInv'
    BY <2>0, <2>3, <2>a, ArriveTyped, ArriveKeeps
  <2>4. CASE Environment
    <3>1. UNCHANGED <<raw, rawResult, movement, offline, obs, pc, local>>
      BY <2>4, EnvironmentKeepsMovements
    <3>2. Recorded'
      BY <2>0, <3>1 DEF Recorded, ProcessedAgreesWithMovement, MovementKeepsItsScan,
         InvalidIsDenied, ReplayedHasMovement, AdmittedHasMovement, NoLateSecondEntry, obs
    <3>3. \A p \in Procs : HandlerKnows(p)'
      BY <2>0, <3>1 DEF HandlerKnows, HasScan, Entries, local
    <3>4. TInv'
      BY <2>0, <2>4, EnvironmentTyped
    <3> QED
      BY <2>a, <3>2, <3>3, <3>4
  <2> QED
    BY <2>1, <2>2, <2>3, <2>4 DEF Next
<1> QED
  BY <1>1, <1>2, PTL DEF Spec

-----------------------------------------------------------------------------
(* What follows.                                                           *)

\* The gate is told a final allowed:true only of scans logged ALLOWED, by the
\* first answer of ingest and by every later duplicate answer.
THEOREM OnlyAdmittedIfLogged == Spec => []AdmittedHasMovement
BY Inductive, PTL DEF IInv

\* Without re-entry, an attempt that began after an entry was recorded is
\* never ALLOWED, whichever path decides it.
THEOREM LateEntryDenied == Spec => []NoLateSecondEntry
BY Inductive, PTL DEF IInv

\* An offline scan reported PROCESSED has its movement in the log.
THEOREM ReplayIsLogged == Spec => []ReplayedHasMovement
BY Inductive, PTL DEF IInv

\* A row of ScanEventRaw that says PROCESSED agrees with its movement.
THEOREM RowAgrees == Spec => []ProcessedAgreesWithMovement
BY Inductive, PTL DEF IInv

\* The stale row ingest deletes never carries a movement.
THEOREM ScanKept == Spec => []MovementKeepsItsScan
BY Inductive, PTL DEF IInv

\* A recorded movement is never rewritten, by any retry or redelivery.
THEOREM MovementsFinal == Spec => MovementIsFinal
<1>1. IInv /\ [Next]_vars
        => [\A o \in Scans : movement[o] # "NONE" => movement'[o] = movement[o]]_vars
  BY NextGrows DEF Grows
<1> QED
  BY <1>1, Inductive, PTL DEF Spec, MovementIsFinal

-----------------------------------------------------------------------------
(* ScanIngest implements ScanLedger.                                       *)

\* Recording a decision is deciding the scan, on what was known of its attendee.
LEMMA CommitDecides ==
  ASSUME IInv, NEW p \in Procs, CommitDecision(p)
  PROVE  [Ledger!Next]_(Ledger!vars)
<1> DEFINE o == cur[p]
<1>1. /\ HandlersTyped /\ HandlerKnows(p) /\ RowsTyped
      /\ o \in Scans /\ o # 0 /\ dec[p] \in {"ALLOWED", "DENIED"}
      /\ before[p] \in SUBSET Scans /\ saw[p] \in {"NONE", "STALE_INVALID", "ROW"}
  BY SizeAssumption DEF IInv, TypeOK, HandlersTyped, HandlerKnows, HasScan,
     CommitDecision, Scans
<1>2. CASE UNCHANGED <<movement, witness, admitted>>
  BY <1>2 DEF Ledger!vars
<1>3. CASE /\ CommitSucceeds(p)
           /\ movement' = [movement EXCEPT ![o] = dec[p]]
           /\ witness' = [witness EXCEPT ![o] = before[p]]
           /\ \/ admitted' = admitted
              \/ dec[p] = "ALLOWED" /\ admitted' = admitted \cup {o}
  <2>1. movement[o] = "NONE"
    BY <1>1, <1>3 DEF CommitSucceeds, IInv, MovementKeepsItsScan
  <2>2. before[p] \subseteq Ledger!Recorded(o)
    BY <1>1 DEF HandlerKnows, Entries, Ledger!Recorded
  <2>3. (dec[p] = "ALLOWED" /\ o \in EntryScans /\ ~AllowReEntry) => before[p] = {}
    BY <1>1 DEF HandlerKnows, CommitDecision
  <2>4. Ledger!Decide(o, dec[p], before[p])
    BY <1>3, <2>1, <2>2, <2>3 DEF Ledger!Decide
  <2> QED
    BY <1>1, <2>4 DEF Ledger!Next
<1> QED
  BY <1>2, <1>3 DEF CommitDecision

\* Entry points answer only scans already logged ALLOWED.
LEMMA ArriveAnswers ==
  ASSUME IInv, NEW p \in Procs, Arrive(p)
  PROVE  [Ledger!Next]_(Ledger!vars)
<1>1. UNCHANGED <<movement, witness>>
  BY ArriveKeepsMovements
<1>2. ASSUME NEW o \in Scans, BeginIngest(p, o) PROVE [Ledger!Next]_(Ledger!vars)
  <2>1. CASE admitted' = admitted
    BY <1>1, <2>1 DEF Ledger!vars
  <2>2. CASE raw[o] \in {"PROCESSED", "INVALID_QR"} /\ rawResult[o] = "ALLOWED"
              /\ admitted' = admitted \cup {o}
    <3>1. movement[o] = "ALLOWED"
      BY <2>2 DEF IInv, ProcessedAgreesWithMovement, InvalidIsDenied
    <3> QED
      BY <1>1, <2>2, <3>1 DEF Ledger!Next, Ledger!Answer
  <2> QED
    BY <1>2, <2>1, <2>2 DEF BeginIngest
<1>3. CASE ~\E o \in Scans : BeginIngest(p, o)
  BY <1>1, <1>3 DEF Arrive, BeginFast, BeginBatch, TakeScanJob, TakeReconJob, Crash,
     Stall, obs, Ledger!vars
<1> QED
  BY <1>2, <1>3

\* Whatever the number of scans, attendees, requests and workers, the scan
\* log behaves as ScanLedger promises.
THEOREM LedgerImplemented == Spec => ImplementsLedger
<1>1. Init => Ledger!Init
  BY DEF Init, Ledger!Init
<1>2. IInv /\ [Next]_vars => [Ledger!Next]_(Ledger!vars)
  <2> SUFFICES ASSUME IInv, [Next]_vars PROVE [Ledger!Next]_(Ledger!vars)
    OBVIOUS
  <2>1. CASE UNCHANGED vars
    BY <2>1 DEF vars, db, obs, Ledger!vars
  <2>2. ASSUME NEW p \in Procs, Step(p) PROVE [Ledger!Next]_(Ledger!vars)
    BY <2>2, CommitDecides, OtherStepsKeepMovements DEF Ledger!vars
  <2>3. ASSUME NEW p \in Procs, Arrive(p) PROVE [Ledger!Next]_(Ledger!vars)
    BY <2>3, ArriveAnswers
  <2>4. CASE Environment
    BY <2>4, EnvironmentKeepsMovements DEF obs, Ledger!vars
  <2> QED
    BY <2>1, <2>2, <2>3, <2>4 DEF Next
<1> QED
  BY <1>1, <1>2, Inductive, PTL DEF Spec, ImplementsLedger, Ledger!Spec
=============================================================================
