--------------------------- MODULE StorageCleanup ---------------------------
(***************************************************************************)
(* StorageCleanupService and EventsService.remove, run beside the requests *)
(* of UploadFiles and TicketFiles: the list of an event's files is made    *)
(* before its rows are deleted, and the files are deleted by a queued job  *)
(* after that.                                                             *)
(***************************************************************************)
EXTENDS TicketFiles

vars == <<event, owner, images, disk, req, history, faults, ticketVars>>
unmoved == <<event, owner, images, disk, named, lost, faults, ticketVars>>

\* findEventOwnedFiles.  The paths it lists for the QR images of registrations
\* are not those QrImageService writes to, so they never name a file.
EventFiles ==
  {owner[w].image : w \in {v \in Owners : owner[v].present /\ owner[v].image # None}}
    \cup {i.path : i \in images}

CleanupReq(kind, step, files) ==
  [NewReq EXCEPT !.kind = kind, !.at = step, !.on = Owners \cup Regs, !.old = files]

\* EventsService.remove: the list of files, then one transaction for the rows.
RemoveEvent(o) ==
  /\ event
  /\ Start(o, CleanupReq("event", "removeRows", EventFiles))
  /\ UNCHANGED <<unmoved, swept>>

RemoveRows(o) ==
  /\ req[o].at = "removeRows"
  /\ \/ /\ event
        /\ event' = FALSE
        /\ owner' = [w \in Owners |-> Gone]
        /\ images' = {}
        /\ status' = [r \in Regs |-> IF status[r] = "none" THEN "none" ELSE "removed"]
        /\ Goto(o, "enqueue")
     \/ /\ ~event
        /\ Done(o) /\ UNCHANGED <<event, owner, images, status>>
  /\ UNCHANGED <<disk, history, faults, pipeline, job>>

\* cleanupFiles deletes the files of an event that goes on.
CleanupFiles(o) ==
  /\ event
  /\ Start(o, CleanupReq("event", "enqueue", EventFiles))
  /\ swept' = swept \cup EventFiles
  /\ UNCHANGED unmoved

\* scanQrFiles lists the QR images; findExistingQrFiles looks for registrations
\* whose public id is the name of a file, which none is: all are orphans.
QrFiles == disk \cap Regs
Orphans == QrFiles

\* enqueueStorageCleanup with what previewStorageCleanup finds for QR_ORPHANS.
CleanupOrphans(o) ==
  /\ Start(o, CleanupReq("orphans", "enqueue", Orphans))
  /\ UNCHANGED <<unmoved, swept>>

\* A job, or at once when cleanup is disabled or the queue refuses the files of
\* an event; orphans are given up then.
Enqueue(o) ==
  /\ req[o].at = "enqueue"
  /\ \/ Goto(o, "queued") /\ UNCHANGED faults
     \/ Goto(o, "delete") /\ UNCHANGED faults
     \/ /\ faults < MaxFaults /\ faults' = faults + 1
        /\ IF req[o].kind = "orphans" THEN Done(o) ELSE Goto(o, "delete")
  /\ UNCHANGED <<event, owner, images, disk, history, ticketVars>>

\* runCleanupJob, in a worker.
RunCleanupJob(o) == req[o].at = "queued" /\ Unlink(o) /\ UNCHANGED ticketVars

-----------------------------------------------------------------------------
Init == InitTickets

Begin(o) ==
  \/ (UploadBranding(o) \/ UploadTemplate(o) \/ Patch(o) \/ Remove(o)) /\ UNCHANGED ticketVars
  \/ Register(o) \/ Request(o) \/ TakeJob(o)
  \/ RemoveEvent(o) \/ CleanupFiles(o) \/ CleanupOrphans(o)

Next ==
  \/ \E o \in Ops :
       \/ Begin(o)
       \/ RunUpload(o) /\ UNCHANGED ticketVars
       \/ RunTicket(o) \/ CrashTicket(o)
       \/ RemoveRows(o) \/ Enqueue(o) \/ RunCleanupJob(o)
  \/ \E r \in Regs : RunPipeline(r) \/ Poll(r) \/ Withdraw(r)

Spec == Init /\ [][Next]_vars

-----------------------------------------------------------------------------
(* Properties.                                                             *)

RowFiles == EventFiles

\* The file a row names is on the disk, however uploads, replacements, removals,
\* ticket generations and the removal of the event overlap, and whichever of
\* them die.  Only a cleanup of the living event deletes it, and a JSON request
\* that named it: the controllers delete what a failing body names, and an
\* update may bring back a name that was replaced meanwhile.
NamedFilesExist == RowFiles \subseteq disk \cup swept \cup named

Held(f) == \E o \in Ops :
  req[o].at \notin {"unborn", "done"} /\ f \in req[o].old \cup {req[o].file}

\* No file is left behind: one on the disk is named by a row, or a request or
\* job still has it in hand.  What is left behind was stored by a body refused
\* in parsing, by a request that died or overlapped another on the same row, or
\* for a registration that was removed; or it could not be deleted.
StraysAreExplained ==
  \A f \in disk \cap (Ops \cup Owners) : f \in RowFiles \/ Held(f) \/ f \in lost \cup met

\* A ticket that will be used again shows its template as it is now: reuse goes
\* by the template's id and version, while the template may have been changed,
\* deleted or made anew, also during the rendering.
ReusedTicketIsCurrent ==
  \A i \in images : \A w \in Scopes :
    owner[w].present /\ owner[w].id = i.tpl /\ owner[w].version = i.ver
      => req[i.path].design = owner[w].design
=============================================================================
