----------------------------- MODULE UploadFiles -----------------------------
(***************************************************************************)
(* The rows of one event that own an uploaded image (EventBranding,        *)
(* EventBadgeTemplate, DigitalTicketTemplate) and the requests that store, *)
(* replace and remove the image.  The file is written before the row is    *)
(* looked at and deleted after it was changed, each in a step of its own.  *)
(* Every request stores at most one file, under a random name: the file    *)
(* is called after the request, and the first file of an owner after the   *)
(* owner.  The three images of a branding row are treated alike, so one    *)
(* of them stands for all.                                                 *)
(***************************************************************************)
EXTENDS Naturals, FiniteSets

CONSTANTS
  Ops,         \* requests, jobs and scripts that are run, each at most once
  Brandings,   \* branding and badge rows
  Special,     \* the ticket template of an attendee type
  Wide,        \* the ticket template of the whole event
  Regs,        \* registrations
  None,
  MaxBusy,     \* bound on requests under way at a time
  MaxFaults    \* bound on crashes, files that cannot be deleted, refusing queues

Scopes == {Special, Wide}
Owners == Brandings \cup Scopes

\* Names of files are random or those of registrations: no two are the same.
ASSUME UploadAssumption ==
  /\ MaxBusy \in Nat /\ MaxFaults \in Nat
  /\ None \notin Ops \cup Owners \cup Regs
  /\ Ops \cap Owners = {} /\ Ops \cap Regs = {} /\ Owners \cap Regs = {}

VARIABLES
  event,       \* the event exists
  owner,       \* the rows: present, id, image, version and design
  images,      \* DigitalTicketImage rows
  disk,        \* files under uploads/; the QR image of a registration is
               \* called after the registration
  req,         \* the requests: kind, next step and what they have read; of a worker
               \* also its job: registration and version
  swept,       \* files a cleanup of the living event was to delete (history)
  named,       \* files a JSON body named (history)
  met,         \* requests that overlapped another on the same row (history)
  lost,        \* files without a row for a known reason (history)
  faults

history == <<swept, named, met, lost>>

NewReq == [kind |-> None, at |-> "unborn", on |-> {}, row |-> None, file |-> None,
           old |-> {}, tpl |-> None, ver |-> 0, design |-> None, job |-> None]
Busy == {o \in Ops : req[o].at \notin {"unborn", "queued", "done"}}

\* A request works on the rows in on; those under way on one of them meet it.
Start(o, r) ==
  /\ req[o].at = "unborn" /\ Cardinality(Busy) < MaxBusy
  /\ req' = [req EXCEPT ![o] = r]
  /\ LET others == {q \in Busy : req[q].on \cap r.on # {}} IN
     met' = IF others = {} THEN met ELSE met \cup others \cup {o}

Goto(o, step) == req' = [req EXCEPT ![o].at = step]
\* What has ended is remembered by the design of its ticket and as a try of a job.
Done(o) ==
  req' = [req EXCEPT ![o] =
            [NewReq EXCEPT !.at = "done", !.design = req[o].design, !.job = req[o].job]]
Delete(o, files) ==
  req' = [req EXCEPT ![o].at = "delete", ![o].old = files \ {None}]

-----------------------------------------------------------------------------
\* parseMultipart stores the image while it reads the body; a later part may
\* be refused.
Upload(o, W) ==
  /\ \E w \in W, kind \in {"create", "update"} :
       LET r == [NewReq EXCEPT !.kind = kind, !.on = {w}, !.row = w, !.file = o] IN
       \/ Start(o, [r EXCEPT !.at = "check"]) /\ UNCHANGED lost
       \/ Start(o, [NewReq EXCEPT !.at = "done"]) /\ lost' = lost \cup {o}
  /\ disk' = disk \cup {o}
  /\ UNCHANGED <<event, owner, images, swept, named, faults>>

UploadBranding(o) == Upload(o, Brandings)
UploadTemplate(o) == Upload(o, Scopes)

\* A JSON body changes the rest of the row, and may repeat the image it read.
Patch(o) ==
  /\ \E w \in Owners : \E f \in {None, owner[w].image} :
       /\ Start(o, [NewReq EXCEPT !.kind = "update", !.at = "check", !.on = {w},
                                  !.row = w, !.file = f])
       /\ named' = named \cup ({f} \ {None})
  /\ UNCHANGED <<event, owner, images, disk, swept, lost, faults>>

\* DELETE of the image, and of the row.
Remove(o) ==
  /\ \E w \in Owners, kind \in {"removeImage", "remove"} :
       Start(o, [NewReq EXCEPT !.kind = kind, !.at = "check", !.on = {w}, !.row = w])
  /\ UNCHANGED <<event, owner, images, disk, swept, named, lost, faults>>

\* Mutant: a refused body is not cleaned up.
RefuseOnly(o) == Done(o)

\* The controllers delete what the body of a failing request names.
Refuse(o) == Delete(o, {req[o].file})

\* ensureEventExists and the read of the row.
Found(o) == event /\ owner[req[o].row].present
OldImage(o) == {owner[req[o].row].image} \ {None}

\* A new row: there must be none, and the body must be valid.
CheckCreate(o) ==
  \/ event /\ ~owner[req[o].row].present /\ Goto(o, "commit")
  \/ Refuse(o)

\* deleteReplacedFiles: a body that names no image, or the same, replaces none.
Replaced(o) == IF req[o].file = None THEN {} ELSE OldImage(o) \ {req[o].file}

CheckUpdate(o) ==
  \/ Found(o) /\ req' = [req EXCEPT ![o].at = "commit", ![o].old = Replaced(o)]
  \/ Refuse(o)

CheckRemoveImage(o) ==
  IF Found(o) /\ OldImage(o) # {}
  THEN req' = [req EXCEPT ![o].at = "commit", ![o].old = OldImage(o)]
  ELSE Done(o)

CheckRemove(o) ==
  IF Found(o) THEN req' = [req EXCEPT ![o].at = "commit", ![o].old = OldImage(o)]
  ELSE Done(o)

\* The row is looked at, and the body is validated.
Check(o) ==
  /\ req[o].at = "check"
  /\ \/ req[o].kind = "create" /\ CheckCreate(o)
     \/ req[o].kind = "update" /\ CheckUpdate(o)
     \/ req[o].kind = "removeImage" /\ CheckRemoveImage(o)
     \/ req[o].kind = "remove" /\ CheckRemove(o)
  /\ UNCHANGED <<event, owner, images, disk, history, faults>>

\* Mutant: an update does not make a new version.
RenewedOnly(w, f, o) == [owner EXCEPT ![w].image = f, ![w].design = o]

\* Every change of a template makes a new version; the other rows have none.
Renewed(w, f, o) ==
  [owner EXCEPT ![w].image = f, ![w].design = o,
                ![w].version = IF w \in Scopes THEN @ + 1 ELSE @]

Gone == [present |-> FALSE, id |-> None, image |-> None, version |-> 0, design |-> None]
Created(o) == [present |-> TRUE, id |-> o, image |-> o, version |-> 1, design |-> o]

\* Ticket images keep their template from being deleted.
Deletable(w) == \A i \in images : i.tpl # owner[w].id

\* The writes to the row, whatever has become of it since it was looked at.
CommitCreate(o) ==
  \/ /\ event /\ ~owner[req[o].row].present
     /\ owner' = [owner EXCEPT ![req[o].row] = Created(o)]
     /\ Done(o)
  \/ /\ ~event \/ owner[req[o].row].present
     /\ Refuse(o) /\ UNCHANGED owner

CommitUpdate(o) ==
  LET w == req[o].row
      f == req[o].file
  IN
  \/ /\ owner[w].present
     /\ owner' = Renewed(w, IF f = None THEN owner[w].image ELSE f, o)
     /\ Delete(o, req[o].old)
  \/ /\ ~owner[w].present
     /\ Refuse(o) /\ UNCHANGED owner

CommitRemoveImage(o) ==
  \/ /\ owner[req[o].row].present
     /\ owner' = Renewed(req[o].row, None, o)
     /\ Delete(o, req[o].old)
  \/ /\ ~owner[req[o].row].present
     /\ Done(o) /\ UNCHANGED owner

CommitRemove(o) ==
  \/ /\ owner[req[o].row].present /\ Deletable(req[o].row)
     /\ owner' = [owner EXCEPT ![req[o].row] = Gone]
     /\ Delete(o, req[o].old)
  \/ /\ ~owner[req[o].row].present \/ ~Deletable(req[o].row)
     /\ Done(o) /\ UNCHANGED owner

Commit(o) ==
  /\ req[o].at = "commit"
  /\ \/ req[o].kind = "create" /\ CommitCreate(o)
     \/ req[o].kind = "update" /\ CommitUpdate(o)
     \/ req[o].kind = "removeImage" /\ CommitRemoveImage(o)
     \/ req[o].kind = "remove" /\ CommitRemove(o)
  /\ UNCHANGED <<event, images, disk, history, faults>>

\* safeDeleteUploadFile and safeDeleteRelativePath: a file that is missing is
\* skipped, and one that cannot be deleted is only reported.
Unlink(o) ==
  /\ Done(o)
  /\ \/ disk' = disk \ req[o].old /\ UNCHANGED <<lost, faults>>
     \/ \E f \in req[o].old :
          /\ faults < MaxFaults /\ faults' = faults + 1
          /\ disk' = disk \ (req[o].old \ {f})
          /\ lost' = lost \cup {f}
  /\ UNCHANGED <<event, owner, images, swept, named, met>>

DeleteFiles(o) == req[o].at = "delete" /\ Unlink(o)

\* The process dies between two steps.
Crash(o) ==
  /\ o \in Busy
  /\ faults < MaxFaults /\ faults' = faults + 1
  /\ Done(o)
  /\ lost' = lost \cup req[o].old \cup ({req[o].file} \ {None})
  /\ UNCHANGED <<event, owner, images, disk, swept, named, met>>

InitUploads ==
  /\ event = TRUE
  /\ owner = [w \in Owners |-> IF w = Special THEN Gone ELSE Created(w)]
  /\ images = {}
  /\ disk = Owners \ {Special}
  /\ req = [o \in Ops |-> NewReq]
  /\ swept = {} /\ named = {} /\ met = {} /\ lost = {}
  /\ faults = 0

RunUpload(o) == Check(o) \/ Commit(o) \/ DeleteFiles(o)
=============================================================================
