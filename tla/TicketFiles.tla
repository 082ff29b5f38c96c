----------------------------- MODULE TicketFiles -----------------------------
(***************************************************************************)
(* DigitalTicketsService, its image service and the jobs behind a          *)
(* registration.  A ticket is rendered from the template and the QR image  *)
(* of its registration, written under a random name, and then stored in    *)
(* the DigitalTicketImage row of the registration, the template and the    *)
(* version that was read first.  A pipeline job is one step: what it       *)
(* leaves is a QR image and a queued job that reads everything again.      *)
(***************************************************************************)
EXTENDS UploadFiles

VARIABLES
  status,     \* Registration.status, "none" or "removed"
  pipeline,   \* registrations with a registration.created job
  job         \* digital-ticket jobs by registration and version

ticketVars == <<status, pipeline, job>>

Versions == 1..(Cardinality(Ops) + 1)
Attempts == 3

\* findActiveTemplateForRegistration: the template of the attendee type, else
\* the one of the event.
Template ==
  IF owner[Special].present THEN Special ELSE IF owner[Wide].present THEN Wide ELSE None

\* Rows are unique for a registration, a template and a version.
RowsOf(r, tpl, ver) == {i \in images : i.reg = r /\ i.tpl = tpl /\ i.ver = ver}
PathsOf(r, tpl, ver) == {i.path : i \in RowsOf(r, tpl, ver)}

TicketReq(r, kind) ==
  [NewReq EXCEPT !.kind = kind, !.at = "resolve", !.on = {r} \cup Scopes, !.row = r]

-----------------------------------------------------------------------------
\* PublicService.register: the registration and its pipeline job are made, then
\* its ticket is generated in the same request.
Register(o) ==
  /\ event /\ Template # None
  /\ \E r \in Regs :
       /\ status[r] = "none"
       /\ status' = [status EXCEPT ![r] = "ACTIVE"]
       /\ pipeline' = pipeline \cup {r}
       /\ Start(o, TicketReq(r, "forced"))
  /\ UNCHANGED <<event, owner, images, disk, swept, named, lost, faults, job>>

\* An administrator's request, forced or not, or one of resolveUsable.
Request(o) ==
  /\ \E r \in Regs, kind \in {"forced", "unforced"} :
       status[r] # "none" /\ Start(o, TicketReq(r, kind))
  /\ UNCHANGED <<event, owner, images, disk, swept, named, lost, faults, ticketVars>>

\* A worker takes a digital-ticket job.
TakeJob(o) ==
  /\ \E r \in Regs, v \in Versions :
       /\ job[r][v] = "waiting"
       /\ job' = [job EXCEPT ![r][v] = "active"]
       /\ Start(o, [TicketReq(r, "unforced") EXCEPT !.job = <<r, v>>])
  /\ UNCHANGED <<event, owner, images, disk, swept, named, lost, faults, status, pipeline>>

\* The job a worker runs has ended, or is tried again.  The version a job is
\* named after may not be the one it generates.
Tries(j) == Cardinality({o \in Ops : req[o].job = j})
EndJob(o, ended) ==
  LET j == req[o].job IN job' = IF j = None THEN job ELSE [job EXCEPT ![j[1]][j[2]] = ended]
Fail(o) ==
  /\ Done(o)
  /\ EndJob(o, IF Tries(req[o].job) < Attempts THEN "waiting" ELSE "failed")

\* isGeneratedImageUsable.
Usable(paths) == paths \cap disk # {}

\* The registration must be ACTIVE and have a template.  A ticket that is still
\* on the disk is used again, unless it must be made anew.
Resolve(o) ==
  /\ req[o].at = "resolve"
  /\ LET r == req[o].row
         t == owner[Template]
         paths == PathsOf(r, t.id, t.version)
         reused == req[o].kind # "forced" /\ Usable(paths)
     IN
     \/ /\ ~event \/ status[r] # "ACTIVE" \/ Template = None
        /\ Fail(o)
     \/ /\ event /\ status[r] = "ACTIVE" /\ Template # None
        /\ \/ /\ reused
              /\ Done(o) /\ EndJob(o, "completed")
           \/ /\ ~reused
              /\ req' = [req EXCEPT ![o].at = "draw", ![o].old = paths, ![o].tpl = t.id,
                                    ![o].ver = t.version, ![o].design = t.design]
              /\ UNCHANGED job
  /\ UNCHANGED <<event, owner, images, disk, history, faults, status, pipeline>>

\* generateRegistrationQrImage: written again, or as it is.
WithQr(r) == disk \cup {r}

\* buildRenderInput writes the QR image of the registration.
Draw(o) ==
  /\ req[o].at = "draw"
  /\ \/ /\ status[req[o].row] # "removed"
        /\ disk' = WithQr(req[o].row)
        /\ Goto(o, "render") /\ UNCHANGED job
     \/ /\ status[req[o].row] = "removed"
        /\ Fail(o) /\ UNCHANGED disk
  /\ UNCHANGED <<event, owner, images, history, faults, status, pipeline>>

\* toImageDataUri reads the QR image back, and the ticket cannot do without it.
QrReadable(o) == req[o].row \in disk

\* The ticket is rendered and written, before its row is.
Render(o) ==
  /\ req[o].at = "render"
  /\ \/ /\ QrReadable(o)
        /\ disk' = disk \cup {o}
        /\ req' = [req EXCEPT ![o].at = "save", ![o].file = o]
        /\ UNCHANGED job
     \/ /\ ~QrReadable(o)
        /\ Fail(o) /\ UNCHANGED disk
  /\ UNCHANGED <<event, owner, images, history, faults, status, pipeline>>

Row(o) == [reg |-> req[o].row, tpl |-> req[o].tpl, ver |-> req[o].ver, path |-> o]

\* Mutant: the tickets of earlier versions are deleted with the replaced one.
SaveAndClear(o) ==
  /\ req[o].at = "save"
  /\ images' = (images \ RowsOf(req[o].row, req[o].tpl, req[o].ver)) \cup {Row(o)}
  /\ Delete(o, {i.path : i \in {j \in images : j.reg = req[o].row}}) /\ EndJob(o, "completed")
  /\ UNCHANGED <<event, owner, disk, history, faults, status, pipeline>>

\* The upsert names rows that must still be there.  The file it replaces is the
\* one read at first, whatever the row names by now.
Save(o) ==
  /\ req[o].at = "save"
  /\ LET r == req[o].row
         alive == status[r] # "removed" /\ \E w \in Scopes : owner[w].id = req[o].tpl
     IN
     \/ /\ alive
        /\ images' = (images \ RowsOf(r, req[o].tpl, req[o].ver)) \cup {Row(o)}
        /\ Delete(o, req[o].old) /\ EndJob(o, "completed")
     \/ /\ ~alive
        /\ Fail(o) /\ UNCHANGED images
  /\ UNCHANGED <<event, owner, disk, history, faults, status, pipeline>>

-----------------------------------------------------------------------------
\* enqueueDigitalTicketGeneration: a job the ticket queue knows is not added.
WithTicketJob(r) ==
  [job EXCEPT ![r][owner[Template].version] = IF @ = "none" THEN "waiting" ELSE @]

\* The registration.created job.  Imported registrations get no ticket, nor do
\* others if there is no template or the queue refuses the job.
RunPipeline(r) ==
  /\ r \in pipeline
  /\ pipeline' = pipeline \ {r}
  /\ \/ status[r] # "ACTIVE" /\ UNCHANGED <<disk, job>>
     \/ /\ status[r] = "ACTIVE"
        /\ disk' = WithQr(r)
        /\ UNCHANGED job \/ (Template # None /\ job' = WithTicketJob(r))
  /\ UNCHANGED <<event, owner, images, req, history, faults, status>>

\* enqueueRegeneration.
Regenerate(r) == pipeline' = pipeline \cup {r}

\* A visitor polls for the ticket: a file that is gone starts the pipeline.
Poll(r) ==
  /\ Template # None
  /\ LET paths == PathsOf(r, owner[Template].id, owner[Template].version) IN
     paths # {} /\ ~Usable(paths)
  /\ Regenerate(r)
  /\ UNCHANGED <<event, owner, images, disk, req, history, faults, status, job>>

\* An administrator blocks a registration, or removes it with its rows: their
\* files stay.
Withdraw(r) ==
  /\ status[r] = "ACTIVE"
  /\ \/ status' = [status EXCEPT ![r] = "BLOCKED"] /\ UNCHANGED <<images, lost>>
     \/ /\ status' = [status EXCEPT ![r] = "removed"]
        /\ images' = {i \in images : i.reg # r}
        /\ lost' = lost \cup {i.path : i \in images \ images'}
                        \cup {o \in Busy : r \in req[o].on}
  /\ UNCHANGED <<event, owner, disk, req, swept, named, met, faults, pipeline, job>>

\* A worker that dies gives its job back.
CrashTicket(o) ==
  /\ Crash(o)
  /\ EndJob(o, "waiting")
  /\ UNCHANGED <<status, pipeline>>

InitTickets ==
  /\ InitUploads
  /\ status \in [Regs -> {"none", "ACTIVE"}]
  /\ pipeline = {}
  /\ job = [r \in Regs |-> [v \in Versions |-> "none"]]

RunTicket(o) == Resolve(o) \/ Draw(o) \/ Render(o) \/ Save(o)
=============================================================================
