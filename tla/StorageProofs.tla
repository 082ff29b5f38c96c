--------------------------- MODULE StorageProofs ---------------------------
(***************************************************************************)
(* Proofs about StorageCleanup, for any requests, rows, registrations and  *)
(* faults: the file a row names exists, a file that no row names has a     *)
(* reason, and a ticket that is used again shows its template as it is.    *)
(***************************************************************************)
EXTENDS StorageCleanup, TLAPS

USE UploadAssumption

Files == Ops \cup Owners
Jobs == (Regs \X Versions) \cup {None}
Kinds == {"create", "update", "removeImage", "remove", "forced", "unforced", "event", "orphans"}

\* Before its commit nothing is named after a request; after it, it may be.
Looking == {"check", "commit"}
Drawing == {"draw", "render", "save"}
Writing == {"unborn", "resolve"} \cup Looking \cup Drawing
Doing == {"delete", "enqueue", "queued"}
Steps == Writing \cup Doing \cup {"removeRows", "done"}

Settled(f) == f \in Owners \/ (f \in Ops /\ req[f].at \notin Writing)

-----------------------------------------------------------------------------
(* What rows and requests hold.                                            *)

OwnerRows == [present : BOOLEAN, id : Files \cup {None}, image : Files \cup {None},
              version : Nat, design : Files \cup {None}]
TicketRows == [reg : Regs, tpl : Files, ver : Nat, path : Ops]
Reqs == [kind : Kinds \cup {None}, at : Steps, on : SUBSET (Owners \cup Regs),
         row : Owners \cup Regs \cup {None}, file : Files \cup {None},
         old : SUBSET (Files \cup Regs), tpl : Files \cup {None}, ver : Nat,
         design : Files \cup {None}, job : Jobs]

FilesTyped ==
  /\ event \in BOOLEAN
  /\ owner \in [Owners -> OwnerRows]
  /\ images \subseteq TicketRows
  /\ req \in [Ops -> Reqs]
  /\ status \in [Regs -> {"none", "ACTIVE", "BLOCKED", "removed"}]
  /\ named \subseteq Files

RowsHold ==
  /\ \A w \in Owners :
       \/ owner[w] = Gone
       \/ /\ owner[w].present /\ Settled(owner[w].id)
          /\ owner[w].image = None \/ Settled(owner[w].image)
  /\ \A i \in images : Settled(i.path) /\ Settled(i.tpl)
  /\ ~event => images = {} /\ \A w \in Owners : ~owner[w].present
  /\ \A f \in named : Settled(f)

\* A request that changes a row, that makes a ticket, and any other.
LookHolds(o, r) ==
  /\ r.row \in Owners /\ r.row \in r.on
  /\ r.kind \in {"create", "update", "removeImage", "remove"}
  /\ r.file \in {None, o} \cup named
  /\ r.kind = "create" => r.file = o
  /\ r.kind \in {"removeImage", "remove"} => r.file = None
  /\ IF r.at = "check" THEN r.old = {}
     ELSE r.file \notin r.old /\ (r.kind = "update" /\ r.file = None => r.old = {})

TicketHolds(o, r) ==
  /\ r.row \in Regs /\ r.row \in r.on /\ Scopes \subseteq r.on
  /\ r.at # "resolve" => Settled(r.tpl)
  /\ r.file = IF r.at = "save" THEN o ELSE None

RequestHolds(o, r) ==
  /\ r.at \in Looking => LookHolds(o, r)
  /\ r.at \in Drawing \cup {"resolve"} => TicketHolds(o, r)
  /\ r.at = "removeRows" => r.on = Owners \cup Regs
  /\ r.at \in {"removeRows", "enqueue"} =>
       r.kind = "event" \/ (r.kind = "orphans" /\ r.at = "enqueue" /\ r.old \subseteq Regs)
  /\ \A f \in r.old : f \in Regs \/ Settled(f)

BasicInv == FilesTyped /\ RowsHold /\ \A o \in Ops : RequestHolds(o, req[o])

-----------------------------------------------------------------------------
(* Which row a name belongs to.                                            *)

Refers(f, w) ==
  \/ owner[w].image = f
  \/ \E o \in Ops : req[o].at \in Looking /\ req[o].row = w /\ f \in req[o].old \cup {req[o].file}

OneHome == \A f \in Files : \A w, x \in Owners : Refers(f, w) /\ Refers(f, x) => w = x

\* The file of a ticket is in one row, of which those know that replace it.
PathsApart ==
  /\ \A i \in images : /\ \A j \in images : i.path = j.path => i = j
                       /\ \A w \in Owners : ~Refers(i.path, w)
  /\ \A o \in Ops : req[o].at \in Drawing => \A p \in req[o].old :
       /\ p \in Ops /\ \A w \in Owners : ~Refers(p, w)
       /\ \A i \in images : i.path = p => i \in RowsOf(req[o].row, req[o].tpl, req[o].ver)

\* What a request will name is there, and what it will delete is named no more.
Stored ==
  \A o \in Ops : req[o].at \in Looking \cup {"save"} /\ req[o].file = o => o \in disk
Doomed ==
  \A o \in Ops : req[o].at \in Doing =>
    \A f \in req[o].old : f \in named \cup swept \/ f \notin EventFiles

NamedInv == OneHome /\ PathsApart /\ Stored /\ Doomed /\ NamedFilesExist

-----------------------------------------------------------------------------
(* The template a ticket shows.                                            *)

Snap(tpl, ver, design) ==
  \A w \in Scopes : owner[w].present /\ owner[w].id = tpl =>
    ver <= owner[w].version /\ (ver = owner[w].version => design = owner[w].design)

TicketInv ==
  /\ \A w, x \in Owners : owner[w].present /\ owner[x].present /\ owner[w].id = owner[x].id => w = x
  /\ \A i \in images : Snap(i.tpl, i.ver, req[i.path].design)
  /\ \A o \in Ops : req[o].at \in Drawing => Snap(req[o].tpl, req[o].ver, req[o].design)

-----------------------------------------------------------------------------
(* Where a file without a row went.                                        *)

Overlap ==
  \A o, q \in Busy : o # q /\ req[o].on \cap req[q].on # {} => o \in met

Carried(f) ==
  \/ \E o \in Ops : req[o].at \in Doing /\ f \in req[o].old
  \/ f \in Ops /\ req[f].at \in Looking \cup {"save"} /\ req[f].file = f

Away(f) == f \notin disk \/ f \in lost \cup met \/ Carried(f)
Explained == \A f \in Files : f \in EventFiles \/ Away(f)

\* What a request will take out of the rows it has read, or others explain it.
Aware(o, r) ==
  /\ r.at = "commit" /\ r.kind # "create" /\ ~(r.kind = "update" /\ r.file = None) =>
       LET g == owner[r.row].image IN g = None \/ g \in r.old \cup {r.file} \/ Away(g)
  /\ r.at = "removeRows" => \A g \in EventFiles \ r.old : Away(g)
  /\ r.at \in Drawing =>
       /\ \A i \in RowsOf(r.row, r.tpl, r.ver) : i.path \in r.old \/ Away(i.path)
       /\ \/ o \in lost \cup met
          \/ status[r.row] # "removed" /\ \E w \in Scopes : owner[w].id = r.tpl

StrayInv == Overlap /\ Explained /\ \A o \in Ops : Aware(o, req[o])

-----------------------------------------------------------------------------
(* Requests.                                                               *)

\* A step of one request.
Only(o) == req' \in [Ops -> Reqs] /\ \A q \in Ops \ {o} : req'[q] = req[q]

Ahead(o) ==
  /\ Only(o) /\ (req[o].at \notin Writing => req'[o].at \notin Writing)
  /\ named \subseteq named' /\ swept \subseteq swept' /\ met \subseteq met' /\ lost \subseteq lost'

LEMMA NewTyped ==
  /\ NewReq \in Reqs
  /\ NewReq.at = "unborn" /\ NewReq.on = {} /\ NewReq.file = None /\ NewReq.old = {}
BY DEF NewReq, Reqs, Steps, Writing, Jobs

LEMMA GotoSets ==
  ASSUME FilesTyped, NEW o \in Ops, NEW step \in Steps, Goto(o, step)
  PROVE  /\ Only(o)
         /\ req'[o].at = step /\ req'[o].kind = req[o].kind /\ req'[o].on = req[o].on
         /\ req'[o].row = req[o].row /\ req'[o].file = req[o].file /\ req'[o].old = req[o].old
         /\ req'[o].tpl = req[o].tpl /\ req'[o].ver = req[o].ver /\ req'[o].design = req[o].design
<1> DEFINE r == [req[o] EXCEPT !.at = step]
<1>1. req[o] \in Reqs /\ req \in [Ops -> Reqs]
  BY DEF FilesTyped
<1>2. /\ r \in Reqs
      /\ r.at = step /\ r.kind = req[o].kind /\ r.on = req[o].on
      /\ r.row = req[o].row /\ r.file = req[o].file /\ r.old = req[o].old
      /\ r.tpl = req[o].tpl /\ r.ver = req[o].ver /\ r.design = req[o].design
  BY <1>1 DEF Reqs
<1>3. req' = [req EXCEPT ![o] = r]
  BY DEF Goto
<1> HIDE DEF r
<1>4. QED
  BY <1>1, <1>2, <1>3 DEF Only

LEMMA DoneSets ==
  ASSUME FilesTyped, NEW o \in Ops, Done(o)
  PROVE  /\ Only(o)
         /\ req'[o].at = "done" /\ req'[o].old = {} /\ req'[o].file = None
         /\ req'[o].design = req[o].design
<1> DEFINE r == [NewReq EXCEPT !.at = "done", !.design = req[o].design, !.job = req[o].job]
<1>1. req[o] \in Reqs /\ req \in [Ops -> Reqs]
  BY DEF FilesTyped
<1>2. r \in Reqs /\ r.at = "done" /\ r.old = {} /\ r.file = None /\ r.design = req[o].design
  BY <1>1 DEF Reqs, NewReq, Steps
<1>3. req' = [req EXCEPT ![o] = r]
  BY DEF Done
<1> HIDE DEF r
<1>4. QED
  BY <1>1, <1>2, <1>3 DEF Only

LEMMA DeleteSets ==
  ASSUME FilesTyped, NEW o \in Ops, NEW files \in SUBSET (Files \cup Regs \cup {None}), Delete(o, files)
  PROVE  /\ Only(o)
         /\ req'[o].at = "delete" /\ req'[o].old = files \ {None}
         /\ req'[o].on = req[o].on /\ req'[o].design = req[o].design
<1> DEFINE r == [req[o] EXCEPT !.at = "delete", !.old = files \ {None}]
<1>1. req[o] \in Reqs /\ req \in [Ops -> Reqs]
  BY DEF FilesTyped
<1>2. /\ r \in Reqs /\ r.at = "delete" /\ r.old = files \ {None}
      /\ r.on = req[o].on /\ r.design = req[o].design
  BY <1>1 DEF Reqs, Steps, Doing
<1>3. req' = [req EXCEPT ![o] = r]
  BY DEF Delete
<1> HIDE DEF r
<1>4. QED
  BY <1>1, <1>2, <1>3 DEF Only

LEMMA StartSets ==
  ASSUME FilesTyped, NEW o \in Ops, NEW r \in Reqs, Start(o, r)
  PROVE  /\ Only(o) /\ req'[o] = r /\ req[o].at = "unborn" /\ met \subseteq met'
         /\ \A q \in Busy : req[q].on \cap r.on # {} => o \in met' /\ q \in met'
<1>1. /\ req' = [req EXCEPT ![o] = r] /\ req[o].at = "unborn" /\ req \in [Ops -> Reqs]
  BY DEF Start, FilesTyped
<1>2. Only(o) /\ req'[o] = r
  BY <1>1 DEF Only
<1> DEFINE others == {q \in Busy : req[q].on \cap r.on # {}}
<1>3. met' = IF others = {} THEN met ELSE met \cup others \cup {o}
  BY DEF Start
<1>4. QED
  BY <1>1, <1>2, <1>3

LEMMA InRows ==
  ASSUME FilesTyped, RowsHold, NEW f, f # None
  PROVE  f \in EventFiles <=> (\E w \in Owners : owner[w].image = f) \/ \E i \in images : i.path = f
<1>1. \A w \in Owners : owner[w].image # None => owner[w].present
  BY DEF RowsHold, Gone
<1>2. QED
  BY <1>1 DEF EventFiles

\* Names in rows, and in what requests will delete, are settled or of QR images.
LEMMA Names ==
  ASSUME FilesTyped, RowsHold
  PROVE  /\ \A f \in EventFiles : f \in Files /\ Settled(f) /\ f # None
         /\ \A f \in Files : f # None /\ f \notin Regs
         /\ \A o \in Ops : o \notin Owners /\ o # None /\ (req[o].at \in Writing => ~Settled(o))
<1>1. \A f \in Files : f # None /\ f \notin Regs
  BY DEF Files
<1>2. \A w \in Owners : owner[w].image # None => Settled(owner[w].image) /\ owner[w].image \in Files
  BY DEF RowsHold, Gone, Settled, Files
<1>3. \A i \in images : Settled(i.path) /\ i.path \in Files
  BY DEF RowsHold, Settled, Files
<1>4. \A f \in EventFiles : f \in Files /\ Settled(f) /\ f # None
  BY <1>1, <1>2, <1>3 DEF EventFiles
<1>5. \A o \in Ops : o \notin Owners /\ o # None /\ (req[o].at \in Writing => ~Settled(o))
  BY DEF Settled
<1>6. QED
  BY <1>1, <1>4, <1>5

\* What holds of the other requests stays.
LEMMA OthersStand ==
  ASSUME BasicInv, NEW o \in Ops, Ahead(o)
  PROVE  /\ \A f : Settled(f) => Settled(f)'
         /\ \A q \in Ops \ {o} : RequestHolds(q, req[q])'
<1>1. \A f : Settled(f) => Settled(f)'
  BY DEF Settled, Ahead, Only
<1>2. ASSUME NEW q \in Ops \ {o} PROVE RequestHolds(q, req[q])'
  <2>1. req'[q] = req[q] /\ RequestHolds(q, req[q]) /\ named \subseteq named'
    BY DEF Ahead, Only, BasicInv
  <2> QED BY <1>1, <2>1 DEF RequestHolds, LookHolds, TicketHolds
<1>3. QED
  BY <1>1, <1>2

\* A step that leaves the rows.
Kept == UNCHANGED <<event, owner, images>>

LEMMA BasicStands ==
  ASSUME BasicInv, NEW o \in Ops, Ahead(o), Kept,
         status' \in [Regs -> {"none", "ACTIVE", "BLOCKED", "removed"}],
         \A f \in named' : f \in named \/ Settled(f), RequestHolds(o, req[o])'
  PROVE  BasicInv'
<1>1. (\A f : Settled(f) => Settled(f)') /\ \A q \in Ops : RequestHolds(q, req[q])'
  BY OthersStand
<1>2. \A f \in named' : f \in Files
  BY DEF BasicInv, FilesTyped, Settled, Files
<1>3. FilesTyped'
  BY <1>2 DEF BasicInv, FilesTyped, Kept, Ahead, Only
<1>4. RowsHold'
  BY <1>1 DEF BasicInv, RowsHold, Kept
<1>5. QED
  BY <1>1, <1>3, <1>4 DEF BasicInv

-----------------------------------------------------------------------------
(* Steps that leave the rows.                                              *)

\* Before a request is made nothing refers to its name.
LEMMA FreshName ==
  ASSUME BasicInv, NEW o \in Ops, req[o].at \in Writing
  PROVE  /\ o \notin EventFiles /\ \A q \in Ops : o \notin req[q].old
         /\ \A q \in Ops \ {o} : req[q].at \in Looking => req[q].file # o
         /\ req[o].at \notin Looking => \A w \in Owners : ~Refers(o, w)
<1>1. ~Settled(o) /\ o \notin Regs /\ o # None /\ \A q \in Ops : o \notin req[q].old
  BY Names DEF BasicInv, RequestHolds, Files
<1>2. o \notin EventFiles /\ \A w \in Owners : owner[w].image # o
  <2>1. o \notin EventFiles
    BY <1>1, Names DEF BasicInv
  <2> QED BY <1>1, <2>1, InRows DEF BasicInv
<1>3. \A q \in Ops \ {o} : req[q].at \in Looking => req[q].file # o
  BY <1>1 DEF BasicInv, RequestHolds, LookHolds, RowsHold
<1>4. QED
  BY <1>1, <1>2, <1>3 DEF Refers

\* The request of the step may refer to names its row has, or to its own.
LEMMA HomesStand ==
  ASSUME BasicInv, NamedInv, NEW o \in Ops, Ahead(o), Kept,
         req'[o].at \in Looking =>
           \A f \in Files : f \in req'[o].old \cup {req'[o].file} =>
             (f = o /\ req[o].at = "unborn") \/ Refers(f, req'[o].row),
         \A q \in Ops : q \in disk /\ ~Settled(q) => q \in disk',
         \A f \in EventFiles : f \in disk => f \in disk' \/ f \in named \cup swept,
         req'[o].at \in Looking \cup {"save"} /\ req'[o].file = o => o \in disk',
         req'[o].at \in Drawing =>
           \/ req[o].at \in Drawing /\ req'[o].old = req[o].old /\ req'[o].row = req[o].row
              /\ req'[o].tpl = req[o].tpl /\ req'[o].ver = req[o].ver
           \/ req'[o].old = PathsOf(req'[o].row, req'[o].tpl, req'[o].ver),
         req'[o].at \in Doing =>
           \A f \in req'[o].old : f \in named' \cup swept' \/ f \notin EventFiles
  PROVE  NamedInv'
<1>1. /\ \A q \in Ops \ {o} : req'[q] = req[q]
      /\ named \subseteq named' /\ swept \subseteq swept' /\ owner' = owner /\ images' = images
      /\ EventFiles' = EventFiles
  BY DEF Ahead, Only, Kept, EventFiles
<1>2. \A f \in Files, w \in Owners :
        Refers(f, w)' => Refers(f, w) \/ (f = o /\ req[o].at = "unborn" /\ req'[o].row = w)
  BY <1>1 DEF Refers
<1>3. \A w \in Owners : req[o].at = "unborn" => ~Refers(o, w)
  BY FreshName DEF Writing, Looking, Drawing
<1>4. OneHome'
  <2> SUFFICES ASSUME NEW f \in Files, NEW w \in Owners, NEW x \in Owners, Refers(f, w)', Refers(f, x)'
               PROVE  w = x
    BY DEF OneHome
  <2> QED BY <1>2, <1>3 DEF NamedInv, OneHome
<1>5. PathsApart'
  <2>1. \A i \in images : Settled(i.path) /\ i.path \in Files /\ i \in images
    BY DEF BasicInv, RowsHold, Settled, Files
  <2>2. req[o].at = "unborn" => ~Settled(o)
    BY Names DEF BasicInv, Writing
  <2>3. \A i \in images, w \in Owners : ~Refers(i.path, w)'
    BY <1>2, <2>1, <2>2 DEF NamedInv, PathsApart
  <2>4. ASSUME NEW q \in Ops, req'[q].at \in Drawing, NEW p \in req'[q].old
        PROVE  /\ p \in Ops /\ \A w \in Owners : ~Refers(p, w)'
               /\ \A i \in images : i.path = p => i \in RowsOf(req[q].row, req[q].tpl, req[q].ver)'
    <3>1. CASE q # o \/ (req[o].at \in Drawing /\ req'[o].old = req[o].old /\ req'[o].row = req[o].row
                         /\ req'[o].tpl = req[o].tpl /\ req'[o].ver = req[o].ver)
      <4>1. /\ req[q].at \in Drawing /\ req'[q].old = req[q].old /\ req'[q].row = req[q].row
            /\ req'[q].tpl = req[q].tpl /\ req'[q].ver = req[q].ver
        BY <1>1, <2>4, <3>1
      <4>2. /\ p \in Ops /\ \A w \in Owners : ~Refers(p, w)
            /\ \A i \in images : i.path = p => i \in RowsOf(req[q].row, req[q].tpl, req[q].ver)
        BY <2>4, <4>1 DEF NamedInv, PathsApart
      <4>3. p \in Regs \/ Settled(p)
        BY <2>4, <4>1 DEF BasicInv, RequestHolds
      <4>4. p \in Files /\ Settled(p)
        BY <4>2, <4>3 DEF Files
      <4> QED BY <1>1, <1>2, <2>2, <4>1, <4>2, <4>4 DEF RowsOf
    <3>2. CASE q = o /\ req'[o].old = PathsOf(req'[o].row, req'[o].tpl, req'[o].ver)
      <4>1. PICK i \in images : i.path = p /\ i \in RowsOf(req'[o].row, req'[o].tpl, req'[o].ver)
        BY <2>4, <3>2 DEF PathsOf, RowsOf
      <4>2. i.path \in Ops
        BY DEF BasicInv, FilesTyped, TicketRows
      <4>3. \A j \in images : j.path = p => j = i
        BY <4>1 DEF NamedInv, PathsApart
      <4> QED BY <1>1, <2>3, <3>2, <4>1, <4>2, <4>3 DEF RowsOf
    <3> QED BY <2>4, <3>1, <3>2
  <2>5. \A i, j \in images : i.path = j.path => i = j
    BY DEF NamedInv, PathsApart
  <2> QED BY <1>1, <2>3, <2>4, <2>5 DEF PathsApart
<1>6. Stored'
  <2> SUFFICES ASSUME NEW q \in Ops, req'[q].at \in Looking \cup {"save"}, req'[q].file = q
               PROVE  q \in disk'
    BY DEF Stored
  <2>1. ASSUME q # o PROVE q \in disk /\ ~Settled(q)
    <3>1. req[q].at \in Looking \cup {"save"} /\ req[q].file = q
      BY <1>1, <2>1
    <3>2. q \in disk
      BY <3>1 DEF NamedInv, Stored
    <3> QED BY <3>1, <3>2, Names DEF BasicInv, Writing, Drawing
  <2> QED BY <2>1
<1>7. Doomed'
  <2> SUFFICES ASSUME NEW q \in Ops, req'[q].at \in Doing, NEW f \in req'[q].old
               PROVE  f \in named' \cup swept' \/ f \notin EventFiles
    BY <1>1 DEF Doomed
  <2>1. ASSUME q # o PROVE f \in named \cup swept \/ f \notin EventFiles
    BY <1>1, <2>1 DEF NamedInv, Doomed
  <2> QED BY <1>1, <2>1
<1>8. NamedFilesExist'
  <2>1. RowFiles' = EventFiles /\ RowFiles = EventFiles
    BY <1>1 DEF RowFiles
  <2>2. \A f \in EventFiles : f \in disk' \/ f \in named' \cup swept'
    BY <1>1, <2>1 DEF NamedInv, NamedFilesExist
  <2> QED BY <2>1, <2>2 DEF NamedFilesExist
<1>9. QED
  BY <1>4, <1>5, <1>6, <1>7, <1>8 DEF NamedInv

LEMMA SnapsStand ==
  ASSUME BasicInv, TicketInv, NEW o \in Ops, Ahead(o), Kept,
         req[o].at \notin Writing => req'[o].design = req[o].design,
         req'[o].at \in Drawing => Snap(req'[o].tpl, req'[o].ver, req'[o].design)
  PROVE  TicketInv'
<1>1. owner' = owner /\ images' = images /\ \A q \in Ops \ {o} : req'[q] = req[q]
  BY DEF Ahead, Only, Kept
<1>3. ASSUME NEW i \in images PROVE Snap(i.tpl, i.ver, req[i.path].design)'
  <2>1. req'[i.path].design = req[i.path].design
    BY <1>1 DEF BasicInv, RowsHold, FilesTyped, TicketRows, Settled
  <2> QED BY <1>1, <2>1 DEF TicketInv, Snap
<1>4. ASSUME NEW q \in Ops, req'[q].at \in Drawing
      PROVE  Snap(req[q].tpl, req[q].ver, req[q].design)'
  <2>1. CASE q = o
    BY <1>1, <1>4, <2>1 DEF Snap
  <2>2. CASE q # o
    <3>1. Snap(req[q].tpl, req[q].ver, req[q].design) /\ req'[q] = req[q]
      BY <1>1, <1>4, <2>2 DEF TicketInv
    <3> QED BY <1>1, <3>1 DEF Snap
  <2> QED BY <2>1, <2>2
<1>5. QED
  BY <1>1, <1>3, <1>4 DEF TicketInv

\* No file comes but the request's own, and those it drops are deleted or lost.
Leaves(o) ==
  /\ \A f \in Files : f \in disk' => f \in disk \/ (f = o /\ ~Settled(o))
  /\ req[o].at \in Doing => \A f \in req[o].old \cap Files :
       f \notin disk' \/ f \in lost' \/ (req'[o].at \in Doing /\ f \in req'[o].old)

LEMMA AwayStands ==
  ASSUME BasicInv, NEW o \in Ops, Ahead(o), Leaves(o), NEW f \in Files, f # o \/ Settled(f), Away(f)
  PROVE  Away(f)'
<1>1. /\ \A q \in Ops \ {o} : req'[q] = req[q]
      /\ met \subseteq met' /\ lost \subseteq lost'
  BY DEF Ahead, Only
<1>2. CASE f \notin disk \/ f \in lost \cup met
  BY <1>1, <1>2 DEF Away, Leaves
<1>3. CASE \E q \in Ops : req[q].at \in Doing /\ f \in req[q].old
  <2>1. PICK q \in Ops : req[q].at \in Doing /\ f \in req[q].old
    BY <1>3
  <2>2. CASE q = o
    BY <2>1, <2>2 DEF Leaves, Away, Carried
  <2>3. CASE q # o
    BY <1>1, <2>1, <2>3 DEF Away, Carried
  <2> QED BY <2>2, <2>3
<1>4. CASE f \in Ops /\ req[f].at \in Looking \cup {"save"} /\ req[f].file = f
  <2>1. f # o
    BY <1>4, Names DEF BasicInv, Writing, Drawing
  <2> QED BY <1>1, <1>4, <2>1 DEF Away, Carried
<1>5. QED
  BY <1>2, <1>3, <1>4 DEF Away, Carried

LEMMA StraysStand ==
  ASSUME BasicInv, StrayInv, NEW o \in Ops, Ahead(o), Kept, Leaves(o),
         ~Settled(o) => Away(o)',
         \/ req'[o].at \in {"unborn", "queued", "done"}
         \/ o \in Busy /\ req'[o].on = req[o].on
         \/ \A q \in Busy : req[q].on \cap req'[o].on # {} => o \in met' /\ q \in met',
         \A r \in Regs : status'[r] = "removed" => status[r] = "removed",
         Aware(o, req[o])'
  PROVE  StrayInv'
<1>1. /\ \A q \in Ops \ {o} : req'[q] = req[q]
      /\ met \subseteq met' /\ lost \subseteq lost' /\ owner' = owner /\ images' = images
      /\ EventFiles' = EventFiles
  BY DEF Ahead, Only, Kept, EventFiles
<1>2. \A q \in Ops \ {o} : q \in Busy' <=> q \in Busy
  BY <1>1 DEF Busy
<1>3. Overlap'
  <2> SUFFICES ASSUME NEW p \in Busy', NEW q \in Busy', p # q, req'[p].on \cap req'[q].on # {}
               PROVE  p \in met'
    BY DEF Overlap
  <2>1. p \in Ops /\ q \in Ops
    BY DEF Busy
  <2>2. CASE p # o /\ q # o
    BY <1>1, <1>2, <2>1, <2>2 DEF StrayInv, Overlap
  <2>3. CASE o \in {p, q}
    <3>1. req'[o].at \notin {"unborn", "queued", "done"}
      BY <2>3 DEF Busy
    <3>2. CASE o \in Busy /\ req'[o].on = req[o].on
      BY <1>1, <1>2, <2>1, <2>3, <3>2 DEF StrayInv, Overlap
    <3>3. CASE \A x \in Busy : req[x].on \cap req'[o].on # {} => o \in met' /\ x \in met'
      BY <1>1, <1>2, <2>1, <2>3, <3>3
    <3> QED BY <3>1, <3>2, <3>3
  <2> QED BY <2>2, <2>3
<1>4. \A f \in Files : (f # o \/ Settled(f)) /\ Away(f) => Away(f)'
  BY AwayStands
<1>5. \A f \in EventFiles : f \in Files /\ Settled(f) /\ f # None
  BY Names DEF BasicInv
<1>6. Explained'
  BY <1>1, <1>4 DEF Explained, StrayInv
<1>7. ASSUME NEW q \in Ops \ {o} PROVE Aware(q, req[q])'
  <2>1. req'[q] = req[q] /\ Aware(q, req[q]) /\ RequestHolds(q, req[q])
    BY <1>1 DEF StrayInv, BasicInv
  <2>2. ASSUME req[q].at = "commit"
        PROVE  \A g \in Files : owner[req[q].row].image = g /\ Away(g) => Away(g)'
    <3>1. req[q].row \in Owners
      BY <2>1, <2>2 DEF RequestHolds, LookHolds, Looking
    <3>2. owner[req[q].row].image # None => owner[req[q].row].image \in EventFiles
      BY <3>1, InRows DEF BasicInv
    <3> QED BY <1>4, <1>5, <3>2, Names DEF BasicInv
  <2>3. \A i \in images : Away(i.path) => Away(i.path)'
    <3>1. \A i \in images : Settled(i.path) /\ i.path \in Files
      BY DEF BasicInv, RowsHold, Settled, Files
    <3> QED BY <1>4, <3>1
  <2>4. \A g \in EventFiles : Away(g) => Away(g)'
    BY <1>4, <1>5
  <2>5. ASSUME req[q].at = "commit"
        PROVE  owner[req[q].row].image = None \/ owner[req[q].row].image \in Files
    BY <2>1, <2>5 DEF RequestHolds, LookHolds, Looking, BasicInv, FilesTyped, OwnerRows
  <2>6. req[q].at \in Drawing => req[q].row \in Regs
    BY <2>1 DEF RequestHolds, TicketHolds
  <2> QED BY <1>1, <2>1, <2>2, <2>3, <2>4, <2>5, <2>6 DEF Aware, RowsOf
<1>8. QED
  BY <1>3, <1>6, <1>7 DEF StrayInv

-----------------------------------------------------------------------------
(* Requests begin.                                                         *)

FilesInv == BasicInv /\ NamedInv /\ TicketInv /\ StrayInv

LEMMA BeginKeeps ==
  ASSUME FilesInv, NEW o \in Ops, NEW r \in Reqs, Start(o, r), Kept,
         named \subseteq named', \A f \in named' : f \in named \/ Settled(f),
         swept \subseteq swept', lost \subseteq lost',
         status' \in [Regs -> {"none", "ACTIVE", "BLOCKED", "removed"}],
         \A x \in Regs : status'[x] = "removed" => status[x] = "removed",
         \/ disk' = disk
         \/ disk' = disk \cup {o} /\ r.at = "done" /\ o \in lost'
         \/ disk' = disk \cup {o} /\ r.at = "check" /\ r.file = o,
         r.at \in {"check", "resolve", "removeRows", "enqueue", "done"},
         RequestHolds(o, req[o])',
         r.at = "check" => \/ r.file = None
                           \/ r.file = o /\ o \in disk'
                           \/ r.file # o /\ Refers(r.file, r.row),
         r.at = "removeRows" => r.old = EventFiles,
         r.at = "enqueue" => \A f \in r.old : f \in swept' \/ f \notin EventFiles
  PROVE  FilesInv'
<1>1. /\ Only(o) /\ req'[o] = r /\ req[o].at = "unborn" /\ met \subseteq met'
      /\ \A q \in Busy : req[q].on \cap r.on # {} => o \in met' /\ q \in met'
  BY StartSets DEF FilesInv, BasicInv
<1>2. Ahead(o)
  BY <1>1 DEF Ahead, Writing
<1>3. /\ ~Settled(o) /\ o \notin EventFiles /\ \A q \in Ops : o \notin req[q].old
      /\ o \in Files /\ o # None
  BY <1>1, FreshName, Names DEF FilesInv, BasicInv, Writing, Files
<1>4. BasicInv'
  BY <1>2, BasicStands DEF FilesInv
<1>5. NamedInv'
  <2>1. ASSUME req'[o].at \in Looking, NEW f \in Files, f \in req'[o].old \cup {req'[o].file}
        PROVE  f = o \/ Refers(f, req'[o].row)
    <3>1. r.at = "check" /\ f # None
      BY <1>1, <2>1, Names DEF Looking, FilesInv, BasicInv
    <3>2. r.old = {}
      BY <1>1, <3>1 DEF RequestHolds, LookHolds, Looking
    <3> QED BY <1>1, <2>1, <3>1, <3>2
  <2>2. req'[o].at \in Looking \cup {"save"} /\ req'[o].file = o => o \in disk'
    BY <1>1, <1>3 DEF Looking
  <2>3. req'[o].at \notin Drawing /\ (req'[o].at \in Doing => req'[o].at = "enqueue")
    BY <1>1 DEF Drawing, Doing
  <2> QED BY <1>1, <1>2, <2>1, <2>2, <2>3, HomesStand DEF FilesInv
<1>6. TicketInv'
  BY <1>1, <1>2, SnapsStand DEF FilesInv, Writing, Drawing
<1>7. StrayInv'
  <2>1. Leaves(o)
    BY <1>1, <1>3 DEF Leaves, Doing
  <2>2. Away(o)'
    <3>1. o \notin disk \/ o \in lost \cup met
      <4>1. ~Carried(o)
        BY <1>1, <1>3 DEF Carried, Looking
      <4> QED BY <1>3, <4>1 DEF FilesInv, StrayInv, Explained, Away
    <3>2. CASE disk' = disk
      BY <1>1, <3>1, <3>2 DEF Away
    <3>3. CASE r.at = "check" /\ r.file = o
      BY <1>1, <3>3 DEF Away, Carried, Looking
    <3> QED BY <3>2, <3>3 DEF Away
  <2>3. Aware(o, req[o])'
    <3>1. EventFiles' = EventFiles
      BY DEF Kept, EventFiles
    <3> QED BY <1>1, <3>1 DEF Aware, Drawing
  <2> QED BY <1>1, <1>2, <2>1, <2>2, <2>3, StraysStand DEF FilesInv
<1>8. QED
  BY <1>4, <1>5, <1>6, <1>7 DEF FilesInv

LEMMA UploadKeeps ==
  ASSUME FilesInv, NEW o \in Ops, NEW W \in SUBSET Owners, Upload(o, W), UNCHANGED ticketVars
  PROVE  FilesInv'
<1> USE DEF FilesInv, BasicInv
<1>1. /\ Kept /\ UNCHANGED <<swept, named, status>> /\ disk' = disk \cup {o}
      /\ status \in [Regs -> {"none", "ACTIVE", "BLOCKED", "removed"}]
  BY DEF Upload, Kept, ticketVars, FilesTyped
<1>2. ASSUME NEW w \in W, NEW kind \in {"create", "update"}, lost' = lost,
             Start(o, [[NewReq EXCEPT !.kind = kind, !.on = {w}, !.row = w, !.file = o]
                         EXCEPT !.at = "check"])
      PROVE  FilesInv'
  <2> DEFINE r == [[NewReq EXCEPT !.kind = kind, !.on = {w}, !.row = w, !.file = o]
                     EXCEPT !.at = "check"]
  <2>1. /\ r \in Reqs /\ r.kind = kind /\ r.at = "check" /\ r.on = {w} /\ r.row = w
        /\ r.file = o /\ r.old = {}
    BY <1>2 DEF NewReq, Reqs, Steps, Writing, Looking, Kinds, Jobs, Files
  <2> HIDE DEF r
  <2>2. Only(o) /\ req'[o] = r
    BY <1>2, <2>1, StartSets DEF r
  <2>3. RequestHolds(o, req[o])'
    BY <1>2, <2>1, <2>2 DEF RequestHolds, LookHolds, Looking, Drawing
  <2>4. Start(o, r)
    BY <1>2 DEF r
  <2> QED BY <1>1, <1>2, <2>1, <2>3, <2>4, BeginKeeps
<1>3. ASSUME lost' = lost \cup {o}, Start(o, [NewReq EXCEPT !.at = "done"])
      PROVE  FilesInv'
  <2> DEFINE r == [NewReq EXCEPT !.at = "done"]
  <2>1. r \in Reqs /\ r.at = "done" /\ r.old = {}
    BY DEF NewReq, Reqs, Steps, Jobs
  <2> HIDE DEF r
  <2>2. Only(o) /\ req'[o] = r
    BY <1>3, <2>1, StartSets DEF r
  <2>3. RequestHolds(o, req[o])'
    BY <2>1, <2>2 DEF RequestHolds, Looking, Drawing
  <2>4. Start(o, r)
    BY <1>3 DEF r
  <2> QED BY <1>1, <1>3, <2>1, <2>3, <2>4, BeginKeeps
<1>4. QED
  BY <1>2, <1>3 DEF Upload

LEMMA PatchKeeps ==
  ASSUME FilesInv, NEW o \in Ops, Patch(o), UNCHANGED ticketVars
  PROVE  FilesInv'
<1> USE DEF FilesInv, BasicInv
<1>0. PICK w \in Owners : \E f \in {None, owner[w].image} :
        /\ Start(o, [NewReq EXCEPT !.kind = "update", !.at = "check", !.on = {w},
                                   !.row = w, !.file = f])
        /\ named' = named \cup ({f} \ {None})
  BY DEF Patch
<1>1. PICK f \in {None, owner[w].image} :
        /\ Start(o, [NewReq EXCEPT !.kind = "update", !.at = "check", !.on = {w},
                                   !.row = w, !.file = f])
        /\ named' = named \cup ({f} \ {None})
  BY <1>0
<1>2. /\ Kept /\ UNCHANGED <<swept, lost, disk, status>>
      /\ status \in [Regs -> {"none", "ACTIVE", "BLOCKED", "removed"}]
  BY DEF Patch, Kept, ticketVars, FilesTyped
<1> DEFINE r == [NewReq EXCEPT !.kind = "update", !.at = "check", !.on = {w}, !.row = w, !.file = f]
<1>3. f = None \/ (f \in Files /\ Settled(f) /\ f = owner[w].image)
  BY DEF RowsHold, Gone, Settled, Files
<1>4. /\ r \in Reqs /\ r.kind = "update" /\ r.at = "check" /\ r.on = {w} /\ r.row = w
      /\ r.file = f /\ r.old = {}
  BY <1>3 DEF NewReq, Reqs, Steps, Writing, Looking, Kinds, Jobs
<1> HIDE DEF r
<1>5. Start(o, r)
  BY <1>1 DEF r
<1>6. Only(o) /\ req'[o] = r /\ req[o].at = "unborn"
  BY <1>4, <1>5, StartSets
<1>7. RequestHolds(o, req[o])'
  BY <1>1, <1>4, <1>6 DEF RequestHolds, LookHolds, Looking, Drawing
<1>8. f = None \/ (f # o /\ Refers(f, w))
  <2>1. ~Settled(o)
    BY <1>6, Names DEF Writing
  <2> QED BY <1>3, <2>1 DEF Refers
<1>9. named \subseteq named' /\ \A g \in named' : g \in named \/ Settled(g)
  BY <1>1, <1>3
<1>10. QED
  BY <1>2, <1>4, <1>5, <1>7, <1>8, <1>9, BeginKeeps

LEMMA RemoveKeeps ==
  ASSUME FilesInv, NEW o \in Ops, Remove(o), UNCHANGED ticketVars
  PROVE  FilesInv'
<1> USE DEF FilesInv, BasicInv
<1>1. PICK w \in Owners, kind \in {"removeImage", "remove"} :
        Start(o, [NewReq EXCEPT !.kind = kind, !.at = "check", !.on = {w}, !.row = w])
  BY DEF Remove
<1>2. /\ Kept /\ UNCHANGED <<swept, named, lost, disk, status>>
      /\ status \in [Regs -> {"none", "ACTIVE", "BLOCKED", "removed"}]
  BY DEF Remove, Kept, ticketVars, FilesTyped
<1> DEFINE r == [NewReq EXCEPT !.kind = kind, !.at = "check", !.on = {w}, !.row = w]
<1>3. /\ r \in Reqs /\ r.kind = kind /\ r.at = "check" /\ r.on = {w} /\ r.row = w
      /\ r.file = None /\ r.old = {}
  BY DEF NewReq, Reqs, Steps, Writing, Looking, Kinds, Jobs
<1> HIDE DEF r
<1>4. Start(o, r)
  BY <1>1 DEF r
<1>5. Only(o) /\ req'[o] = r
  BY <1>3, <1>4, StartSets
<1>6. RequestHolds(o, req[o])'
  BY <1>3, <1>5 DEF RequestHolds, LookHolds, Looking, Drawing
<1>7. QED
  BY <1>2, <1>3, <1>4, <1>6, BeginKeeps

\* The requests that make a ticket.
IsTicketReq(r, x) ==
  /\ r \in Reqs /\ r.at = "resolve" /\ r.on = {x} \cup Scopes /\ r.row = x
  /\ r.file = None /\ r.old = {}

LEMMA TicketReqIs ==
  ASSUME NEW x \in Regs, NEW kind \in {"forced", "unforced"}, NEW j \in Jobs
  PROVE  IsTicketReq(TicketReq(x, kind), x) /\ IsTicketReq([TicketReq(x, kind) EXCEPT !.job = j], x)
BY DEF IsTicketReq, TicketReq, NewReq, Reqs, Steps, Writing, Kinds, Owners, Files, Jobs

LEMMA TicketBegins ==
  ASSUME FilesInv, NEW o \in Ops, NEW x \in Regs, NEW r, IsTicketReq(r, x), Start(o, r), Kept,
         UNCHANGED <<disk, swept, named, lost>>,
         status' \in [Regs -> {"none", "ACTIVE", "BLOCKED", "removed"}],
         \A y \in Regs : status'[y] = "removed" => status[y] = "removed"
  PROVE  FilesInv'
<1>1. r \in Reqs /\ Only(o) /\ req'[o] = r
  BY StartSets DEF IsTicketReq, FilesInv, BasicInv
<1>2. RequestHolds(o, req[o])'
  BY <1>1 DEF IsTicketReq, RequestHolds, TicketHolds, Looking, Drawing
<1>3. QED
  BY <1>1, <1>2, BeginKeeps DEF IsTicketReq

LEMMA TicketRequestsKeep ==
  ASSUME FilesInv, NEW o \in Ops, Register(o) \/ Request(o) \/ TakeJob(o)
  PROVE  FilesInv'
<1>1. status \in [Regs -> {"none", "ACTIVE", "BLOCKED", "removed"}]
  BY DEF FilesInv, BasicInv, FilesTyped
<1>2. CASE Register(o)
  <2>1. PICK x \in Regs : status' = [status EXCEPT ![x] = "ACTIVE"] /\ Start(o, TicketReq(x, "forced"))
    BY <1>2 DEF Register
  <2>2. IsTicketReq(TicketReq(x, "forced"), x)
    BY TicketReqIs DEF Jobs
  <2>3. Kept /\ UNCHANGED <<disk, swept, named, lost>>
    BY <1>2 DEF Register, Kept
  <2>4. status' \in [Regs -> {"none", "ACTIVE", "BLOCKED", "removed"}]
    BY <1>1, <2>1
  <2>5. \A y \in Regs : status'[y] = "removed" => status[y] = "removed"
    BY <1>1, <2>1
  <2> QED BY <2>1, <2>2, <2>3, <2>4, <2>5, TicketBegins
<1>3. CASE Request(o)
  <2>1. PICK x \in Regs, kind \in {"forced", "unforced"} : Start(o, TicketReq(x, kind))
    BY <1>3 DEF Request
  <2>2. IsTicketReq(TicketReq(x, kind), x)
    BY TicketReqIs DEF Jobs
  <2>3. Kept /\ UNCHANGED <<disk, swept, named, lost, status>>
    BY <1>3 DEF Request, Kept, ticketVars
  <2> QED BY <1>1, <2>1, <2>2, <2>3, TicketBegins
<1>4. CASE TakeJob(o)
  <2>1. PICK x \in Regs, v \in Versions : Start(o, [TicketReq(x, "unforced") EXCEPT !.job = <<x, v>>])
    BY <1>4 DEF TakeJob
  <2>2. IsTicketReq([TicketReq(x, "unforced") EXCEPT !.job = <<x, v>>], x)
    BY TicketReqIs DEF Jobs
  <2>3. Kept /\ UNCHANGED <<disk, swept, named, lost, status>>
    BY <1>4 DEF TakeJob, Kept
  <2> QED BY <1>1, <2>1, <2>2, <2>3, TicketBegins
<1>5. QED
  BY <1>2, <1>3, <1>4

\* The requests that clean up.
LEMMA CleanupBegins ==
  ASSUME FilesInv, NEW o \in Ops, NEW kind \in {"event", "orphans"},
         NEW step \in {"removeRows", "enqueue"}, NEW files \in SUBSET (Files \cup Regs),
         Start(o, CleanupReq(kind, step, files)), Kept,
         UNCHANGED <<disk, named, lost, status>>, swept \subseteq swept',
         step = "removeRows" => files = EventFiles /\ kind = "event",
         kind = "orphans" => files \subseteq Regs,
         step = "enqueue" => \A f \in files : f \in swept' \/ f \notin EventFiles,
         \A f \in files : f \in Regs \/ Settled(f)
  PROVE  FilesInv'
<1> USE DEF FilesInv, BasicInv
<1> DEFINE r == CleanupReq(kind, step, files)
<1>1. /\ r \in Reqs /\ r.kind = kind /\ r.at = step /\ r.on = Owners \cup Regs /\ r.old = files
  BY DEF CleanupReq, NewReq, Reqs, Steps, Doing, Kinds, Jobs
<1> HIDE DEF r
<1>2. Start(o, r)
  BY DEF r
<1>3. Only(o) /\ req'[o] = r /\ req[o].at = "unborn"
  BY <1>1, <1>2, StartSets
<1>4. \A f : Settled(f) => Settled(f)'
  BY <1>1, <1>3 DEF Settled, Only, Writing
<1>5. RequestHolds(o, req[o])'
  BY <1>1, <1>3, <1>4 DEF RequestHolds, Looking, Drawing
<1>6. status \in [Regs -> {"none", "ACTIVE", "BLOCKED", "removed"}]
  BY DEF FilesTyped
<1>7. QED
  BY <1>1, <1>2, <1>5, <1>6, BeginKeeps

LEMMA CleanupsKeep ==
  ASSUME FilesInv, NEW o \in Ops, RemoveEvent(o) \/ CleanupFiles(o) \/ CleanupOrphans(o)
  PROVE  FilesInv'
<1>1. EventFiles \in SUBSET (Files \cup Regs) /\ \A f \in EventFiles : Settled(f)
  BY Names DEF FilesInv, BasicInv
<1>2. Kept /\ UNCHANGED <<disk, named, lost, status>>
  BY DEF RemoveEvent, CleanupFiles, CleanupOrphans, unmoved, Kept, ticketVars
<1>3. CASE RemoveEvent(o)
  <2>1. Start(o, CleanupReq("event", "removeRows", EventFiles)) /\ swept' = swept
    BY <1>3 DEF RemoveEvent
  <2> QED BY <1>1, <1>2, <2>1, CleanupBegins
<1>4. CASE CleanupFiles(o)
  <2>1. Start(o, CleanupReq("event", "enqueue", EventFiles)) /\ swept' = swept \cup EventFiles
    BY <1>4 DEF CleanupFiles
  <2> QED BY <1>1, <1>2, <2>1, CleanupBegins
<1>5. CASE CleanupOrphans(o)
  <2>1. Start(o, CleanupReq("orphans", "enqueue", Orphans)) /\ swept' = swept
    BY <1>5 DEF CleanupOrphans
  <2>2. Orphans \subseteq Regs
    BY DEF Orphans, QrFiles
  <2>3. \A f \in Orphans : f \notin EventFiles
    BY <1>1, <2>2, Names DEF FilesInv, BasicInv
  <2>4. Orphans \in SUBSET (Files \cup Regs) /\ \A f \in Orphans : f \in Regs
    BY <2>2
  <2> QED BY <1>2, <2>1, <2>2, <2>3, <2>4, CleanupBegins
<1>6. QED
  BY <1>3, <1>4, <1>5

-----------------------------------------------------------------------------
(* Requests go on.                                                         *)

\* A request that has not stored its file has none on the disk.
LEMMA Unmade ==
  ASSUME FilesInv, NEW o \in Ops, req[o].at \in Writing,
         ~(req[o].at \in Looking \cup {"save"} /\ req[o].file = o)
  PROVE  o \notin disk \/ o \in lost \cup met
<1>1. ~Carried(o) /\ o \notin EventFiles /\ o \in Files
  BY FreshName DEF FilesInv, Carried, Files
<1>2. QED
  BY <1>1 DEF FilesInv, StrayInv, Explained, Away

\* The end of a request that leaves the rows.
LEMMA DoneKeeps ==
  ASSUME FilesInv, NEW o \in Ops, Done(o), Kept, UNCHANGED <<named, swept, met, status>>,
         lost \subseteq lost', disk' \subseteq disk,
         \A q \in Ops : q \in disk /\ ~Settled(q) => q \in disk',
         \A f \in EventFiles : f \in disk => f \in disk' \/ f \in named \cup swept,
         req[o].at \in Doing => \A f \in req[o].old \cap Files : f \notin disk' \/ f \in lost',
         req[o].at \in Looking \cup {"save"} /\ req[o].file = o => o \in lost' \cup met'
  PROVE  FilesInv'
<1>1. Only(o) /\ req'[o].at = "done" /\ req'[o].old = {} /\ req'[o].design = req[o].design
  BY DoneSets DEF FilesInv, BasicInv
<1>2. Ahead(o) /\ req'[o].at \notin Looking \cup Drawing \cup Doing
  BY <1>1 DEF Ahead, Writing, Looking, Drawing, Doing
<1>3. status \in [Regs -> {"none", "ACTIVE", "BLOCKED", "removed"}]
  BY DEF FilesInv, BasicInv, FilesTyped
<1>4. RequestHolds(o, req[o])'
  BY <1>1, <1>2 DEF RequestHolds
<1>5. BasicInv'
  BY <1>2, <1>3, <1>4, BasicStands DEF FilesInv
<1>6. NamedInv'
  BY <1>1, <1>2, HomesStand DEF FilesInv
<1>7. TicketInv'
  BY <1>1, <1>2, SnapsStand DEF FilesInv
<1>8. StrayInv'
  <2>1. Leaves(o)
    BY <1>1, <1>2 DEF Leaves
  <2>2. ASSUME ~Settled(o) PROVE Away(o)'
    <3>1. req[o].at \in Writing
      BY <2>2 DEF Settled
    <3>2. o \notin disk' \/ o \in lost' \cup met'
      BY <3>1, Unmade
    <3> QED BY <3>2 DEF Away
  <2>3. Aware(o, req[o])'
    BY <1>1, <1>2 DEF Aware
  <2> QED BY <1>1, <1>2, <2>1, <2>2, <2>3, StraysStand DEF FilesInv
<1>9. QED
  BY <1>5, <1>6, <1>7, <1>8 DEF FilesInv

\* The controllers delete the file of a body that is refused.
LEMMA RefuseKeeps ==
  ASSUME FilesInv, NEW o \in Ops, req[o].at \in Looking, Refuse(o), Kept,
         UNCHANGED <<disk, named, swept, met, lost, status>>
  PROVE  FilesInv'
<1>1. req[o].file \in Files \cup {None} /\ req[o] \in Reqs /\ LookHolds(o, req[o])
  BY DEF FilesInv, BasicInv, FilesTyped, Reqs, RequestHolds
<1>2. {req[o].file} \in SUBSET (Files \cup Regs \cup {None})
  BY <1>1
<1>3. /\ Only(o) /\ req'[o].at = "delete" /\ req'[o].old = {req[o].file} \ {None}
      /\ req'[o].on = req[o].on
  BY <1>2, DeleteSets DEF FilesInv, BasicInv, Refuse
<1>4. Ahead(o) /\ req'[o].at \notin Looking \cup Drawing
  BY <1>3 DEF Ahead, Writing, Looking, Drawing
<1>5. \A f : Settled(f) => Settled(f)'
  BY <1>4, OthersStand DEF FilesInv
<1>6. Settled(o)'
  BY <1>3 DEF Settled, Writing, Looking, Drawing
<1>7. RequestHolds(o, req[o])'
  <2>1. \A f \in req'[o].old : f = o \/ f \in named
    BY <1>1, <1>3 DEF LookHolds
  <2>2. \A f \in req'[o].old : Settled(f)'
    BY <1>5, <1>6, <2>1 DEF FilesInv, BasicInv, RowsHold
  <2> QED BY <1>3, <1>4, <2>2 DEF RequestHolds
<1>8. BasicInv'
  <2>1. status \in [Regs -> {"none", "ACTIVE", "BLOCKED", "removed"}]
    BY DEF FilesInv, BasicInv, FilesTyped
  <2> QED BY <1>4, <1>7, <2>1, BasicStands DEF FilesInv
<1>9. o \notin EventFiles
  BY FreshName DEF FilesInv, Writing
<1>10. NamedInv'
  <2>1. \A f \in req'[o].old : f \in named' \cup swept' \/ f \notin EventFiles
    BY <1>1, <1>3, <1>9 DEF LookHolds
  <2> QED BY <1>3, <1>4, <2>1, HomesStand DEF FilesInv
<1>11. TicketInv'
  BY <1>4, SnapsStand DEF FilesInv, Writing
<1>12. StrayInv'
  <2>1. Leaves(o)
    BY DEF Leaves, Looking, Doing
  <2>2. Away(o)'
    <3>1. CASE req[o].file = o
      BY <1>1, <1>3, <3>1, Names DEF Away, Carried, Doing, FilesInv, BasicInv
    <3>2. CASE req[o].file # o
      BY <3>2, Unmade DEF Away, Writing
    <3> QED BY <3>1, <3>2
  <2>3. Aware(o, req[o])'
    BY <1>3, <1>4 DEF Aware
  <2>4. o \in Busy
    BY DEF Busy, Looking
  <2> QED BY <1>3, <1>4, <2>1, <2>2, <2>3, <2>4, StraysStand DEF FilesInv
<1>13. QED
  BY <1>8, <1>10, <1>11, <1>12 DEF FilesInv

\* A request that has looked at its row remembers the image it will replace.
LEMMA LookedKeeps ==
  ASSUME FilesInv, NEW o \in Ops, req[o].at = "check", Kept,
         UNCHANGED <<disk, named, swept, met, lost, status>>,
         NEW old \in SUBSET {owner[req[o].row].image}, None \notin old, req[o].file \notin old,
         req' = [req EXCEPT ![o] = [req[o] EXCEPT !.at = "commit", !.old = old]],
         req[o].kind = "update" /\ req[o].file = None => old = {},
         \/ req[o].kind = "create" \/ (req[o].kind = "update" /\ req[o].file = None)
         \/ owner[req[o].row].image \in old \cup {None, req[o].file}
  PROVE  FilesInv'
<1> DEFINE r == [req[o] EXCEPT !.at = "commit", !.old = old]
<1>1. /\ req[o] \in Reqs /\ LookHolds(o, req[o]) /\ req \in [Ops -> Reqs]
      /\ owner \in [Owners -> OwnerRows]
  BY DEF FilesInv, BasicInv, FilesTyped, RequestHolds, Looking
<1>2. old \subseteq Files /\ \A f \in old : Settled(f) /\ Refers(f, req[o].row)
  BY <1>1 DEF OwnerRows, LookHolds, FilesInv, BasicInv, RowsHold, Gone, Refers
<1>3. /\ r \in Reqs /\ r.at = "commit" /\ r.old = old /\ r.row = req[o].row /\ r.on = req[o].on
      /\ r.kind = req[o].kind /\ r.file = req[o].file
  BY <1>1, <1>2 DEF Reqs, Steps, Writing, Looking
<1> HIDE DEF r
<1>4. Only(o) /\ req'[o] = r
  BY <1>1, <1>3 DEF Only, r
<1>5. Ahead(o) /\ req'[o].at \notin Drawing \cup Doing \cup {"save"} /\ req'[o].at \in Looking
  BY <1>3, <1>4 DEF Ahead, Writing, Looking, Drawing, Doing
<1>6. RequestHolds(o, req[o])'
  <2>1. \A f \in old : Settled(f)'
    BY <1>2, <1>5, OthersStand DEF FilesInv
  <2> QED BY <1>1, <1>3, <1>4, <2>1 DEF RequestHolds, LookHolds, Looking, Drawing
<1>7. BasicInv'
  <2>1. status \in [Regs -> {"none", "ACTIVE", "BLOCKED", "removed"}]
    BY DEF FilesInv, BasicInv, FilesTyped
  <2> QED BY <1>5, <1>6, <2>1, BasicStands DEF FilesInv
<1>8. NamedInv'
  <2>1. \A f \in Files : f \in r.old \cup {r.file} => Refers(f, r.row)
    BY <1>2, <1>3 DEF Refers, Looking
  <2>2. req[o].file = o => o \in disk
    BY DEF FilesInv, NamedInv, Stored, Looking
  <2> QED BY <1>3, <1>4, <1>5, <2>1, <2>2, HomesStand DEF FilesInv
<1>9. TicketInv'
  BY <1>5, SnapsStand DEF FilesInv, Writing, Looking
<1>10. StrayInv'
  <2>1. Leaves(o)
    BY DEF Leaves, Doing
  <2>2. Away(o)'
    <3>1. CASE req[o].file = o
      BY <1>3, <1>4, <1>5, <3>1 DEF Away, Carried
    <3>2. CASE req[o].file # o
      BY <3>2, Unmade DEF Away, Writing, Looking
    <3> QED BY <3>1, <3>2
  <2>3. Aware(o, req[o])'
    BY <1>3, <1>4, <1>5 DEF Aware, Kept
  <2>4. o \in Busy
    BY DEF Busy
  <2> QED BY <1>3, <1>4, <1>5, <2>1, <2>2, <2>3, <2>4, StraysStand DEF FilesInv
<1>11. QED
  BY <1>7, <1>8, <1>9, <1>10 DEF FilesInv

LEMMA CheckKeeps ==
  ASSUME FilesInv, NEW o \in Ops, Check(o), UNCHANGED ticketVars
  PROVE  FilesInv'
<1>1. /\ req[o].at = "check" /\ req[o].at \in Looking /\ LookHolds(o, req[o])
      /\ req \in [Ops -> Reqs] /\ owner \in [Owners -> OwnerRows]
      /\ Kept /\ UNCHANGED <<disk, named, swept, met, lost, status>>
  BY DEF Check, FilesInv, BasicInv, FilesTyped, RequestHolds, Looking, Kept, history, ticketVars
<1>2. req[o].row \in Owners /\ req[o].old = {} /\ req[o].file \in Files \cup {None}
  BY <1>1, Names DEF LookHolds, FilesInv, BasicInv, FilesTyped, Files
<1>3. ASSUME Done(o), req[o].kind \in {"removeImage", "remove"} PROVE FilesInv'
  <2>1. req[o].file = None
    BY <1>1, <1>3 DEF LookHolds
  <2>2. req[o].file # o
    BY <2>1, Names DEF FilesInv, BasicInv
  <2>3. req[o].at \notin Doing
    BY <1>1 DEF Doing
  <2> QED BY <1>1, <1>3, <2>2, <2>3, DoneKeeps
<1>4. ASSUME Refuse(o) PROVE FilesInv'
  BY <1>1, <1>4, RefuseKeeps
<1>5. ASSUME NEW old \in SUBSET {owner[req[o].row].image}, None \notin old, req[o].file \notin old,
             req' = [req EXCEPT ![o].at = "commit", ![o].old = old],
             req[o].kind = "update" /\ req[o].file = None => old = {},
             \/ req[o].kind = "create" \/ (req[o].kind = "update" /\ req[o].file = None)
             \/ owner[req[o].row].image \in old \cup {None, req[o].file}
      PROVE  FilesInv'
  <2>1. req' = [req EXCEPT ![o] = [req[o] EXCEPT !.at = "commit", !.old = old]]
    BY <1>5
  <2> QED BY <1>1, <1>5, <2>1, LookedKeeps
<1>6. CASE req[o].kind = "create" /\ CheckCreate(o)
  <2>1. CASE Goto(o, "commit")
    <3>1. [req[o] EXCEPT !.at = "commit"] = [req[o] EXCEPT !.at = "commit", !.old = {}]
      <4>1. req[o] \in Reqs
        BY <1>1
      <4> QED BY <1>2, <4>1 DEF Reqs
    <3>2. req' = [req EXCEPT ![o] = [req[o] EXCEPT !.at = "commit", !.old = {}]]
      <4>1. req' = [req EXCEPT ![o] = [req[o] EXCEPT !.at = "commit"]]
        BY <2>1 DEF Goto
      <4> QED BY <3>1, <4>1
    <3> QED BY <1>1, <1>6, <3>2, LookedKeeps
  <2> QED BY <1>4, <1>6, <2>1 DEF CheckCreate
<1>7. CASE req[o].kind = "update" /\ CheckUpdate(o)
  <2>1. CASE req' = [req EXCEPT ![o].at = "commit", ![o].old = Replaced(o)]
    <3>1. Replaced(o) \in SUBSET {owner[req[o].row].image} /\ None \notin Replaced(o)
          /\ req[o].file \notin Replaced(o)
          /\ (req[o].file = None => Replaced(o) = {})
          /\ (req[o].file # None => owner[req[o].row].image \in Replaced(o) \cup {None, req[o].file})
      BY DEF Replaced, OldImage
    <3> QED BY <1>5, <1>7, <2>1, <3>1
  <2> QED BY <1>4, <1>7, <2>1 DEF CheckUpdate
<1>8. OldImage(o) \in SUBSET {owner[req[o].row].image} /\ None \notin OldImage(o)
      /\ owner[req[o].row].image \in OldImage(o) \cup {None, req[o].file}
  BY DEF OldImage
<1>9. ASSUME req[o].kind \in {"removeImage", "remove"},
             req' = [req EXCEPT ![o].at = "commit", ![o].old = OldImage(o)]
      PROVE  FilesInv'
  <2>1. req[o].file \notin OldImage(o)
    BY <1>1, <1>8, <1>9 DEF LookHolds
  <2> QED BY <1>5, <1>8, <1>9, <2>1
<1>10. CASE req[o].kind = "removeImage" /\ CheckRemoveImage(o)
  BY <1>3, <1>9, <1>10 DEF CheckRemoveImage
<1>11. CASE req[o].kind = "remove" /\ CheckRemove(o)
  BY <1>3, <1>9, <1>11 DEF CheckRemove
<1>12. QED
  BY <1>6, <1>7, <1>10, <1>11 DEF Check

\* A ticket is made step by step.
LEMMA DrawnKeeps ==
  ASSUME FilesInv, NEW o \in Ops, Only(o), Kept, UNCHANGED <<named, swept, met, lost, status>>,
         req[o].at \in {"resolve", "draw", "render"}, req'[o].at \in Drawing, req'[o].on = req[o].on,
         disk \subseteq disk',
         \A f \in Files : f \in disk' => f \in disk \/ (f = o /\ req'[o].at = "save"),
         req'[o].at = "save" => req'[o].file = o /\ o \in disk',
         RequestHolds(o, req[o])', Aware(o, req[o])',
         Snap(req'[o].tpl, req'[o].ver, req'[o].design),
         \/ req[o].at \in Drawing /\ req'[o].old = req[o].old /\ req'[o].row = req[o].row
            /\ req'[o].tpl = req[o].tpl /\ req'[o].ver = req[o].ver
         \/ req'[o].old = PathsOf(req'[o].row, req'[o].tpl, req'[o].ver)
  PROVE  FilesInv'
<1>1. /\ Ahead(o) /\ req[o].at \in Writing /\ req'[o].at \notin Looking \cup Doing
      /\ req[o].at \notin Looking \cup {"save"} \cup Doing
  BY DEF Ahead, Writing, Looking, Drawing, Doing
<1>2. status \in [Regs -> {"none", "ACTIVE", "BLOCKED", "removed"}]
  BY DEF FilesInv, BasicInv, FilesTyped
<1>3. BasicInv'
  BY <1>1, <1>2, BasicStands DEF FilesInv
<1>4. NamedInv'
  BY <1>1, HomesStand DEF FilesInv
<1>5. TicketInv'
  BY <1>1, SnapsStand DEF FilesInv
<1>6. StrayInv'
  <2>1. Leaves(o)
    <3>1. ~Settled(o)
      BY <1>1 DEF Settled, FilesInv, BasicInv
    <3> QED BY <1>1, <3>1 DEF Leaves
  <2>2. Away(o)'
    <3>1. CASE req'[o].at = "save"
      BY <3>1 DEF Away, Carried
    <3>2. CASE req'[o].at # "save"
      BY <1>1, <3>2, Unmade DEF Away, Files
    <3> QED BY <3>1, <3>2
  <2>3. o \in Busy
    BY DEF Busy
  <2> QED BY <1>1, <2>1, <2>2, <2>3, StraysStand DEF FilesInv
<1>7. QED
  BY <1>3, <1>4, <1>5, <1>6 DEF FilesInv

\* A request that ends in the middle of making a ticket.
LEMMA FailKeeps ==
  ASSUME FilesInv, NEW o \in Ops, Done(o), req[o].at \in {"resolve", "draw", "render"}, Kept,
         UNCHANGED <<disk, history, status>>
  PROVE  FilesInv'
<1>1. req[o].at \notin Doing /\ req[o].at \notin Looking \cup {"save"}
  BY DEF Doing, Looking
<1>2. QED
  BY <1>1, DoneKeeps DEF history

LEMMA ResolveKeeps ==
  ASSUME FilesInv, NEW o \in Ops, Resolve(o)
  PROVE  FilesInv'
<1> DEFINE x == req[o].row
           t == owner[Template]
           paths == PathsOf(x, t.id, t.version)
<1>1. /\ req[o].at = "resolve" /\ Kept /\ UNCHANGED <<disk, history, status>>
      /\ UNCHANGED <<named, swept, met, lost>>
  BY DEF Resolve, Kept, history
<1>2. CASE Done(o)
  BY <1>1, <1>2, FailKeeps
<1>3. ASSUME event, status[x] = "ACTIVE", Template # None,
             req' = [req EXCEPT ![o].at = "draw", ![o].old = paths, ![o].tpl = t.id,
                                ![o].ver = t.version, ![o].design = t.design]
      PROVE  FilesInv'
  <2>1. /\ req[o] \in Reqs /\ req \in [Ops -> Reqs] /\ owner \in [Owners -> OwnerRows]
        /\ TicketHolds(o, req[o])
    BY <1>1 DEF FilesInv, BasicInv, FilesTyped, RequestHolds, Drawing
  <2>2. Template \in Scopes /\ Template \in Owners /\ t.present /\ t \in OwnerRows
    BY <1>3, <2>1 DEF Template, Scopes, Owners
  <2>3. Settled(t.id) /\ t.id \in Files
    BY <2>2 DEF FilesInv, BasicInv, RowsHold, Gone, Settled, Files
  <2>4. paths \subseteq Ops /\ \A p \in paths : Settled(p)
    BY DEF PathsOf, RowsOf, FilesInv, BasicInv, FilesTyped, TicketRows, RowsHold
  <2>5. paths \subseteq Files \cup Regs
    BY <2>4 DEF Files
  <2> DEFINE r == [req[o] EXCEPT !.at = "draw", !.old = paths, !.tpl = t.id,
                                 !.ver = t.version, !.design = t.design]
  <2>6. /\ r \in Reqs /\ r.at = "draw" /\ r.old = paths /\ r.tpl = t.id /\ r.ver = t.version
        /\ r.design = t.design /\ r.row = x /\ r.on = req[o].on /\ r.file = req[o].file
        /\ r.kind = req[o].kind
    <3> HIDE DEF paths, t
    <3> QED BY <2>1, <2>2, <2>3, <2>5 DEF Reqs, OwnerRows, Steps, Writing, Drawing, t
  <2>7. req' = [req EXCEPT ![o] = r]
    BY <1>3
  <2> HIDE DEF r
  <2>8. Only(o) /\ req'[o] = r
    BY <2>1, <2>6, <2>7 DEF Only
  <2>9. Ahead(o)
    BY <1>1, <2>8 DEF Ahead, Writing
  <2>10. \A f : Settled(f) => Settled(f)'
    BY <2>9, OthersStand DEF FilesInv
  <2>11. RequestHolds(o, req[o])'
    <3>1. \A p \in req'[o].old : Settled(p)'
      BY <2>4, <2>6, <2>8, <2>10
    <3>2. Settled(req[o].tpl)'
      BY <2>3, <2>6, <2>8, <2>10
    <3>3. r.file = None /\ r.row \in Regs /\ r.row \in r.on /\ Scopes \subseteq r.on
      BY <1>1, <2>1, <2>6 DEF TicketHolds
    <3> QED BY <2>6, <2>8, <3>1, <3>2, <3>3 DEF RequestHolds, TicketHolds, Looking, Drawing
  <2>12. Snap(t.id, t.version, t.design)
    BY <2>2 DEF Snap, FilesInv, TicketInv, Owners, OwnerRows
  <2>13. Aware(o, req[o])'
    <3>1. \A i \in images : i.reg = x /\ i.tpl = t.id /\ i.ver = t.version => i.path \in r.old
      BY <2>6 DEF PathsOf, RowsOf
    <3>2. \A i \in RowsOf(req[o].row, req[o].tpl, req[o].ver)' : i.path \in req'[o].old
      BY <1>1, <2>6, <2>8, <3>1 DEF RowsOf, Kept
    <3>3. status'[req'[o].row] # "removed" /\ \E w \in Scopes : owner'[w].id = req'[o].tpl
      BY <1>1, <1>3, <2>2, <2>6, <2>8 DEF Kept
    <3> QED BY <2>6, <2>8, <3>2, <3>3 DEF Aware, Drawing
  <2>14. req[o].at \in {"resolve", "draw", "render"} /\ req'[o].at \in Drawing /\ req'[o].at # "save"
         /\ req'[o].on = req[o].on
    BY <1>1, <2>6, <2>8 DEF Drawing
  <2>15. req'[o].old = PathsOf(req'[o].row, req'[o].tpl, req'[o].ver)
    BY <2>6, <2>8
  <2>16. Snap(req'[o].tpl, req'[o].ver, req'[o].design)
    BY <2>6, <2>8, <2>12
  <2>17. disk \subseteq disk' /\ \A f \in Files : f \in disk' => f \in disk
    BY <1>1
  <2> QED BY <1>1, <2>8, <2>11, <2>13, <2>14, <2>15, <2>16, <2>17, DrawnKeeps
<1>4. QED
  BY <1>2, <1>3 DEF Resolve, Fail

LEMMA NextDrawing ==
  ASSUME FilesInv, NEW o \in Ops, Only(o), Kept, UNCHANGED <<named, swept, met, lost, status>>,
         req[o].at \in {"draw", "render"}, req'[o].at \in Drawing,
         /\ req'[o].old = req[o].old /\ req'[o].row = req[o].row /\ req'[o].tpl = req[o].tpl
         /\ req'[o].ver = req[o].ver /\ req'[o].design = req[o].design /\ req'[o].on = req[o].on,
         req'[o].file = IF req'[o].at = "save" THEN o ELSE None,
         disk \subseteq disk',
         \A f \in Files : f \in disk' => f \in disk \/ (f = o /\ req'[o].at = "save"),
         req'[o].at = "save" => o \in disk'
  PROVE  FilesInv'
<1>1. /\ Ahead(o) /\ req[o].at \in Drawing /\ req[o].at \notin Looking \cup Doing
      /\ req'[o].at \notin Looking \cup Doing /\ RequestHolds(o, req[o]) /\ Aware(o, req[o])
      /\ TicketHolds(o, req[o]) /\ req[o].at \in Writing
  BY DEF Ahead, Writing, Looking, Drawing, Doing, FilesInv, BasicInv, StrayInv, RequestHolds
<1>2. \A f : Settled(f) => Settled(f)'
  BY <1>1, OthersStand DEF FilesInv
<1>3. RequestHolds(o, req[o])'
  <2>1. Settled(req[o].tpl) /\ \A f \in req[o].old : f \in Regs \/ Settled(f)
    BY <1>1 DEF TicketHolds, RequestHolds
  <2>2. Settled(req[o].tpl)' /\ \A f \in req'[o].old : f \in Regs \/ Settled(f)'
    BY <1>2, <2>1
  <2> QED BY <1>1, <2>2 DEF RequestHolds, TicketHolds, Drawing
<1>4. Leaves(o)
  <2>1. ~Settled(o)
    BY <1>1, Names DEF FilesInv, BasicInv
  <2> QED BY <1>1, <2>1 DEF Leaves
<1>5. \A i \in images : Away(i.path) => Away(i.path)'
  <2>1. \A i \in images : Settled(i.path) /\ i.path \in Files
    BY DEF FilesInv, BasicInv, RowsHold, Settled, Files
  <2> QED BY <1>1, <1>4, <2>1, AwayStands DEF FilesInv
<1>6. Aware(o, req[o])'
  <2>1. \A i \in images : i.reg = req[o].row /\ i.tpl = req[o].tpl /\ i.ver = req[o].ver
          => i.path \in req[o].old \/ Away(i.path)
    BY <1>1 DEF Aware, RowsOf
  <2>2. \A i \in RowsOf(req[o].row, req[o].tpl, req[o].ver)' :
          i.path \in req'[o].old \/ Away(i.path)'
    BY <1>5, <2>1 DEF RowsOf, Kept
  <2>3. \/ o \in lost \cup met
        \/ status[req[o].row] # "removed" /\ \E w \in Scopes : owner[w].id = req[o].tpl
    BY <1>1 DEF Aware
  <2>4. \/ o \in lost' \cup met'
        \/ status'[req'[o].row] # "removed" /\ \E w \in Scopes : owner'[w].id = req'[o].tpl
    BY <2>3 DEF Kept
  <2>5. req'[o].at \notin {"commit", "removeRows"}
    BY DEF Drawing
  <2> QED BY <2>2, <2>4, <2>5 DEF Aware
<1>7. Snap(req'[o].tpl, req'[o].ver, req'[o].design)
  BY <1>1 DEF FilesInv, TicketInv
<1>8. QED
  BY <1>1, <1>3, <1>6, <1>7, DrawnKeeps

LEMMA DrawKeeps ==
  ASSUME FilesInv, NEW o \in Ops, Draw(o)
  PROVE  FilesInv'
<1>1. /\ req[o].at = "draw" /\ Kept /\ UNCHANGED <<named, swept, met, lost, status>>
      /\ UNCHANGED history
  BY DEF Draw, Kept, history
<1>2. CASE Done(o) /\ disk' = disk
  BY <1>1, <1>2, FailKeeps
<1>3. CASE Goto(o, "render") /\ disk' = WithQr(req[o].row)
  <2>1. TicketHolds(o, req[o])
    BY <1>1 DEF FilesInv, BasicInv, RequestHolds, Drawing
  <2>2. disk' = disk \cup {req[o].row} /\ req[o].row \in Regs /\ req[o].row \notin Files
    BY <1>3, <2>1 DEF WithQr, TicketHolds, Files
  <2>3. /\ Only(o) /\ req'[o].at = "render" /\ req'[o].on = req[o].on
        /\ req'[o].row = req[o].row /\ req'[o].file = req[o].file /\ req'[o].old = req[o].old
        /\ req'[o].tpl = req[o].tpl /\ req'[o].ver = req[o].ver /\ req'[o].design = req[o].design
    BY <1>3, GotoSets DEF FilesInv, BasicInv, Steps, Writing, Drawing
  <2>4. req'[o].file = None /\ req'[o].at \in Drawing /\ req'[o].at # "save"
    BY <1>1, <2>1, <2>3 DEF TicketHolds, Drawing
  <2> QED BY <1>1, <2>2, <2>3, <2>4, NextDrawing
<1>4. QED
  BY <1>2, <1>3 DEF Draw, Fail

LEMMA RenderKeeps ==
  ASSUME FilesInv, NEW o \in Ops, Render(o)
  PROVE  FilesInv'
<1>1. /\ req[o].at = "render" /\ Kept /\ UNCHANGED <<named, swept, met, lost, status>>
      /\ UNCHANGED history
  BY DEF Render, Kept, history
<1>2. CASE Done(o) /\ disk' = disk
  BY <1>1, <1>2, FailKeeps
<1>3. CASE disk' = disk \cup {o} /\ req' = [req EXCEPT ![o].at = "save", ![o].file = o]
  <2> DEFINE r == [req[o] EXCEPT !.at = "save", !.file = o]
  <2>1. req[o] \in Reqs /\ req \in [Ops -> Reqs]
    BY DEF FilesInv, BasicInv, FilesTyped
  <2>2. /\ r \in Reqs /\ r.at = "save" /\ r.file = o /\ r.on = req[o].on
        /\ r.row = req[o].row /\ r.old = req[o].old
        /\ r.tpl = req[o].tpl /\ r.ver = req[o].ver /\ r.design = req[o].design
    BY <2>1 DEF Reqs, Steps, Writing, Drawing, Files
  <2>3. req' = [req EXCEPT ![o] = r]
    BY <1>3
  <2> HIDE DEF r
  <2>4. Only(o) /\ req'[o] = r
    BY <2>1, <2>2, <2>3 DEF Only
  <2>5. req'[o].at \in Drawing
    BY <2>2, <2>4 DEF Drawing
  <2>6. /\ req'[o].at = "save" /\ req'[o].file = o /\ req'[o].old = req[o].old
        /\ req'[o].row = req[o].row /\ req'[o].tpl = req[o].tpl /\ req'[o].ver = req[o].ver
        /\ req'[o].design = req[o].design /\ req'[o].on = req[o].on
    BY <2>2, <2>4
  <2>7. req'[o].file = IF req'[o].at = "save" THEN o ELSE None
    BY <2>6
  <2>8. disk \subseteq disk' /\ o \in disk' /\ \A f \in Files : f \in disk' => f \in disk \/ f = o
    BY <1>3
  <2> QED BY <1>1, <2>4, <2>5, <2>6, <2>7, <2>8, NextDrawing
<1>4. QED
  BY <1>2, <1>3 DEF Render, Fail

\* The rows a ticket would be saved for are gone: only if its request was met,
\* or its file given up with the registration.
LEMMA SaveFails ==
  ASSUME FilesInv, NEW o \in Ops, Save(o), UNCHANGED images, Done(o)
  PROVE  FilesInv'
<1>1. /\ req[o].at = "save" /\ Kept /\ UNCHANGED <<disk, named, swept, met, lost, status>>
  BY DEF Save, Kept, history
<1>2. CASE o \in lost \cup met
  <2>1. req[o].at \notin Doing
    BY <1>1 DEF Doing
  <2> QED BY <1>1, <1>2, <2>1, DoneKeeps
<1>3. CASE status[req[o].row] # "removed" /\ \E w \in Scopes : owner[w].id = req[o].tpl
  <2>1. req'[o].at = "done"
    BY DoneSets DEF FilesInv, BasicInv
  <2>2. Delete(o, req[o].old)
    BY <1>3, <2>1 DEF Save
  <2>3. req'[o].at = "delete"
    <3>1. req[o].old \in SUBSET (Files \cup Regs \cup {None})
      BY DEF FilesInv, BasicInv, FilesTyped, Reqs
    <3> QED BY <2>2, <3>1, DeleteSets DEF FilesInv, BasicInv
  <2> QED BY <2>1, <2>3
<1>4. QED
  <2>1. Aware(o, req[o])
    BY DEF FilesInv, StrayInv
  <2> QED BY <1>1, <1>2, <1>3, <2>1 DEF Aware, Drawing

-----------------------------------------------------------------------------
(* Files are deleted.                                                      *)

LEMMA EnqueueKeeps ==
  ASSUME FilesInv, NEW o \in Ops, Enqueue(o)
  PROVE  FilesInv'
<1>1. /\ req[o].at = "enqueue" /\ req[o].at \in Doing /\ Kept /\ RequestHolds(o, req[o])
      /\ UNCHANGED <<disk, named, swept, met, lost, status>>
  BY DEF Enqueue, Doing, Kept, history, ticketVars, FilesInv, BasicInv
<1>2. ASSUME NEW step \in {"queued", "delete"}, Goto(o, step) PROVE FilesInv'
  <2>1. step \in Steps
    BY DEF Steps, Doing
  <2>2. Only(o) /\ req'[o].at = step /\ req'[o].old = req[o].old /\ req'[o].on = req[o].on
    BY <1>2, <2>1, GotoSets DEF FilesInv, BasicInv
  <2>3. /\ Ahead(o) /\ req'[o].at \in Doing /\ req'[o].at \notin Looking \cup Drawing \cup {"save"}
        /\ req[o].at \notin Writing
    BY <1>1, <2>2 DEF Ahead, Writing, Looking, Drawing, Doing
  <2>4. Settled(o)
    BY <2>3 DEF Settled
  <2>5. status \in [Regs -> {"none", "ACTIVE", "BLOCKED", "removed"}]
    BY DEF FilesInv, BasicInv, FilesTyped
  <2>6. \A f : Settled(f) => Settled(f)'
    BY <2>3, OthersStand DEF FilesInv
  <2>7. RequestHolds(o, req[o])'
    BY <1>1, <2>2, <2>3, <2>6 DEF RequestHolds, Looking, Drawing
  <2>8. BasicInv'
    BY <1>1, <2>3, <2>5, <2>7, BasicStands DEF FilesInv
  <2>9. NamedInv'
    <3>1. \A f \in req'[o].old : f \in named' \cup swept' \/ f \notin EventFiles
      BY <1>1, <2>2 DEF FilesInv, NamedInv, Doomed
    <3>2. req'[o].at \notin Looking \cup {"save"} /\ req'[o].at \notin Drawing
      BY <2>3
    <3> QED BY <1>1, <2>3, <3>1, <3>2, HomesStand DEF FilesInv
  <2>10. TicketInv'
    <3>1. req'[o].design = req[o].design
      BY <1>2, <2>1, GotoSets DEF FilesInv, BasicInv
    <3> QED BY <1>1, <2>3, <3>1, SnapsStand DEF FilesInv
  <2>11. StrayInv'
    <3>1. Leaves(o)
      BY <1>1, <2>2, <2>3 DEF Leaves
    <3>2. Aware(o, req[o])'
      BY <2>2, <2>3 DEF Aware, Looking
    <3>3. o \in Busy
      BY <1>1 DEF Busy
    <3> QED BY <1>1, <2>2, <2>3, <2>4, <3>1, <3>2, <3>3, StraysStand DEF FilesInv
  <2> QED BY <2>8, <2>9, <2>10, <2>11 DEF FilesInv
<1>3. CASE req[o].kind = "orphans" /\ Done(o)
  <2>1. req[o].old \cap Files = {}
    BY <1>1, <1>3, Names DEF RequestHolds, FilesInv, BasicInv
  <2>2. req[o].at \notin Looking \cup {"save"}
    BY <1>1 DEF Looking
  <2> QED BY <1>1, <1>3, <2>1, <2>2, DoneKeeps
<1>4. QED
  BY <1>2, <1>3 DEF Enqueue

\* A file that is named is never deleted, but for those the history tells of.
LEMMA UnlinkKeeps ==
  ASSUME FilesInv, NEW o \in Ops, Unlink(o), req[o].at \in {"delete", "queued"}, UNCHANGED ticketVars
  PROVE  FilesInv'
<1>1. /\ Done(o) /\ Kept /\ UNCHANGED <<named, swept, met, status>> /\ req[o].at \in Doing
      /\ req[o].at \notin Looking \cup {"save"} /\ RequestHolds(o, req[o])
  BY DEF Unlink, Kept, ticketVars, Doing, Looking, FilesInv, BasicInv
<1>2. /\ disk' \subseteq disk /\ lost \subseteq lost' /\ \A f \in disk : f \in disk' \/ f \in req[o].old
      /\ \A f \in req[o].old : f \notin disk' \/ f \in lost'
  BY DEF Unlink
<1>3. \A q \in Ops : q \in req[o].old => Settled(q)
  BY <1>1, Names DEF RequestHolds, FilesInv, BasicInv, Files
<1>4. \A f \in req[o].old : f \in named \cup swept \/ f \notin EventFiles
  BY <1>1 DEF FilesInv, NamedInv, Doomed
<1>5. QED
  BY <1>1, <1>2, <1>3, <1>4, DoneKeeps

LEMMA CrashKeeps ==
  ASSUME FilesInv, NEW o \in Ops, CrashTicket(o)
  PROVE  FilesInv'
<1>1. /\ Done(o) /\ Kept /\ UNCHANGED <<disk, named, swept, met, status>>
      /\ lost' = lost \cup req[o].old \cup ({req[o].file} \ {None})
  BY DEF CrashTicket, Crash, Kept
<1>2. req[o].file = o => o \in lost'
  BY <1>1, Names DEF FilesInv, BasicInv
<1>3. QED
  BY <1>1, <1>2, DoneKeeps

-----------------------------------------------------------------------------
(* A row is written.                                                       *)

\* What the writes of a row have in common: v is the row that is written.
Commits(o, v) ==
  LET w == req[o].row
      f == req[o].file
  IN
  /\ req[o].at = "commit" /\ v \in OwnerRows /\ owner' = [owner EXCEPT ![w] = v]
  /\ UNCHANGED <<event, images, disk, named, swept, met, lost, status>>
  /\ Only(o) /\ req'[o].at \in {"done", "delete"}
  /\ req'[o].at = "delete" => req'[o].on = req[o].on /\ req'[o].old = req[o].old
  /\ req'[o].at = "done" => req'[o].old = {} /\ req[o].kind = "create"
  /\ \/ v = Gone
     \/ /\ v.present /\ event
        /\ \/ v.id = o
           \/ /\ owner[w].present /\ v.id = owner[w].id
              /\ w \in Scopes => v.version = owner[w].version + 1
  /\ v.image \in {None, f} \/ (v.image = owner[w].image /\ req[o].old = {})
  /\ f # None => v.image = f
  /\ \/ owner[w].image \in {None, v.image}
     \/ req[o].kind # "create" /\ ~(req[o].kind = "update" /\ f = None)

LEMMA CommitFacts ==
  ASSUME FilesInv, NEW o \in Ops, NEW v, Commits(o, v)
  PROVE  /\ Ahead(o) /\ Leaves(o) /\ o \in Busy /\ LookHolds(o, req[o])
         /\ req[o].row \in Owners /\ owner' \in [Owners -> OwnerRows]
         /\ ~Settled(o) /\ Settled(o)' /\ (\A f : Settled(f) => Settled(f)')
         /\ req'[o].at \notin Looking \cup Drawing \cup {"removeRows", "save"}
         /\ owner'[req[o].row] = v /\ \A x \in Owners \ {req[o].row} : owner'[x] = owner[x]
         /\ v.image = None \/ (v.image \in Files /\ Refers(v.image, req[o].row))
<1>1. Ahead(o) /\ Leaves(o) /\ o \in Busy
  BY DEF Commits, Ahead, Leaves, Writing, Looking, Drawing, Doing, Busy
<1>2. LookHolds(o, req[o]) /\ req[o].row \in Owners /\ owner \in [Owners -> OwnerRows]
  BY DEF Commits, FilesInv, BasicInv, FilesTyped, RequestHolds, LookHolds, Looking
<1>3. ~Settled(o)
  <2>1. req[o].at \in Writing
    BY DEF Commits, Writing, Looking
  <2> QED BY <2>1, Names DEF FilesInv, BasicInv
<1>4. Settled(o)' /\ req'[o].at \notin Looking \cup Drawing \cup {"removeRows", "save"}
  BY DEF Commits, Settled, Writing, Looking, Drawing
<1>5. \A f : Settled(f) => Settled(f)'
  BY <1>1, OthersStand DEF FilesInv
<1>6. /\ owner' \in [Owners -> OwnerRows] /\ owner'[req[o].row] = v
      /\ \A x \in Owners \ {req[o].row} : owner'[x] = owner[x]
  BY <1>2 DEF Commits
<1>7. v.image = None \/ (v.image \in Files /\ Refers(v.image, req[o].row))
  BY <1>2 DEF Commits, OwnerRows, Refers, Looking
<1>8. QED
  BY <1>1, <1>2, <1>3, <1>4, <1>5, <1>6, <1>7

\* No name is in rows that was not, but that of the request.
LEMMA CommitNames ==
  ASSUME FilesInv, NEW o \in Ops, NEW v, Commits(o, v)
  PROVE  /\ \A f \in EventFiles' : f \in EventFiles \/ f = v.image
         /\ \A f \in EventFiles : f \in EventFiles' \/ f = owner[req[o].row].image
         /\ v.image # None => v.image \in EventFiles'
         /\ \A f \in EventFiles' : f \in Files /\ f # None
<1>1. /\ \A w \in Owners : owner[w].image # None => owner[w].present
      /\ v.image # None => v.present
  BY DEF FilesInv, BasicInv, RowsHold, Gone, Commits
<1>2. /\ owner'[req[o].row] = v /\ req[o].row \in Owners /\ images' = images
      /\ \A x \in Owners \ {req[o].row} : owner'[x] = owner[x]
  BY CommitFacts DEF Commits
<1>3. \A f \in EventFiles : f \in Files /\ f # None
  BY Names DEF FilesInv, BasicInv
<1>4. \A f \in EventFiles' : f \in EventFiles \/ (f = v.image /\ f # None)
  BY <1>1, <1>2 DEF EventFiles
<1>5. v.image = None \/ v.image \in Files
  BY CommitFacts
<1>6. /\ \A f \in EventFiles : f \in EventFiles' \/ f = owner[req[o].row].image
      /\ v.image # None => v.image \in EventFiles'
  BY <1>1, <1>2 DEF EventFiles
<1>7. QED
  BY <1>3, <1>4, <1>5, <1>6

LEMMA CommitBasic ==
  ASSUME FilesInv, NEW o \in Ops, NEW v, Commits(o, v)
  PROVE  BasicInv'
<1> USE DEF FilesInv, BasicInv
<1>1. /\ Ahead(o) /\ LookHolds(o, req[o]) /\ RequestHolds(o, req[o])
      /\ req[o].row \in Owners /\ owner' \in [Owners -> OwnerRows]
      /\ Settled(o)' /\ (\A f : Settled(f) => Settled(f)')
      /\ req'[o].at \notin Looking \cup Drawing \cup {"removeRows", "save"}
      /\ owner'[req[o].row] = v /\ \A x \in Owners \ {req[o].row} : owner'[x] = owner[x]
  BY CommitFacts
<1>2. FilesTyped'
  BY <1>1 DEF FilesTyped, Commits, Ahead, Only
<1>3. RowsHold'
  <2>1. ASSUME NEW w \in Owners
        PROVE  \/ owner'[w] = Gone
               \/ /\ owner'[w].present /\ Settled(owner[w].id)'
                  /\ owner'[w].image = None \/ Settled(owner[w].image)'
    <3>1. CASE w # req[o].row
      <4>1. owner'[w] = owner[w]
        BY <1>1, <3>1
      <4>2. \/ owner[w] = Gone
            \/ /\ owner[w].present /\ Settled(owner[w].id)
               /\ owner[w].image = None \/ Settled(owner[w].image)
        BY DEF RowsHold
      <4> QED BY <1>1, <4>1, <4>2
    <3>2. CASE w = req[o].row /\ v # Gone
      <4>1. v.present /\ (v.id = o \/ Settled(v.id))
        <5>1. v.present /\ (v.id = o \/ (owner[w].present /\ v.id = owner[w].id))
          BY <3>2 DEF Commits
        <5>2. owner[w].present => Settled(owner[w].id)
          BY DEF RowsHold, Gone
        <5> QED BY <5>1, <5>2
      <4>2. v.image = None \/ v.image = o \/ Settled(v.image)
        <5>1. v.image \in {None, o} \cup named \cup {owner[w].image}
          BY <1>1, <3>2 DEF Commits, LookHolds
        <5>2. \A f \in named : Settled(f)
          BY DEF RowsHold
        <5>3. owner[w].image = None \/ Settled(owner[w].image)
          BY DEF RowsHold, Gone
        <5> QED BY <5>1, <5>2, <5>3
      <4> QED BY <1>1, <3>2, <4>1, <4>2
    <3> QED BY <1>1, <3>1, <3>2
  <2>2. \A i \in images : Settled(i.path)' /\ Settled(i.tpl)'
    BY <1>1 DEF RowsHold
  <2>3. ~event' => images' = {} /\ \A w \in Owners : ~owner'[w].present
    <3>1. ~event => v = Gone
      BY DEF Commits
    <3>2. ~event => images = {} /\ \A w \in Owners : ~owner[w].present
      BY DEF RowsHold
    <3> QED BY <1>1, <3>1, <3>2 DEF Commits, Gone
  <2>4. \A f \in named : Settled(f)'
    BY <1>1 DEF RowsHold
  <2> QED BY <2>1, <2>2, <2>3, <2>4 DEF RowsHold, Commits
<1>4. RequestHolds(o, req[o])'
  <2>1. \A f \in req'[o].old : f \in req[o].old
    BY DEF Commits
  <2>2. \A f \in req'[o].old : f \in Regs \/ Settled(f)'
    BY <1>1, <2>1 DEF RequestHolds
  <2>3. req'[o].at \notin {"enqueue", "resolve"}
    BY DEF Commits
  <2> QED BY <1>1, <2>2, <2>3 DEF RequestHolds
<1>5. \A q \in Ops \ {o} : RequestHolds(q, req[q])'
  BY <1>1, OthersStand
<1>6. QED
  BY <1>2, <1>3, <1>4, <1>5

LEMMA CommitNamed ==
  ASSUME FilesInv, NEW o \in Ops, NEW v, Commits(o, v)
  PROVE  NamedInv'
<1> DEFINE w == req[o].row
<1>1. /\ Ahead(o) /\ LookHolds(o, req[o]) /\ w \in Owners
      /\ req'[o].at \notin Looking \cup Drawing \cup {"removeRows", "save"}
      /\ owner'[w] = v /\ \A x \in Owners \ {w} : owner'[x] = owner[x]
      /\ v.image = None \/ (v.image \in Files /\ Refers(v.image, w))
  BY CommitFacts
<1>2. /\ \A q \in Ops \ {o} : req'[q] = req[q]
      /\ images' = images /\ disk' = disk /\ named' = named /\ swept' = swept
  BY <1>1 DEF Ahead, Only, Commits
<1>3. \A f \in Files, x \in Owners : Refers(f, x)' => Refers(f, x)
  <2> HIDE DEF w
  <2>1. None \notin Files
    BY Names DEF FilesInv, BasicInv
  <2> QED BY <1>1, <1>2, <2>1 DEF Refers
<1>4. \A f \in EventFiles' : f \in EventFiles \/ f = v.image
  BY CommitNames
<1>5. v.image # None /\ v.image \notin EventFiles => v.image \in named \cup {o}
  <2>1. v.image \in {None, req[o].file, owner[w].image}
    BY DEF Commits
  <2>2. owner[w].image # None => owner[w].image \in EventFiles
    BY <1>1, InRows DEF FilesInv, BasicInv
  <2> QED BY <1>1, <2>1, <2>2 DEF LookHolds
<1>6. v.image = o => o \in disk
  <2>1. ASSUME v.image = o PROVE req[o].file = o
    <3>1. owner[w].image = o => o \in EventFiles
      BY <1>1, InRows, Names DEF FilesInv, BasicInv
    <3>2. o \notin EventFiles /\ o # None
      BY FreshName, Names DEF FilesInv, BasicInv, Commits, Writing, Looking
    <3> QED BY <2>1, <3>1, <3>2 DEF Commits
  <2> QED BY <2>1 DEF FilesInv, NamedInv, Stored, Commits, Looking
<1>7. OneHome'
  <2> SUFFICES ASSUME NEW f \in Files, NEW x \in Owners, NEW y \in Owners, Refers(f, x)', Refers(f, y)'
               PROVE  x = y
    BY DEF OneHome
  <2> QED BY <1>3 DEF FilesInv, NamedInv, OneHome
<1>8. PathsApart'
  <2>1. \A i \in images : i.path \in Files
    BY DEF FilesInv, BasicInv, FilesTyped, TicketRows, Files
  <2>2. ASSUME NEW i \in images, NEW x \in Owners PROVE ~Refers(i.path, x)'
    BY <1>3, <2>1 DEF FilesInv, NamedInv, PathsApart
  <2>3. ASSUME NEW q \in Ops, req'[q].at \in Drawing, NEW p \in req'[q].old
        PROVE  /\ p \in Ops /\ \A x \in Owners : ~Refers(p, x)'
               /\ \A i \in images : i.path = p => i \in RowsOf(req[q].row, req[q].tpl, req[q].ver)'
    <3>1. req'[q] = req[q]
      BY <1>1, <1>2, <2>3
    <3>2. /\ p \in Ops /\ \A x \in Owners : ~Refers(p, x)
          /\ \A i \in images : i.path = p => i \in RowsOf(req[q].row, req[q].tpl, req[q].ver)
      BY <2>3, <3>1 DEF FilesInv, NamedInv, PathsApart
    <3> QED BY <1>2, <1>3, <3>1, <3>2 DEF RowsOf, Files
  <2>4. \A i, j \in images : i.path = j.path => i = j
    BY DEF FilesInv, NamedInv, PathsApart
  <2> QED BY <1>2, <2>2, <2>3, <2>4 DEF PathsApart
<1>9. Stored'
  <2>1. \A q \in Ops : req'[q].at \in Looking \cup {"save"} => q # o
    BY <1>1
  <2> QED BY <1>2, <2>1 DEF FilesInv, NamedInv, Stored
<1>10. Doomed'
  <2> SUFFICES ASSUME NEW q \in Ops, req'[q].at \in Doing, NEW f \in req'[q].old, f \in EventFiles'
               PROVE  f \in named \cup swept
    BY <1>2 DEF Doomed
  <2>1. CASE q # o
    <3>1. f \in named \cup swept \/ f \notin EventFiles
      BY <1>2, <2>1 DEF FilesInv, NamedInv, Doomed
    <3>2. f # o
      BY <1>2, <2>1, FreshName DEF FilesInv, Commits, Writing, Looking
    <3>3. f # None
      BY DEF FilesInv, BasicInv, FilesTyped, Reqs, Files, Commits, Only
    <3> QED BY <1>4, <1>5, <3>1, <3>2, <3>3
  <2>2. CASE q = o
    <3>1. f \in req[o].old
      BY <2>2 DEF Commits
    <3>2. f \in Files
      BY CommitNames
    <3>3. Refers(f, w)
      BY <3>1 DEF Refers, Commits, Looking
    <3>4. f # v.image
      BY <1>1, <3>1, Names DEF Commits, LookHolds, Looking, FilesInv, BasicInv
    <3>5. \A x \in Owners : owner[x].image = f => x = w
      BY <1>1, <3>2, <3>3 DEF FilesInv, NamedInv, OneHome, Refers
    <3>6. \A i \in images : i.path # f
      BY <1>1, <3>3 DEF FilesInv, NamedInv, PathsApart
    <3>7. f \notin EventFiles'
      <4> HIDE DEF w
      <4> QED BY <1>1, <1>2, <3>4, <3>5, <3>6 DEF EventFiles
    <3> QED BY <3>7
  <2> QED BY <2>1, <2>2
<1>11. NamedFilesExist'
  <2>1. \A f \in EventFiles : f \in disk \cup swept \cup named
    BY DEF FilesInv, NamedInv, NamedFilesExist, RowFiles
  <2>2. \A f \in EventFiles' : f # None
    BY CommitNames
  <2>3. \A f \in EventFiles' : f \in disk \cup swept \cup named
    BY <1>4, <1>5, <1>6, <2>1, <2>2
  <2> QED BY <1>2, <2>3 DEF NamedFilesExist, RowFiles
<1>12. QED
  BY <1>7, <1>8, <1>9, <1>10, <1>11 DEF NamedInv

\* A template changes with its version, or is another one.
LEMMA CommitTicket ==
  ASSUME FilesInv, NEW o \in Ops, NEW v, Commits(o, v)
  PROVE  TicketInv'
<1> DEFINE w == req[o].row
<1>1. /\ Ahead(o) /\ w \in Owners /\ ~Settled(o) /\ Settled(o)'
      /\ req'[o].at \notin Looking \cup Drawing \cup {"removeRows", "save"}
      /\ owner'[w] = v /\ \A x \in Owners \ {w} : owner'[x] = owner[x]
      /\ owner \in [Owners -> OwnerRows]
  BY CommitFacts DEF FilesInv, BasicInv, FilesTyped
<1>2. (\A q \in Ops \ {o} : req'[q] = req[q]) /\ images' = images
  BY <1>1 DEF Ahead, Only, Commits
<1>3. v = Gone \/ v.id = o \/ (owner[w].present /\ v.id = owner[w].id
                                /\ (w \in Scopes => v.version = owner[w].version + 1))
  BY DEF Commits
<1>4. \A x \in Owners : owner[x].present => owner[x].id # o
  BY <1>1 DEF FilesInv, BasicInv, RowsHold, Gone
<1> HIDE DEF w
<1>5. \A x, y \in Owners : owner'[x].present /\ owner'[y].present /\ owner'[x].id = owner'[y].id => x = y
  BY <1>1, <1>3, <1>4 DEF FilesInv, TicketInv, Gone
<1>6. ASSUME NEW tpl, Settled(tpl), NEW ver \in Nat, NEW design, Snap(tpl, ver, design)
      PROVE  \A x \in Scopes : owner'[x].present /\ owner'[x].id = tpl =>
               ver <= owner'[x].version /\ (ver = owner'[x].version => design = owner'[x].design)
  <2> SUFFICES ASSUME NEW x \in Scopes, owner'[x].present, owner'[x].id = tpl
               PROVE  ver <= owner'[x].version /\ (ver = owner'[x].version => design = owner'[x].design)
    OBVIOUS
  <2>1. x \in Owners
    BY DEF Owners
  <2>2. CASE x # w
    BY <1>1, <1>6, <2>1, <2>2 DEF Snap
  <2>3. CASE x = w
    <3>1. tpl # o
      BY <1>1, <1>6
    <3>2. owner[w].present /\ v.id = owner[w].id /\ v.version = owner[w].version + 1
      BY <1>1, <1>3, <2>3, <3>1 DEF Gone
    <3>3. ver <= owner[w].version /\ owner[w].version \in Nat
      BY <1>1, <1>6, <2>3, <3>2 DEF Snap, OwnerRows
    <3> QED BY <1>1, <2>3, <3>2, <3>3
  <2> QED BY <2>2, <2>3
<1>7. ASSUME NEW i \in images PROVE Snap(i.tpl, i.ver, req[i.path].design)'
  <2>1. /\ Settled(i.path) /\ Settled(i.tpl) /\ i.ver \in Nat /\ i.path \in Ops
        /\ Snap(i.tpl, i.ver, req[i.path].design)
    BY DEF FilesInv, BasicInv, FilesTyped, TicketRows, RowsHold, TicketInv
  <2>2. req'[i.path] = req[i.path]
    BY <1>1, <1>2, <2>1
  <2> QED BY <1>6, <2>1, <2>2 DEF Snap
<1>8. ASSUME NEW q \in Ops, req'[q].at \in Drawing
      PROVE  Snap(req[q].tpl, req[q].ver, req[q].design)'
  <2>1. req'[q] = req[q] /\ q # o
    BY <1>1, <1>2, <1>8
  <2>2. Settled(req[q].tpl) /\ req[q].ver \in Nat /\ Snap(req[q].tpl, req[q].ver, req[q].design)
    BY <1>8, <2>1 DEF FilesInv, BasicInv, FilesTyped, Reqs, RequestHolds, TicketHolds, Drawing, TicketInv
  <2>3. \A x \in Scopes : owner'[x].present /\ owner'[x].id = req[q].tpl =>
          /\ req[q].ver <= owner'[x].version
          /\ req[q].ver = owner'[x].version => req[q].design = owner'[x].design
    BY <1>6, <2>2
  <2> QED BY <2>1, <2>3 DEF Snap
<1>9. QED
  BY <1>2, <1>5, <1>7, <1>8 DEF TicketInv

\* A name that comes into the row is known to those who look at the row, or away.
LEMMA CommitStrays ==
  ASSUME FilesInv, NEW o \in Ops, NEW v, Commits(o, v)
  PROVE  StrayInv'
<1> DEFINE w == req[o].row
<1>1. /\ Ahead(o) /\ Leaves(o) /\ o \in Busy /\ LookHolds(o, req[o]) /\ w \in Owners
      /\ ~Settled(o) /\ Settled(o)'
      /\ req'[o].at \notin Looking \cup Drawing \cup {"removeRows", "save"}
      /\ owner'[w] = v /\ (\A x \in Owners \ {w} : owner'[x] = owner[x])
      /\ (v.image = None \/ (v.image \in Files /\ Refers(v.image, w)))
  BY CommitFacts
<1>2. /\ (\A q \in Ops \ {o} : req'[q] = req[q])
      /\ images' = images /\ disk' = disk /\ met' = met /\ lost' = lost /\ status' = status
  BY <1>1 DEF Ahead, Only, Commits
<1>3. /\ (\A f \in EventFiles' : f \in EventFiles \/ f = v.image)
      /\ (\A f \in EventFiles : f \in EventFiles' \/ f = owner[w].image)
      /\ (v.image # None => v.image \in EventFiles')
      /\ (\A f \in EventFiles' : f \in Files /\ f # None)
  BY CommitNames
<1>4. \A f \in Files : (f # o \/ Settled(f)) /\ Away(f) => Away(f)'
  BY <1>1, AwayStands DEF FilesInv
<1>5. (\A f \in EventFiles : f \in Files /\ Settled(f) /\ f # None) /\ None \notin Files
  BY Names DEF FilesInv, BasicInv
<1>6. \A q \in Busy \ {o} : req[q].on \cap req[o].on # {} => q \in met /\ o \in met
  BY <1>1 DEF FilesInv, StrayInv, Overlap
<1>7. Aware(o, req[o]) /\ req[o].at = "commit"
  BY DEF FilesInv, StrayInv, Commits
<1>8. owner[w].image # None => owner[w].image \in EventFiles /\ owner[w].image \in Files /\ Settled(owner[w].image)
  BY <1>1, <1>5, InRows DEF FilesInv, BasicInv
\* What the row named.
<1>9. ASSUME NEW g \in Files, g = owner[w].image PROVE g = v.image \/ Away(g)'
  <2> SUFFICES ASSUME g # v.image PROVE Away(g)'
    OBVIOUS
  <2>1. g # None /\ g # req[o].file
    BY <1>5, <1>9 DEF Commits
  <2>2. req[o].kind # "create" /\ (g \in req[o].old \/ Away(g))
    BY <1>7, <1>9, <2>1 DEF Aware, Commits
  <2>3. CASE g \in req[o].old
    <3>1. req'[o].at = "delete" /\ req'[o].old = req[o].old
      BY <2>2 DEF Commits
    <3> QED BY <2>3, <3>1 DEF Away, Carried, Doing
  <2>4. CASE Away(g)
    BY <1>1, <1>4, <1>8, <1>9, <2>1, <2>4
  <2> QED BY <2>2, <2>3, <2>4
<1>10. Explained'
  <2> SUFFICES ASSUME NEW f \in Files, f \notin EventFiles' PROVE Away(f)'
    BY DEF Explained
  <2>1. CASE f \in EventFiles
    BY <1>3, <1>5, <1>9, <2>1
  <2>2. CASE f \notin EventFiles /\ f # o
    BY <1>4, <2>2 DEF FilesInv, StrayInv, Explained
  <2>3. CASE f = o
    <3>1. req[o].file # o
      BY <1>3, <1>5, <2>3 DEF Commits
    <3>2. o \notin disk \/ o \in lost \cup met
      BY <1>7, <3>1, Unmade DEF Writing, Looking
    <3> QED BY <1>2, <2>3, <3>2 DEF Away
  <2> QED BY <2>1, <2>2, <2>3
\* What the row names now: the request's own file, one that was there, or one away.
<1>11. ASSUME NEW g \in Files, g = v.image, g # o, g # owner[w].image PROVE Away(g)'
  <2>1. Refers(g, w)
    BY <1>1, <1>5, <1>11
  <2>2. \A x \in Owners : owner[x].image # g
    BY <1>1, <1>11, <2>1 DEF FilesInv, NamedInv, OneHome, Refers
  <2>3. \A i \in images : i.path # g
    BY <1>1, <2>1 DEF FilesInv, NamedInv, PathsApart
  <2>4. g \notin EventFiles
    BY <1>5, <2>2, <2>3, InRows DEF FilesInv, BasicInv
  <2>5. Away(g)
    BY <2>4 DEF FilesInv, StrayInv, Explained
  <2> QED BY <1>4, <1>11, <2>5
<1>12. o \in met => Away(o)'
  BY <1>2 DEF Away
<1>13. Overlap'
  <2>1. \A q \in Busy' : q \in Busy /\ req'[q].on = req[q].on
    <3>1. o \in Busy' => req'[o].at = "delete"
      BY DEF Busy, Commits
    <3> QED BY <1>1, <1>2, <3>1 DEF Busy, Commits
  <2> QED BY <1>2, <2>1 DEF FilesInv, StrayInv, Overlap
<1>14. ASSUME NEW q \in Ops PROVE Aware(q, req[q])'
  <2>1. CASE q = o
    <3>1. req'[o].at \notin {"commit", "removeRows"} \cup Drawing
      BY <1>1 DEF Looking
    <3> QED BY <2>1, <3>1 DEF Aware
  <2>2. CASE q # o
    <3>1. req'[q] = req[q] /\ Aware(q, req[q]) /\ RequestHolds(q, req[q])
      BY <1>2, <2>2 DEF FilesInv, StrayInv, BasicInv
    <3>2. ASSUME req[q].at = "commit", req[q].kind # "create",
                 ~(req[q].kind = "update" /\ req[q].file = None)
          PROVE  \/ owner'[req[q].row].image = None
                 \/ owner'[req[q].row].image \in req[q].old \cup {req[q].file}
                 \/ Away(owner[req[q].row].image)'
      <4>1. req[q].row \in Owners /\ req[q].row \in req[q].on /\ q \in Busy
        BY <3>1, <3>2 DEF RequestHolds, LookHolds, Looking, Busy
      <4>2. \/ owner[req[q].row].image = None
            \/ owner[req[q].row].image \in req[q].old \cup {req[q].file}
            \/ Away(owner[req[q].row].image)
        BY <3>1, <3>2 DEF Aware
      <4>3. owner[req[q].row].image # None =>
              owner[req[q].row].image \in Files /\ Settled(owner[req[q].row].image)
        BY <1>5, <4>1, InRows DEF FilesInv, BasicInv
      <4>4. ASSUME NEW g \in Files, g = owner'[req[q].row].image
            PROVE  g \in req[q].old \cup {req[q].file} \/ Away(g)'
        <5>1. CASE g = owner[req[q].row].image
          <6>1. g \in req[q].old \cup {req[q].file} \/ Away(g)
            BY <1>5, <4>2, <4>4, <5>1
          <6>2. Settled(g)
            BY <1>5, <4>3, <4>4, <5>1
          <6> QED BY <1>4, <4>4, <6>1, <6>2
        <5>2. CASE g # owner[req[q].row].image
          <6>1. req[q].row = w /\ g = v.image /\ g # None
            BY <1>1, <1>5, <4>1, <4>4, <5>2
          <6>2. o \in met
            BY <1>1, <1>6, <2>2, <4>1, <6>1 DEF LookHolds
          <6> QED BY <1>11, <1>12, <4>4, <5>2, <6>1, <6>2
        <5> QED BY <5>1, <5>2
      <4>5. owner'[req[q].row].image = None \/ owner'[req[q].row].image \in Files
        BY <1>1, <1>8, <4>1, <4>3
      <4> QED BY <3>1, <4>4, <4>5 DEF Away, Carried
    <3>3. ASSUME req[q].at = "removeRows", NEW g \in EventFiles', g \notin req[q].old
          PROVE  Away(g)'
      <4>1. q \in Busy /\ req[q].on = Owners \cup Regs
        BY <3>1, <3>3 DEF RequestHolds, Busy
      <4>2. o \in met
        BY <1>1, <1>6, <2>2, <4>1 DEF LookHolds
      <4>3. CASE g \in EventFiles
        <5>1. Away(g)
          BY <3>1, <3>3, <4>3 DEF Aware
        <5> QED BY <1>1, <1>4, <1>5, <4>3, <5>1
      <4>4. CASE g \notin EventFiles
        <5>1. g = v.image /\ g \in Files /\ g # owner[w].image
          BY <1>3, <1>8, <3>3, <4>4
        <5> QED BY <1>11, <1>12, <4>2, <5>1
      <4> QED BY <4>3, <4>4
    <3>4. ASSUME req[q].at \in Drawing
          PROVE  /\ \A i \in RowsOf(req[q].row, req[q].tpl, req[q].ver)' :
                      i.path \in req[q].old \/ Away(i.path)'
                 /\ \/ q \in lost' \cup met'
                    \/ /\ status'[req[q].row] # "removed"
                       /\ \E x \in Scopes : owner'[x].id = req[q].tpl
      <4>1. Scopes \subseteq req[q].on /\ q \in Busy
        BY <3>1, <3>4 DEF RequestHolds, TicketHolds, Busy, Drawing
      <4>2. \A i \in images : i.path \in Files /\ Settled(i.path)
        BY DEF FilesInv, BasicInv, FilesTyped, TicketRows, Files, RowsHold
      <4>3. \A i \in images : i.reg = req[q].row /\ i.tpl = req[q].tpl /\ i.ver = req[q].ver
              => i.path \in req[q].old \/ Away(i.path)
        BY <3>1, <3>4 DEF Aware, RowsOf
      <4>4. \A i \in images : Away(i.path) => Away(i.path)'
        BY <1>1, <1>4, <4>2
      <4>5. w \in Scopes => q \in met
        BY <1>1, <1>6, <2>2, <4>1 DEF LookHolds
      <4>6. \/ q \in lost \cup met
            \/ status[req[q].row] # "removed" /\ \E x \in Scopes : owner[x].id = req[q].tpl
        BY <3>1, <3>4 DEF Aware
      <4>7. Scopes \subseteq Owners
        BY DEF Owners
      <4>8. \/ q \in lost' \cup met'
            \/ /\ status'[req[q].row] # "removed"
               /\ \E x \in Scopes : owner'[x].id = req[q].tpl
        <5> HIDE DEF w
        <5> QED BY <1>1, <1>2, <4>5, <4>6, <4>7
      <4>9. \A i \in RowsOf(req[q].row, req[q].tpl, req[q].ver)' :
              i.path \in req[q].old \/ Away(i.path)'
        BY <1>2, <3>1, <4>3, <4>4 DEF RowsOf
      <4> QED BY <4>8, <4>9
    <3> QED BY <3>1, <3>2, <3>3, <3>4 DEF Aware
  <2> QED BY <2>1, <2>2
<1>15. QED
  BY <1>10, <1>13, <1>14 DEF StrayInv

LEMMA CommitsKeep ==
  ASSUME FilesInv, NEW o \in Ops, NEW v, Commits(o, v)
  PROVE  FilesInv'
BY CommitBasic, CommitNamed, CommitTicket, CommitStrays DEF FilesInv

\* A change of a template has a new version.
LEMMA RenewedIs ==
  ASSUME FilesTyped, NEW w \in Owners, NEW f \in Files \cup {None}, NEW o \in Ops,
         owner[w].present, owner' = Renewed(w, f, o)
  PROVE  \E v \in OwnerRows :
           /\ owner' = [owner EXCEPT ![w] = v]
           /\ v.present /\ v.id = owner[w].id /\ v.image = f
           /\ w \in Scopes => v.version = owner[w].version + 1
<1> DEFINE n == IF w \in Scopes THEN owner[w].version + 1 ELSE owner[w].version
           v == [owner[w] EXCEPT !.image = f, !.design = o, !.version = n]
<1>1. owner[w] \in OwnerRows /\ owner \in [Owners -> OwnerRows]
  BY DEF FilesTyped
<1>2. n \in Nat
  BY <1>1 DEF OwnerRows
<1>3. owner' = [owner EXCEPT ![w] = v]
  BY <1>1 DEF Renewed
<1>4. w \in Scopes => n = owner[w].version + 1
  OBVIOUS
<1> HIDE DEF n
<1>5. /\ v \in OwnerRows /\ v.present = owner[w].present /\ v.id = owner[w].id /\ v.image = f
      /\ v.version = n
  BY <1>1, <1>2 DEF OwnerRows, Files
<1> HIDE DEF v
<1>6. QED
  BY <1>3, <1>4, <1>5

LEMMA CommitKeeps ==
  ASSUME FilesInv, NEW o \in Ops, Commit(o), UNCHANGED ticketVars
  PROVE  FilesInv'
<1> DEFINE w == req[o].row
           f == req[o].file
<1>1. /\ req[o].at = "commit" /\ req[o].at \in Looking /\ LookHolds(o, req[o])
      /\ req \in [Ops -> Reqs] /\ owner \in [Owners -> OwnerRows] /\ FilesTyped
      /\ UNCHANGED <<event, images, disk, named, swept, met, lost, status>>
  BY DEF Commit, FilesInv, BasicInv, FilesTyped, RequestHolds, Looking, history, ticketVars
<1>2. w \in Owners /\ f \in Files \cup {None} /\ req[o].old \in SUBSET (Files \cup Regs \cup {None})
      /\ None \notin req[o].old
  BY <1>1, Names DEF LookHolds, FilesTyped, Reqs, FilesInv, BasicInv
<1>3. owner[w] = Gone \/ owner[w].present
  BY <1>2 DEF FilesInv, BasicInv, RowsHold
<1>4. owner[w].present => event
  BY <1>2 DEF FilesInv, BasicInv, RowsHold
<1>5. ASSUME Delete(o, req[o].old)
      PROVE  Only(o) /\ req'[o].at = "delete" /\ req'[o].on = req[o].on /\ req'[o].old = req[o].old
  <2>1. Only(o) /\ req'[o].at = "delete" /\ req'[o].on = req[o].on
        /\ req'[o].old = req[o].old \ {None}
    BY <1>1, <1>2, <1>5, DeleteSets
  <2> QED BY <1>2, <2>1
<1>6. ASSUME Refuse(o), owner' = owner PROVE FilesInv'
  BY <1>1, <1>6, RefuseKeeps DEF Kept
<1>7. ASSUME Done(o), owner' = owner, req[o].kind \in {"removeImage", "remove"} PROVE FilesInv'
  <2>1. f # o
    BY <1>1, <1>7, Names DEF LookHolds, FilesInv, BasicInv
  <2>2. req[o].at \notin Doing
    BY <1>1 DEF Doing
  <2> QED BY <1>1, <1>7, <2>1, <2>2, DoneKeeps DEF Kept
<1>8. CASE req[o].kind = "create" /\ CommitCreate(o)
  <2>1. CASE event /\ ~owner[w].present /\ owner' = [owner EXCEPT ![w] = Created(o)] /\ Done(o)
    <3>1. Only(o) /\ req'[o].at = "done" /\ req'[o].old = {}
      BY <1>1, <2>1, DoneSets
    <3>2. Created(o) \in OwnerRows /\ Created(o).present /\ Created(o).id = o /\ Created(o).image = o
      BY DEF Created, OwnerRows, Files
    <3>3. owner[w].image = None /\ f = o
      BY <1>1, <1>3, <1>8, <2>1 DEF Gone, LookHolds
    <3>4. Commits(o, Created(o))
      BY <1>1, <1>8, <2>1, <3>1, <3>2, <3>3 DEF Commits
    <3> QED BY <3>4, CommitsKeep
  <2> QED BY <1>6, <1>8, <2>1 DEF CommitCreate
<1>9. CASE req[o].kind = "update" /\ CommitUpdate(o)
  <2> DEFINE g == IF f = None THEN owner[w].image ELSE f
  <2>1. CASE owner[w].present /\ owner' = Renewed(w, g, o) /\ Delete(o, req[o].old)
    <3>1. g \in Files \cup {None}
      BY <1>1, <1>2 DEF OwnerRows
    <3>2. PICK v \in OwnerRows :
            /\ owner' = [owner EXCEPT ![w] = v]
            /\ v.present /\ v.id = owner[w].id /\ v.image = g
            /\ w \in Scopes => v.version = owner[w].version + 1
      BY <1>1, <1>2, <2>1, <3>1, RenewedIs
    <3>3. f = None => v.image = owner[w].image /\ req[o].old = {}
      BY <1>1, <1>9, <3>2 DEF LookHolds
    <3>4. f # None => v.image = f
      BY <3>2
    <3>5. Commits(o, v)
      BY <1>1, <1>4, <1>5, <1>9, <2>1, <3>2, <3>3, <3>4 DEF Commits
    <3> QED BY <3>5, CommitsKeep
  <2> QED BY <1>6, <1>9, <2>1 DEF CommitUpdate
<1>10. CASE req[o].kind = "removeImage" /\ CommitRemoveImage(o)
  <2>1. CASE owner[w].present /\ owner' = Renewed(w, None, o) /\ Delete(o, req[o].old)
    <3>1. PICK v \in OwnerRows :
            /\ owner' = [owner EXCEPT ![w] = v]
            /\ v.present /\ v.id = owner[w].id /\ v.image = None
            /\ w \in Scopes => v.version = owner[w].version + 1
      <4>1. None \in Files \cup {None}
        OBVIOUS
      <4> QED BY <1>1, <1>2, <2>1, <4>1, RenewedIs
    <3>2. f = None
      BY <1>1, <1>10 DEF LookHolds
    <3>3. Commits(o, v)
      BY <1>1, <1>4, <1>5, <1>10, <2>1, <3>1, <3>2 DEF Commits
    <3> QED BY <3>3, CommitsKeep
  <2> QED BY <1>7, <1>10, <2>1 DEF CommitRemoveImage
<1>11. CASE req[o].kind = "remove" /\ CommitRemove(o)
  <2>1. CASE owner' = [owner EXCEPT ![w] = Gone] /\ Delete(o, req[o].old)
    <3>1. Gone \in OwnerRows /\ Gone.image = None
      BY DEF Gone, OwnerRows
    <3>2. f = None
      BY <1>1, <1>11 DEF LookHolds
    <3>3. Commits(o, Gone)
      BY <1>1, <1>5, <1>11, <2>1, <3>1, <3>2 DEF Commits
    <3> QED BY <3>3, CommitsKeep
  <2> QED BY <1>7, <1>11, <2>1 DEF CommitRemove
<1>12. QED
  BY <1>8, <1>9, <1>10, <1>11 DEF Commit

-----------------------------------------------------------------------------
(* Steps outside the requests.                                             *)

\* Rows of tickets may go, with their files given up, and QR images may come.
LEMMA StillKeeps ==
  ASSUME FilesInv, UNCHANGED <<event, owner, req, named, swept, met>>, images' \subseteq images,
         lost \subseteq lost', \A i \in images : i \in images' \/ i.path \in lost',
         disk \subseteq disk', \A f \in Files : f \in disk' => f \in disk,
         status' \in [Regs -> {"none", "ACTIVE", "BLOCKED", "removed"}],
         \A q \in Busy, r \in Regs :
           r \in req[q].on /\ status'[r] = "removed" => status[r] = "removed" \/ q \in lost'
  PROVE  FilesInv'
<1>1. /\ \A f : Settled(f) <=> Settled(f)'
      /\ \A f, w : Refers(f, w) <=> Refers(f, w)'
  BY DEF Settled, Refers
<1>2. /\ \A f \in EventFiles' : f \in EventFiles
      /\ \A f \in EventFiles : f \in EventFiles' \/ f \in lost'
  BY DEF EventFiles
<1>3. \A f \in Files : Away(f) => Away(f)'
  BY DEF Away, Carried
<1>4. BasicInv'
  <2>1. FilesTyped' /\ RowsHold'
    BY <1>1 DEF FilesInv, BasicInv, FilesTyped, RowsHold
  <2>2. ASSUME NEW q \in Ops PROVE RequestHolds(q, req[q])'
    <3>1. req'[q] = req[q] /\ RequestHolds(q, req[q]) /\ named' = named
      BY DEF FilesInv, BasicInv
    <3> QED BY <1>1, <3>1 DEF RequestHolds, LookHolds, TicketHolds
  <2> QED BY <2>1, <2>2 DEF BasicInv
<1>5. NamedInv'
  <2>1. OneHome'
    BY <1>1 DEF FilesInv, NamedInv, OneHome
  <2>2. PathsApart'
    <3>1. ASSUME NEW i \in images'
          PROVE  /\ \A j \in images' : i.path = j.path => i = j
                 /\ \A w \in Owners : ~Refers(i.path, w)'
      BY <1>1, <3>1 DEF FilesInv, NamedInv, PathsApart
    <3>2. ASSUME NEW q \in Ops, req'[q].at \in Drawing, NEW p \in req'[q].old
          PROVE  /\ p \in Ops /\ \A w \in Owners : ~Refers(p, w)'
                 /\ \A i \in images' : i.path = p => i \in RowsOf(req[q].row, req[q].tpl, req[q].ver)'
      <4>1. /\ p \in Ops /\ \A w \in Owners : ~Refers(p, w)
            /\ \A i \in images : i.path = p => i \in RowsOf(req[q].row, req[q].tpl, req[q].ver)
        BY <3>2 DEF FilesInv, NamedInv, PathsApart
      <4> QED BY <1>1, <4>1 DEF RowsOf
    <3> QED BY <3>1, <3>2 DEF PathsApart
  <2>3. Stored' /\ Doomed'
    BY <1>2 DEF FilesInv, NamedInv, Stored, Doomed
  <2>4. NamedFilesExist'
    BY <1>2 DEF FilesInv, NamedInv, NamedFilesExist, RowFiles
  <2> QED BY <2>1, <2>2, <2>3, <2>4 DEF NamedInv
<1>6. TicketInv'
  BY DEF FilesInv, TicketInv, Snap
<1>7. Overlap' /\ Explained'
  BY <1>2, <1>3 DEF FilesInv, StrayInv, Overlap, Busy, Explained, Away
<1>8. ASSUME NEW q \in Ops PROVE Aware(q, req[q])'
  <2>1. req'[q] = req[q] /\ Aware(q, req[q]) /\ RequestHolds(q, req[q])
    BY DEF FilesInv, BasicInv, StrayInv
  <2>2. ASSUME req[q].at = "commit", req[q].kind # "create",
               ~(req[q].kind = "update" /\ req[q].file = None)
        PROVE  \/ owner'[req[q].row].image = None
               \/ owner'[req[q].row].image \in req[q].old \cup {req[q].file}
               \/ Away(owner[req[q].row].image)'
    <3>1. owner[req[q].row].image \in Files \cup {None}
      BY <2>1, <2>2 DEF RequestHolds, LookHolds, Looking, FilesInv, BasicInv, FilesTyped, OwnerRows
    <3>2. \/ owner[req[q].row].image = None
          \/ owner[req[q].row].image \in req[q].old \cup {req[q].file}
          \/ Away(owner[req[q].row].image)
      BY <2>1, <2>2 DEF Aware
    <3> QED BY <1>3, <3>1, <3>2 DEF Away, Carried
  <2>3. ASSUME req[q].at = "removeRows", NEW g \in EventFiles', g \notin req[q].old
        PROVE  Away(g)'
    BY <1>2, <1>3, <2>1, <2>3, Names DEF Aware, FilesInv, BasicInv
  <2>4. ASSUME req[q].at \in Drawing
        PROVE  /\ \A i \in RowsOf(req[q].row, req[q].tpl, req[q].ver)' :
                    i.path \in req[q].old \/ Away(i.path)'
               /\ \/ q \in lost' \cup met'
                  \/ /\ status'[req[q].row] # "removed"
                     /\ \E x \in Scopes : owner'[x].id = req[q].tpl
    <3>1. req[q].row \in Regs /\ req[q].row \in req[q].on /\ q \in Busy
      BY <2>1, <2>4 DEF RequestHolds, TicketHolds, Busy, Drawing
    <3>2. \A i \in images : i.path \in Files
      BY DEF FilesInv, BasicInv, FilesTyped, TicketRows, Files
    <3>3. \A i \in images : i.reg = req[q].row /\ i.tpl = req[q].tpl /\ i.ver = req[q].ver
            => i.path \in req[q].old \/ Away(i.path)
      BY <2>1, <2>4 DEF Aware, RowsOf
    <3>4. \A i \in RowsOf(req[q].row, req[q].tpl, req[q].ver)' :
            i.path \in req[q].old \/ Away(i.path)'
      BY <1>3, <2>1, <3>2, <3>3 DEF RowsOf
    <3>5. \/ q \in lost \cup met
          \/ status[req[q].row] # "removed" /\ \E x \in Scopes : owner[x].id = req[q].tpl
      BY <2>1, <2>4 DEF Aware
    <3> QED BY <3>1, <3>4, <3>5
  <2> QED BY <2>1, <2>2, <2>3, <2>4 DEF Aware
<1>9. QED
  BY <1>4, <1>5, <1>6, <1>7, <1>8 DEF FilesInv, StrayInv

LEMMA RegistrationsKeep ==
  ASSUME FilesInv, NEW r \in Regs, RunPipeline(r) \/ Poll(r) \/ Withdraw(r)
  PROVE  FilesInv'
<1>1. /\ UNCHANGED <<event, owner, req, named, swept, met>>
      /\ status \in [Regs -> {"none", "ACTIVE", "BLOCKED", "removed"}] /\ r \notin Files
  BY DEF RunPipeline, Poll, Withdraw, history, FilesInv, BasicInv, FilesTyped, Files
<1>2. CASE RunPipeline(r) \/ Poll(r)
  <2>1. UNCHANGED <<images, lost, status>> /\ (disk' = disk \/ disk' = disk \cup {r})
    BY <1>2 DEF RunPipeline, Poll, history, WithQr
  <2> QED BY <1>1, <2>1, StillKeeps
<1>3. CASE Withdraw(r)
  <2>1. CASE status' = [status EXCEPT ![r] = "BLOCKED"] /\ UNCHANGED <<images, lost>>
    <3>1. disk' = disk
      BY <1>3 DEF Withdraw
    <3>2. /\ status' \in [Regs -> {"none", "ACTIVE", "BLOCKED", "removed"}]
          /\ \A x \in Regs : status'[x] = "removed" => status[x] = "removed"
      BY <1>1, <2>1
    <3> QED BY <1>1, <2>1, <3>1, <3>2, StillKeeps
  <2>2. CASE /\ status' = [status EXCEPT ![r] = "removed"]
             /\ images' = {i \in images : i.reg # r}
             /\ lost' = lost \cup {i.path : i \in images \ images'}
                             \cup {o \in Busy : r \in req[o].on}
    <3>1. disk' = disk
      BY <1>3 DEF Withdraw
    <3>2. /\ status' \in [Regs -> {"none", "ACTIVE", "BLOCKED", "removed"}]
          /\ \A x \in Regs : status'[x] = "removed" => status[x] = "removed" \/ x = r
      BY <1>1, <2>2
    <3>3. /\ images' \subseteq images /\ lost \subseteq lost'
          /\ \A i \in images : i \in images' \/ i.path \in lost'
          /\ \A q \in Busy : r \in req[q].on => q \in lost'
      BY <2>2
    <3> QED BY <1>1, <3>1, <3>2, <3>3, StillKeeps
  <2> QED BY <1>3, <2>1, <2>2 DEF Withdraw
<1>4. QED
  BY <1>2, <1>3

-----------------------------------------------------------------------------
(* The row of a ticket is written.                                         *)

Saves(o) ==
  /\ req[o].at = "save" /\ Only(o) /\ req'[o].at = "delete" /\ req'[o].old = req[o].old
  /\ req'[o].on = req[o].on /\ req'[o].design = req[o].design
  /\ status[req[o].row] # "removed" /\ \E w \in Scopes : owner[w].id = req[o].tpl
  /\ images' = (images \ RowsOf(req[o].row, req[o].tpl, req[o].ver)) \cup {Row(o)}
  /\ UNCHANGED <<event, owner, disk, named, swept, met, lost, status>>

LEMMA SaveFacts ==
  ASSUME FilesInv, NEW o \in Ops, Saves(o)
  PROVE  /\ Ahead(o) /\ Leaves(o) /\ o \in Busy /\ TicketHolds(o, req[o]) /\ Aware(o, req[o])
         /\ req[o].file = o /\ o \in Files /\ o \in disk /\ ~Settled(o) /\ Settled(o)'
         /\ (\A f : Settled(f) => Settled(f)') /\ o \notin EventFiles
         /\ req'[o].at \notin Looking \cup Drawing \cup {"removeRows", "save", "resolve", "enqueue"}
         /\ Row(o) = [reg |-> req[o].row, tpl |-> req[o].tpl, ver |-> req[o].ver, path |-> o]
         /\ Row(o) \in TicketRows /\ Settled(req[o].tpl)
<1>1. Ahead(o) /\ Leaves(o) /\ o \in Busy
  BY DEF Saves, Ahead, Leaves, Writing, Looking, Drawing, Doing, Busy
<1>2. TicketHolds(o, req[o]) /\ Aware(o, req[o])
  BY DEF Saves, FilesInv, BasicInv, StrayInv, RequestHolds, Drawing
<1>3. req[o].at \in Writing
  BY DEF Saves, Writing, Drawing
<1>4. ~Settled(o) /\ o \notin EventFiles
  BY <1>3, FreshName, Names DEF FilesInv, BasicInv
<1>5. /\ Settled(o)'
      /\ req'[o].at \notin Looking \cup Drawing \cup {"removeRows", "save", "resolve", "enqueue"}
  BY DEF Saves, Settled, Writing, Looking, Drawing
<1>6. \A f : Settled(f) => Settled(f)'
  BY <1>1, OthersStand DEF FilesInv
<1>7. req[o].file = o /\ Settled(req[o].tpl)
  BY <1>2 DEF TicketHolds, Saves
<1>8. o \in disk
  BY <1>7 DEF FilesInv, NamedInv, Stored, Saves
<1>9. /\ Row(o) = [reg |-> req[o].row, tpl |-> req[o].tpl, ver |-> req[o].ver, path |-> o]
      /\ Row(o) \in TicketRows
  <2>1. req[o].row \in Regs /\ req[o].tpl \in Files /\ req[o].ver \in Nat
    BY <1>2, <1>7 DEF TicketHolds, Settled, Files, FilesInv, BasicInv, FilesTyped, Reqs
  <2> QED BY <2>1 DEF Row, TicketRows
<1>10. QED
  BY <1>1, <1>2, <1>4, <1>5, <1>6, <1>7, <1>8, <1>9 DEF Files

LEMMA SaveRows ==
  ASSUME FilesInv, NEW o \in Ops, Saves(o)
  PROVE  /\ \A f \in EventFiles' : f \in EventFiles \/ f = o
         /\ o \in EventFiles'
         /\ \A f \in EventFiles : f \in EventFiles' \/
              \E i \in RowsOf(req[o].row, req[o].tpl, req[o].ver) : i.path = f
<1>1. Row(o).path = o
  BY DEF Row
<1>2. images' = (images \ RowsOf(req[o].row, req[o].tpl, req[o].ver)) \cup {Row(o)} /\ owner' = owner
  BY DEF Saves
<1> HIDE DEF RowsOf
<1>3. QED
  BY <1>1, <1>2 DEF EventFiles

LEMMA SaveBasic ==
  ASSUME FilesInv, NEW o \in Ops, Saves(o)
  PROVE  BasicInv'
<1> USE DEF FilesInv, BasicInv
<1>1. /\ Ahead(o) /\ Settled(o)' /\ (\A f : Settled(f) => Settled(f)') /\ Settled(req[o].tpl)
      /\ req'[o].at \notin Looking \cup Drawing \cup {"removeRows", "save", "resolve", "enqueue"}
      /\ Row(o) = [reg |-> req[o].row, tpl |-> req[o].tpl, ver |-> req[o].ver, path |-> o]
      /\ Row(o) \in TicketRows
  BY SaveFacts
<1>2. FilesTyped'
  BY <1>1 DEF FilesTyped, Saves, Ahead, Only
<1>3. RowsHold'
  <2>1. \A w \in Owners : \/ owner'[w] = Gone
                          \/ /\ owner'[w].present /\ Settled(owner[w].id)'
                             /\ owner'[w].image = None \/ Settled(owner[w].image)'
    BY <1>1 DEF RowsHold, Saves
  <2>2. \A i \in images : Settled(i.path)' /\ Settled(i.tpl)'
    BY <1>1 DEF RowsHold
  <2>3. \A i \in images' : Settled(i.path)' /\ Settled(i.tpl)'
    <3>1. \A i \in images' : i \in images \/ i = [reg |-> req[o].row, tpl |-> req[o].tpl, ver |-> req[o].ver, path |-> o]
      BY <1>1 DEF Saves
    <3>2. \A f : f = req[o].tpl => Settled(f)'
      BY <1>1
    <3> QED BY <1>1, <2>2, <3>1, <3>2
  <2>4. event
    <3>1. PICK w \in Scopes : owner[w].id = req[o].tpl
      BY DEF Saves
    <3>2. w \in Owners /\ req[o].tpl # None
      BY <1>1, <3>1, Names DEF Owners, Settled, Files
    <3> QED BY <3>1, <3>2 DEF RowsHold, Gone
  <2>5. \A f \in named' : Settled(f)'
    BY <1>1 DEF RowsHold, Saves
  <2> QED BY <2>1, <2>3, <2>4, <2>5 DEF RowsHold, Saves
<1>4. RequestHolds(o, req[o])'
  <2>1. \A f \in req[o].old : f \in Regs \/ Settled(f)
    BY DEF RequestHolds
  <2>2. \A f \in req'[o].old : f \in Regs \/ Settled(f)'
    BY <1>1, <2>1 DEF Saves
  <2> QED BY <1>1, <2>2 DEF RequestHolds
<1>5. \A q \in Ops \ {o} : RequestHolds(q, req[q])'
  BY <1>1, OthersStand
<1>6. QED
  BY <1>2, <1>3, <1>4, <1>5

LEMMA SaveNamed ==
  ASSUME FilesInv, NEW o \in Ops, Saves(o)
  PROVE  NamedInv'
<1> DEFINE R == RowsOf(req[o].row, req[o].tpl, req[o].ver)
<1>1. /\ Ahead(o) /\ o \in disk /\ o \in Files
      /\ req'[o].at \notin Looking \cup Drawing \cup {"removeRows", "save", "resolve", "enqueue"}
      /\ Row(o).path = o /\ o \notin EventFiles
  BY SaveFacts DEF Row
<1>2. /\ \A q \in Ops \ {o} : req'[q] = req[q]
      /\ disk' = disk /\ named' = named /\ swept' = swept /\ owner' = owner
      /\ images' = (images \ R) \cup {Row(o)} /\ req[o].at \notin Looking
  BY <1>1 DEF Ahead, Only, Saves, Looking
<1> HIDE DEF R
<1>3. \A f \in Files, w \in Owners : Refers(f, w)' => Refers(f, w)
  BY <1>1, <1>2 DEF Refers
<1>4. /\ \A q \in Ops : o \notin req[q].old
      /\ \A w \in Owners : ~Refers(o, w)
  BY <1>2, FreshName DEF FilesInv, Saves, Writing, Drawing
<1>5. OneHome'
  <2> SUFFICES ASSUME NEW f \in Files, NEW x \in Owners, NEW y \in Owners, Refers(f, x)', Refers(f, y)'
               PROVE  x = y
    BY DEF OneHome
  <2> QED BY <1>3 DEF FilesInv, NamedInv, OneHome
<1>6. PathsApart'
  <2>1. \A i \in images : i.path \in Files /\ i.path \in EventFiles
    BY DEF FilesInv, BasicInv, FilesTyped, TicketRows, Files, EventFiles
  <2>2. \A i \in images' : i.path \in Files /\ (i \in images \/ i = Row(o))
    BY <1>1, <1>2, <2>1
  <2>3. ASSUME NEW i \in images' PROVE /\ \A j \in images' : i.path = j.path => i = j
                                       /\ \A w \in Owners : ~Refers(i.path, w)'
    <3>1. \A j \in images' : i.path = j.path => i = j
      BY <1>1, <2>1, <2>2 DEF FilesInv, NamedInv, PathsApart
    <3>2. \A w \in Owners : ~Refers(i.path, w)
      <4>1. CASE i \in images
        BY <4>1 DEF FilesInv, NamedInv, PathsApart
      <4>2. CASE i = Row(o)
        BY <1>1, <1>4, <4>2
      <4> QED BY <2>2, <4>1, <4>2
    <3> QED BY <1>3, <2>2, <3>1, <3>2
  <2>4. ASSUME NEW q \in Ops, req'[q].at \in Drawing, NEW p \in req'[q].old
        PROVE  /\ p \in Ops /\ \A w \in Owners : ~Refers(p, w)'
               /\ \A i \in images' : i.path = p => i \in RowsOf(req[q].row, req[q].tpl, req[q].ver)'
    <3>1. req'[q] = req[q]
      BY <1>1, <1>2, <2>4
    <3>2. /\ p \in Ops /\ \A w \in Owners : ~Refers(p, w)
          /\ \A i \in images : i.path = p => i \in RowsOf(req[q].row, req[q].tpl, req[q].ver)
      BY <2>4, <3>1 DEF FilesInv, NamedInv, PathsApart
    <3>3. p # o
      BY <1>4, <2>4, <3>1
    <3>4. p \in Files
      BY <3>2 DEF Files
    <3>5. \A w \in Owners : ~Refers(p, w)'
      BY <1>3, <3>2, <3>4
    <3> QED BY <1>1, <2>2, <3>1, <3>2, <3>3, <3>5 DEF RowsOf
  <2> QED BY <2>3, <2>4 DEF PathsApart
<1>7. Stored'
  <2>1. \A q \in Ops : req'[q].at \in Looking \cup {"save"} => q # o
    BY <1>1
  <2> QED BY <1>2, <2>1 DEF FilesInv, NamedInv, Stored
<1>8. Doomed'
  <2> SUFFICES ASSUME NEW q \in Ops, req'[q].at \in Doing, NEW f \in req'[q].old, f \in EventFiles'
               PROVE  f \in named \cup swept
    BY <1>2 DEF Doomed
  <2>1. CASE q # o
    <3>1. f \in named \cup swept \/ f \notin EventFiles
      BY <1>2, <2>1 DEF FilesInv, NamedInv, Doomed
    <3>2. f # o
      BY <1>2, <1>4, <2>1
    <3> QED BY <3>1, <3>2, SaveRows
  <2>2. CASE q = o
    <3>1. f \in req[o].old /\ req[o].at \in Drawing
      BY <2>2 DEF Saves, Drawing
    <3>2. /\ f \in Ops /\ \A w \in Owners : ~Refers(f, w)
          /\ \A i \in images : i.path = f => i \in R
      BY <3>1 DEF FilesInv, NamedInv, PathsApart, R
    <3>3. f # o /\ \A w \in Owners : owner[w].image # f
      BY <1>4, <3>1, <3>2 DEF Refers
    <3>4. f \notin EventFiles'
      BY <1>1, <1>2, <3>2, <3>3 DEF EventFiles
    <3> QED BY <3>4
  <2> QED BY <2>1, <2>2
<1>9. NamedFilesExist'
  <2>1. \A f \in EventFiles' : f \in disk \cup swept \cup named
    BY <1>1, SaveRows DEF FilesInv, NamedInv, NamedFilesExist, RowFiles
  <2> QED BY <1>2, <2>1 DEF NamedFilesExist, RowFiles
<1>10. QED
  BY <1>5, <1>6, <1>7, <1>8, <1>9 DEF NamedInv

LEMMA SaveTicket ==
  ASSUME FilesInv, NEW o \in Ops, Saves(o)
  PROVE  TicketInv'
<1>1. /\ Ahead(o) /\ ~Settled(o)
      /\ req'[o].at \notin Looking \cup Drawing \cup {"removeRows", "save", "resolve", "enqueue"}
      /\ Row(o) = [reg |-> req[o].row, tpl |-> req[o].tpl, ver |-> req[o].ver, path |-> o]
  BY SaveFacts
<1>2. /\ (\A q \in Ops \ {o} : req'[q] = req[q]) /\ owner' = owner /\ req'[o].design = req[o].design
      /\ \A i \in images' : i \in images \/ i = Row(o)
  BY <1>1 DEF Ahead, Only, Saves
<1>3. \A x, y \in Owners : owner'[x].present /\ owner'[y].present /\ owner'[x].id = owner'[y].id => x = y
  BY <1>2 DEF FilesInv, TicketInv
<1>4. ASSUME NEW i \in images' PROVE Snap(i.tpl, i.ver, req[i.path].design)'
  <2>1. CASE i \in images
    <3>1. Settled(i.path) /\ i.path \in Ops /\ Snap(i.tpl, i.ver, req[i.path].design)
      BY <2>1 DEF FilesInv, BasicInv, FilesTyped, TicketRows, RowsHold, TicketInv
    <3>2. req'[i.path] = req[i.path]
      BY <1>1, <1>2, <3>1
    <3> QED BY <1>2, <3>1, <3>2 DEF Snap
  <2>2. CASE i = Row(o)
    <3>1. Snap(req[o].tpl, req[o].ver, req[o].design)
      BY DEF FilesInv, TicketInv, Saves, Drawing
    <3>2. i.tpl = req[o].tpl /\ i.ver = req[o].ver /\ i.path = o
      BY <1>1, <2>2
    <3> QED BY <1>2, <3>1, <3>2 DEF Snap
  <2> QED BY <1>2, <2>1, <2>2
<1>5. ASSUME NEW q \in Ops, req'[q].at \in Drawing
      PROVE  Snap(req[q].tpl, req[q].ver, req[q].design)'
  <2>1. req'[q] = req[q] /\ Snap(req[q].tpl, req[q].ver, req[q].design)
    BY <1>1, <1>2, <1>5 DEF FilesInv, TicketInv
  <2> QED BY <1>2, <2>1 DEF Snap
<1>6. QED
  BY <1>3, <1>4, <1>5 DEF TicketInv

LEMMA SaveStrays ==
  ASSUME FilesInv, NEW o \in Ops, Saves(o)
  PROVE  StrayInv'
<1> DEFINE R == RowsOf(req[o].row, req[o].tpl, req[o].ver)
<1>1. /\ Ahead(o) /\ Leaves(o) /\ o \in Busy /\ TicketHolds(o, req[o]) /\ Aware(o, req[o])
      /\ ~Settled(o) /\ o \in Files
      /\ req'[o].at \notin Looking \cup Drawing \cup {"removeRows", "save", "resolve", "enqueue"}
      /\ Row(o) = [reg |-> req[o].row, tpl |-> req[o].tpl, ver |-> req[o].ver, path |-> o]
      /\ Settled(req[o].tpl)
  BY SaveFacts
<1>2. /\ (\A q \in Ops \ {o} : req'[q] = req[q]) /\ owner' = owner /\ disk' = disk
      /\ met' = met /\ lost' = lost /\ status' = status
      /\ req'[o].at = "delete" /\ req'[o].old = req[o].old /\ req'[o].on = req[o].on
      /\ \A i \in images' : i \in images \/ i = Row(o)
  BY <1>1 DEF Ahead, Only, Saves
<1>3. /\ (\A f \in EventFiles' : f \in EventFiles \/ f = o) /\ o \in EventFiles'
      /\ \A f \in EventFiles : f \in EventFiles' \/ \E i \in R : i.path = f
  BY SaveRows
<1>4. \A f \in Files : (f # o \/ Settled(f)) /\ Away(f) => Away(f)'
  BY <1>1, AwayStands DEF FilesInv
<1>5. (\A f \in EventFiles : f \in Files /\ Settled(f)) /\ None \notin Files
  BY Names DEF FilesInv, BasicInv
<1>6. \A q \in Busy \ {o} : req[q].on \cap req[o].on # {} => q \in met /\ o \in met
  BY <1>1 DEF FilesInv, StrayInv, Overlap
<1>7. o \in met => Away(o)'
  BY <1>2 DEF Away
<1>8. Overlap'
  <2>1. \A q \in Busy' : q \in Busy /\ req'[q].on = req[q].on
    BY <1>1, <1>2 DEF Busy
  <2> QED BY <1>2, <2>1 DEF FilesInv, StrayInv, Overlap
<1>9. Explained'
  <2> SUFFICES ASSUME NEW f \in Files, f \notin EventFiles' PROVE Away(f)'
    BY DEF Explained
  <2>1. f # o
    BY <1>3
  <2>2. CASE f \in EventFiles
    <3>1. PICK i \in R : i.path = f
      BY <1>3, <2>2
    <3>2. f \in req[o].old \/ Away(f)
      BY <1>1, <3>1 DEF Aware, Saves, Drawing
    <3>3. f \in req[o].old => Away(f)'
      BY <1>2 DEF Away, Carried, Doing
    <3> QED BY <1>4, <2>1, <3>2, <3>3
  <2>3. CASE f \notin EventFiles
    BY <1>4, <2>1, <2>3 DEF FilesInv, StrayInv, Explained
  <2> QED BY <2>2, <2>3
<1>10. ASSUME NEW q \in Ops PROVE Aware(q, req[q])'
  <2>1. CASE q = o
    <3>1. req'[o].at \notin {"commit", "removeRows"} \cup Drawing
      BY <1>1 DEF Looking
    <3> QED BY <2>1, <3>1 DEF Aware
  <2>2. CASE q # o
    <3>1. req'[q] = req[q] /\ Aware(q, req[q]) /\ RequestHolds(q, req[q])
      BY <1>2, <2>2 DEF FilesInv, StrayInv, BasicInv
    <3>2. ASSUME req[q].at = "commit", req[q].kind # "create",
                 ~(req[q].kind = "update" /\ req[q].file = None)
          PROVE  \/ owner'[req[q].row].image = None
                 \/ owner'[req[q].row].image \in req[q].old \cup {req[q].file}
                 \/ Away(owner[req[q].row].image)'
      <4>1. req[q].row \in Owners
        BY <3>1, <3>2 DEF RequestHolds, LookHolds, Looking
      <4>2. \/ owner[req[q].row].image = None
            \/ owner[req[q].row].image \in req[q].old \cup {req[q].file}
            \/ Away(owner[req[q].row].image)
        BY <3>1, <3>2 DEF Aware
      <4>3. owner[req[q].row].image # None =>
              owner[req[q].row].image \in Files /\ Settled(owner[req[q].row].image)
        BY <1>5, <4>1, InRows DEF FilesInv, BasicInv
      <4>4. ASSUME NEW g \in Files, g = owner[req[q].row].image
            PROVE  g \in req[q].old \cup {req[q].file} \/ Away(g)'
        BY <1>4, <1>5, <4>2, <4>3, <4>4
      <4> QED BY <1>2, <3>1, <4>3, <4>4 DEF Away, Carried
    <3>3. ASSUME req[q].at = "removeRows", NEW g \in EventFiles', g \notin req[q].old
          PROVE  Away(g)'
      <4>1. q \in Busy /\ req[q].on = Owners \cup Regs
        BY <3>1, <3>3 DEF RequestHolds, Busy
      <4>2. o \in met
        BY <1>1, <1>6, <2>2, <4>1 DEF TicketHolds
      <4>3. CASE g \in EventFiles
        <5>1. Away(g)
          BY <3>1, <3>3, <4>3 DEF Aware
        <5> QED BY <1>1, <1>4, <1>5, <4>3, <5>1
      <4> QED BY <1>3, <1>7, <3>3, <4>2, <4>3
    <3>4. ASSUME req[q].at \in Drawing
          PROVE  /\ \A i \in RowsOf(req[q].row, req[q].tpl, req[q].ver)' :
                      i.path \in req[q].old \/ Away(i.path)'
                 /\ \/ q \in lost' \cup met'
                    \/ /\ status'[req[q].row] # "removed"
                       /\ \E x \in Scopes : owner'[x].id = req[q].tpl
      <4>1. req[q].row \in req[q].on /\ q \in Busy
        BY <3>1, <3>4 DEF RequestHolds, TicketHolds, Busy, Drawing
      <4>2. \A i \in images : i.path \in Files /\ Settled(i.path)
        BY DEF FilesInv, BasicInv, FilesTyped, TicketRows, Files, RowsHold
      <4>3. \A i \in images : i.reg = req[q].row /\ i.tpl = req[q].tpl /\ i.ver = req[q].ver
              => i.path \in req[q].old \/ Away(i.path)
        BY <3>1, <3>4 DEF Aware, RowsOf
      <4>4. \A i \in images : Away(i.path) => Away(i.path)'
        BY <1>1, <1>4, <4>2
      <4>5. ASSUME NEW i \in images', i.reg = req[q].row, i.tpl = req[q].tpl, i.ver = req[q].ver
            PROVE  i.path \in req[q].old \/ Away(i.path)'
        <5>1. CASE i = Row(o)
          <6>1. i.path = o /\ req[q].row = req[o].row
            BY <1>1, <4>5, <5>1
          <6>2. o \in met
            BY <1>1, <1>6, <2>2, <4>1, <6>1 DEF TicketHolds
          <6> QED BY <1>7, <6>1, <6>2
        <5>2. CASE i \in images
          BY <4>3, <4>4, <4>5, <5>2
        <5> QED BY <1>2, <5>1, <5>2
      <4>6. \A i \in RowsOf(req[q].row, req[q].tpl, req[q].ver)' :
              i.path \in req[q].old \/ Away(i.path)'
        BY <3>1, <4>5 DEF RowsOf
      <4>7. \/ q \in lost \cup met
            \/ status[req[q].row] # "removed" /\ \E x \in Scopes : owner[x].id = req[q].tpl
        BY <3>1, <3>4 DEF Aware
      <4> QED BY <1>2, <4>6, <4>7
    <3> QED BY <3>1, <3>2, <3>3, <3>4 DEF Aware
  <2> QED BY <2>1, <2>2
<1>11. QED
  BY <1>8, <1>9, <1>10 DEF StrayInv

LEMMA SaveKeeps ==
  ASSUME FilesInv, NEW o \in Ops, Save(o)
  PROVE  FilesInv'
<1>1. CASE Delete(o, req[o].old) /\ images' # images
  <2>1. req[o].old \in SUBSET (Files \cup Regs \cup {None}) /\ None \notin req[o].old
    BY Names DEF FilesInv, BasicInv, FilesTyped, Reqs
  <2>2. /\ Only(o) /\ req'[o].at = "delete" /\ req'[o].old = req[o].old \ {None}
        /\ req'[o].on = req[o].on /\ req'[o].design = req[o].design
    BY <1>1, <2>1, DeleteSets DEF FilesInv, BasicInv
  <2>3. req'[o].old = req[o].old
    BY <2>1, <2>2
  <2>4. Saves(o)
    BY <1>1, <2>2, <2>3 DEF Save, Saves, history
  <2> QED BY <2>4, SaveBasic, SaveNamed, SaveTicket, SaveStrays DEF FilesInv
<1>2. CASE Done(o) /\ images' = images
  BY <1>2, SaveFails
<1>3. Delete(o, req[o].old) => images' # images
  <2> SUFFICES ASSUME Delete(o, req[o].old), images' = images PROVE FALSE
    OBVIOUS
  <2>1. Row(o) \in images \/ Done(o)
    BY DEF Save, Fail
  <2>2. Row(o) \notin images
    <3>1. o \notin EventFiles /\ Row(o).path = o
      BY FreshName DEF FilesInv, Save, Writing, Drawing, Row
    <3> QED BY <3>1 DEF EventFiles
  <2>3. req[o].old \in SUBSET (Files \cup Regs \cup {None})
    BY DEF FilesInv, BasicInv, FilesTyped, Reqs
  <2>4. req'[o].at = "delete"
    BY <2>3, DeleteSets DEF FilesInv, BasicInv
  <2>5. Done(o) => req'[o].at = "done"
    BY DoneSets DEF FilesInv, BasicInv
  <2> QED BY <2>1, <2>2, <2>4, <2>5
<1>4. QED
  BY <1>1, <1>2, <1>3 DEF Save, Fail

-----------------------------------------------------------------------------
(* The rows of the event are deleted.                                      *)

Removes(o) ==
  /\ req[o].at = "removeRows" /\ Only(o) /\ req'[o].at = "enqueue" /\ req'[o].kind = req[o].kind
  /\ req'[o].old = req[o].old /\ req'[o].on = req[o].on /\ req'[o].design = req[o].design
  /\ event' = FALSE /\ owner' = [w \in Owners |-> Gone] /\ images' = {}
  /\ status' \in [Regs -> {"none", "ACTIVE", "BLOCKED", "removed"}]
  /\ UNCHANGED <<disk, named, swept, met, lost>>

LEMMA RemovesKeep ==
  ASSUME FilesInv, NEW o \in Ops, Removes(o)
  PROVE  FilesInv'
<1>1. /\ Ahead(o) /\ Leaves(o) /\ o \in Busy /\ Aware(o, req[o]) /\ RequestHolds(o, req[o])
      /\ req[o].at \notin Writing
      /\ req'[o].at \notin Looking \cup Drawing \cup {"removeRows", "save", "resolve", "commit"}
  BY DEF Removes, Ahead, Leaves, Writing, Looking, Drawing, Doing, Busy, FilesInv, BasicInv, StrayInv
<1>2. /\ \A q \in Ops \ {o} : req'[q] = req[q]
      /\ disk' = disk /\ named' = named /\ met' = met /\ lost' = lost
      /\ images' = {} /\ \A w \in Owners : owner'[w] = Gone
  BY <1>1 DEF Ahead, Only, Removes
<1>3. Gone \in OwnerRows /\ Gone.image = None /\ ~Gone.present
  BY DEF Gone, OwnerRows
<1>4. \A f : Settled(f) => Settled(f)'
  BY <1>1, OthersStand DEF FilesInv
<1>5. EventFiles' = {}
  BY <1>2, <1>3 DEF EventFiles
<1>6. None \notin Files /\ \A f \in EventFiles : f \in Files
  BY Names DEF FilesInv, BasicInv
<1>7. BasicInv'
  <2>1. FilesTyped'
    BY <1>2, <1>3 DEF FilesInv, BasicInv, FilesTyped, Removes, Only
  <2>2. RowsHold'
    BY <1>2, <1>3, <1>4 DEF FilesInv, BasicInv, RowsHold, Removes
  <2>3. RequestHolds(o, req[o])'
    <3>1. req[o].kind = "event" /\ \A f \in req[o].old : f \in Regs \/ Settled(f)
      BY <1>1 DEF RequestHolds, Removes
    <3> QED BY <1>1, <1>4, <3>1 DEF RequestHolds, Removes
  <2>4. \A q \in Ops \ {o} : RequestHolds(q, req[q])'
    BY <1>1, OthersStand DEF FilesInv
  <2> QED BY <2>1, <2>2, <2>3, <2>4 DEF BasicInv
<1>8. NamedInv'
  <2>1. \A f \in Files, w \in Owners : Refers(f, w)' => Refers(f, w)
    BY <1>1, <1>2, <1>3, <1>6 DEF Refers
  <2>2. OneHome'
    <3> SUFFICES ASSUME NEW f \in Files, NEW x \in Owners, NEW y \in Owners, Refers(f, x)', Refers(f, y)'
                 PROVE  x = y
      BY DEF OneHome
    <3> QED BY <2>1 DEF FilesInv, NamedInv, OneHome
  <2>3. PathsApart'
    <3>1. ASSUME NEW q \in Ops, req'[q].at \in Drawing, NEW p \in req'[q].old
          PROVE  p \in Ops /\ \A w \in Owners : ~Refers(p, w)'
      <4>1. req'[q] = req[q]
        BY <1>1, <1>2, <3>1
      <4>2. p \in Ops /\ \A w \in Owners : ~Refers(p, w)
        BY <3>1, <4>1 DEF FilesInv, NamedInv, PathsApart
      <4> QED BY <2>1, <4>2 DEF Files
    <3> QED BY <1>2, <3>1 DEF PathsApart
  <2>4. Stored'
    <3>1. \A q \in Ops : req'[q].at \in Looking \cup {"save"} => q # o
      BY <1>1
    <3> QED BY <1>2, <3>1 DEF FilesInv, NamedInv, Stored
  <2>5. Doomed' /\ NamedFilesExist'
    BY <1>5 DEF Doomed, NamedFilesExist, RowFiles
  <2> QED BY <2>2, <2>3, <2>4, <2>5 DEF NamedInv
<1>9. TicketInv'
  <2>1. \A w \in Scopes : ~owner'[w].present
    BY <1>2, <1>3 DEF Owners
  <2> QED BY <1>2, <1>3, <2>1 DEF TicketInv, Snap
<1>10. StrayInv'
  <2>1. \A f \in Files : Away(f) => Away(f)'
    <3>1. Settled(o)
      BY <1>1 DEF Settled
    <3> QED BY <1>1, <3>1, AwayStands DEF FilesInv
  <2>2. Overlap'
    <3>1. \A q \in Busy' : q \in Busy /\ req'[q].on = req[q].on
      BY <1>1, <1>2 DEF Busy, Removes
    <3> QED BY <1>2, <3>1 DEF FilesInv, StrayInv, Overlap
  <2>3. Explained'
    <3> SUFFICES ASSUME NEW f \in Files PROVE Away(f)'
      BY DEF Explained
    <3>1. CASE f \in EventFiles
      <4>1. f \in req[o].old \/ Away(f)
        BY <1>1, <3>1 DEF Aware, Removes
      <4>2. f \in req[o].old => Away(f)'
        BY DEF Removes, Away, Carried, Doing
      <4> QED BY <2>1, <4>1, <4>2
    <3>2. CASE f \notin EventFiles
      BY <2>1, <3>2 DEF FilesInv, StrayInv, Explained
    <3> QED BY <3>1, <3>2
  <2>4. ASSUME NEW q \in Ops PROVE Aware(q, req[q])'
    <3>1. CASE q = o
      BY <1>1, <3>1 DEF Aware
    <3>2. CASE q # o
      <4>1. req'[q] = req[q] /\ RequestHolds(q, req[q])
        BY <1>2, <3>2 DEF FilesInv, BasicInv
      <4>2. req[q].at = "commit" => owner'[req[q].row].image = None
        BY <1>2, <1>3, <4>1 DEF RequestHolds, LookHolds, Looking
      <4>3. req[q].at \in Drawing => q \in met
        <5> SUFFICES ASSUME req[q].at \in Drawing PROVE q \in met
          OBVIOUS
        <5>1. q \in Busy /\ req[q].row \in Regs /\ req[q].row \in req[q].on
          BY <4>1 DEF RequestHolds, TicketHolds, Busy, Drawing
        <5>2. req[o].on = Owners \cup Regs
          BY <1>1 DEF RequestHolds, Removes
        <5> QED BY <1>1, <3>2, <5>1, <5>2 DEF FilesInv, StrayInv, Overlap
      <4> QED BY <1>2, <1>5, <4>1, <4>2, <4>3 DEF Aware, RowsOf
    <3> QED BY <3>1, <3>2
  <2> QED BY <2>2, <2>3, <2>4 DEF StrayInv
<1>11. QED
  BY <1>7, <1>8, <1>9, <1>10 DEF FilesInv

LEMMA RemoveRowsKeeps ==
  ASSUME FilesInv, NEW o \in Ops, RemoveRows(o)
  PROVE  FilesInv'
<1>1. /\ req[o].at = "removeRows" /\ UNCHANGED <<disk, swept, named, met, lost>>
      /\ status \in [Regs -> {"none", "ACTIVE", "BLOCKED", "removed"}]
  BY DEF RemoveRows, history, FilesInv, BasicInv, FilesTyped
<1>2. CASE /\ event' = FALSE /\ owner' = [w \in Owners |-> Gone] /\ images' = {}
           /\ status' = [r \in Regs |-> IF status[r] = "none" THEN "none" ELSE "removed"]
           /\ Goto(o, "enqueue")
  <2>1. /\ Only(o) /\ req'[o].at = "enqueue" /\ req'[o].kind = req[o].kind
        /\ req'[o].old = req[o].old /\ req'[o].on = req[o].on /\ req'[o].design = req[o].design
    BY <1>2, GotoSets DEF FilesInv, BasicInv, Steps, Doing
  <2>2. Removes(o)
    BY <1>1, <1>2, <2>1 DEF Removes
  <2> QED BY <2>2, RemovesKeep
<1>3. CASE Done(o) /\ UNCHANGED <<event, owner, images, status>>
  <2>1. req[o].at \notin Doing /\ req[o].at \notin Looking \cup {"save"}
    BY <1>1 DEF Doing, Looking
  <2> QED BY <1>1, <1>3, <2>1, DoneKeeps DEF Kept
<1>4. QED
  BY <1>2, <1>3 DEF RemoveRows

-----------------------------------------------------------------------------
(* The theorems.                                                           *)

LEMMA FilesInit == Init => FilesInv
<1> SUFFICES ASSUME Init PROVE FilesInv
  OBVIOUS
<1> USE DEF Init, InitTickets, InitUploads
<1>1. /\ event = TRUE /\ images = {} /\ named = {} /\ disk = Owners \ {Special}
      /\ \A w \in Owners : owner[w] = IF w = Special THEN Gone ELSE Created(w)
      /\ \A o \in Ops : req[o] = NewReq
  OBVIOUS
<1>2. /\ Gone \in OwnerRows /\ Gone.image = None /\ ~Gone.present
      /\ \A w \in Owners : /\ Created(w) \in OwnerRows /\ Created(w).present
                           /\ Created(w).id = w /\ Created(w).image = w
  BY DEF Gone, Created, OwnerRows, Files
<1>3. \A o \in Ops : req[o].at = "unborn" /\ req[o].on = {} /\ req[o].old = {} /\ req[o].file = None
  BY <1>1, NewTyped
<1>4. BasicInv
  <2>1. FilesTyped
    BY <1>2, NewTyped DEF FilesTyped
  <2>2. RowsHold
    BY <1>1, <1>2 DEF RowsHold, Settled
  <2>3. \A o \in Ops : RequestHolds(o, req[o])
    BY <1>3 DEF RequestHolds, Looking, Drawing
  <2> QED BY <2>1, <2>2, <2>3 DEF BasicInv
<1>5. \A f \in Files, w \in Owners : Refers(f, w) => f = w /\ w # Special
  <2>1. None \notin Files
    BY <1>4, Names DEF BasicInv
  <2> QED BY <1>1, <1>2, <1>3, <2>1 DEF Refers, Looking
<1>6. EventFiles = Owners \ {Special}
  <2>1. \A w \in Owners : IF w = Special THEN ~owner[w].present
                          ELSE owner[w].present /\ owner[w].image = w /\ w # None
    BY <1>1, <1>2
  <2>2. {i.path : i \in images} = {}
    BY <1>1
  <2>3. \A f : f \in EventFiles <=>
          \E w \in Owners : owner[w].present /\ owner[w].image # None /\ f = owner[w].image
    BY <2>2 DEF EventFiles
  <2>4. \A f \in EventFiles : f \in Owners \ {Special}
    BY <2>1, <2>3
  <2>5. \A f \in Owners \ {Special} : f \in EventFiles
    BY <2>1, <2>3
  <2> QED BY <2>4, <2>5
<1>7. NamedInv
  <2>1. OneHome
    BY <1>5 DEF OneHome
  <2>2. PathsApart /\ Stored /\ Doomed
    BY <1>1, <1>3 DEF PathsApart, Stored, Doomed, Drawing, Looking, Doing
  <2>3. NamedFilesExist
    BY <1>1, <1>6 DEF NamedFilesExist, RowFiles
  <2> QED BY <2>1, <2>2, <2>3 DEF NamedInv
<1>8. TicketInv
  BY <1>1, <1>2, <1>3 DEF TicketInv, Drawing
<1>9. StrayInv
  <2>1. Busy = {}
    BY <1>3 DEF Busy
  <2>2. Overlap
    BY <2>1 DEF Overlap
  <2>3. Explained
    BY <1>1, <1>6 DEF Explained, Away
  <2>4. \A o \in Ops : Aware(o, req[o])
    BY <1>3 DEF Aware, Drawing
  <2> QED BY <2>2, <2>3, <2>4 DEF StrayInv
<1>10. QED
  BY <1>4, <1>7, <1>8, <1>9 DEF FilesInv

LEMMA FilesNext == FilesInv /\ [Next]_vars => FilesInv'
<1> SUFFICES ASSUME FilesInv, [Next]_vars PROVE FilesInv'
  OBVIOUS
<1>1. CASE UNCHANGED vars
  BY <1>1, StillKeeps DEF vars, history, ticketVars, FilesInv, BasicInv, FilesTyped
<1>2. ASSUME NEW o \in Ops, Begin(o) PROVE FilesInv'
  <2>1. CASE (UploadBranding(o) \/ UploadTemplate(o) \/ Patch(o) \/ Remove(o)) /\ UNCHANGED ticketVars
    <3>1. Brandings \in SUBSET Owners /\ Scopes \in SUBSET Owners
      BY DEF Owners
    <3> QED BY <2>1, <3>1, UploadKeeps, PatchKeeps, RemoveKeeps DEF UploadBranding, UploadTemplate
  <2>2. CASE Register(o) \/ Request(o) \/ TakeJob(o)
    BY <2>2, TicketRequestsKeep
  <2>3. CASE RemoveEvent(o) \/ CleanupFiles(o) \/ CleanupOrphans(o)
    BY <2>3, CleanupsKeep
  <2> QED BY <1>2, <2>1, <2>2, <2>3 DEF Begin
<1>3. ASSUME NEW o \in Ops, RunUpload(o), UNCHANGED ticketVars PROVE FilesInv'
  BY <1>3, CheckKeeps, CommitKeeps, UnlinkKeeps DEF RunUpload, DeleteFiles
<1>4. ASSUME NEW o \in Ops, RunTicket(o) PROVE FilesInv'
  BY <1>4, ResolveKeeps, DrawKeeps, RenderKeeps, SaveKeeps DEF RunTicket
<1>5. ASSUME NEW o \in Ops, CrashTicket(o) \/ RemoveRows(o) \/ Enqueue(o) \/ RunCleanupJob(o)
      PROVE  FilesInv'
  BY <1>5, CrashKeeps, RemoveRowsKeeps, EnqueueKeeps, UnlinkKeeps DEF RunCleanupJob
<1>6. ASSUME NEW r \in Regs, RunPipeline(r) \/ Poll(r) \/ Withdraw(r) PROVE FilesInv'
  BY <1>6, RegistrationsKeep
<1>7. QED
  BY <1>1, <1>2, <1>3, <1>4, <1>5, <1>6 DEF Next

\* What is on the disk, in the rows and in the hands of requests keeps together,
\* in whatever order uploads, tickets and cleanups take their steps.
THEOREM FilesInductive == Spec => []FilesInv
BY FilesInit, FilesNext, PTL DEF Spec

\* The file a row names exists: deleteReplacedFiles, the replaced ticket and the
\* cleanup of a removed event delete no file that a row names.
THEOREM NamedFiles == Spec => []NamedFilesExist
<1>1. FilesInv => NamedFilesExist
  BY DEF FilesInv, NamedInv
<1>2. QED
  BY <1>1, FilesInductive, PTL

\* A file that no row names is in the hands of a request or a job, or was left
\* for a reason: a crash, an overlap, a refused body, a removed registration.
THEOREM NoUnexplainedStrays == Spec => []StraysAreExplained
<1>1. FilesInv => StraysAreExplained
  <2> SUFFICES ASSUME FilesInv, NEW f \in disk \cap (Ops \cup Owners), f \notin RowFiles
               PROVE  Held(f) \/ f \in lost \cup met
    BY DEF StraysAreExplained
  <2>1. Away(f)
    BY DEF FilesInv, StrayInv, Explained, Files, RowFiles
  <2>2. Carried(f) => Held(f)
    BY DEF Carried, Held, Looking, Doing
  <2> QED BY <2>1, <2>2 DEF Away
<1>2. QED
  BY <1>1, FilesInductive, PTL

\* findExistingImage goes by the template's id and version: the ticket it finds
\* shows the template as it is.
THEOREM ReusedTickets == Spec => []ReusedTicketIsCurrent
<1>1. FilesInv => ReusedTicketIsCurrent
  BY DEF FilesInv, TicketInv, Snap, ReusedTicketIsCurrent
<1>2. QED
  BY <1>1, FilesInductive, PTL
=============================================================================
