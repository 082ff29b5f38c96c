--------------------------- MODULE VisitorJournal ---------------------------
(***************************************************************************)
(* VisitorsService and VisitorRealtimeService: the VisitorChange journal   *)
(* that triggers on Registration and QrToken fill, the offline snapshot    *)
(* and the delta pages a staff device reads, and the notifications that    *)
(* tell it to read them.  One event, one device.  Ids are taken from the   *)
(* table's AUTO_INCREMENT when a statement runs, and stand for createdAt   *)
(* and changedAt too; a row is visible once its transaction commits.       *)
(***************************************************************************)
EXTENDS Naturals, FiniteSets, FiniteSetsExt

CONSTANTS
  Visitors,    \* registrations
  Writers,     \* database transactions at a time
  MaxChanges,  \* bound on journal rows
  PageSize,    \* limit of a delta page
  StockPage,   \* limit of a snapshot page
  PollSize,    \* rows pollJournal takes at a time
  MaxLosses    \* bound on lost answers and broken connections

ASSUME JournalAssumption ==
  /\ IsFiniteSet(Visitors)
  /\ MaxChanges \in Nat /\ MaxLosses \in Nat
  /\ {PageSize, StockPage, PollSize} \subseteq Nat \ {0}

VARIABLES
  content,   \* version of a visitor's registration and QR, 0 when there is none
  created,   \* createdAt
  journal,   \* committed VisitorChange rows
  nextId,    \* AUTO_INCREMENT
  tx,        \* the row of a transaction under way
  observed,  \* lastObservedId of the poller
  cursor, stock, mode,    \* the device: its cursor, its visitors, what it does
  page,      \* the request the device has in flight
  live,      \* the SSE connection: "off", "opening" or "on"
  wake,      \* a notification the device has not followed yet
  late,      \* visitors with a row committed after one of a higher id (history)
  losses

database == <<content, created, journal, nextId, tx, late>>
device == <<cursor, stock, mode, page, live, wake>>
vars == <<database, observed, device, losses>>

Ids == 1..MaxChanges
Versions == 0..MaxChanges
Changes == [id : Ids, visitor : Visitors, operation : {"UPSERT", "DELETE"}]
NoTx == [id |-> 0]
NoPage == [step |-> "none"]

TypeOK ==
  /\ content \in [Visitors -> Versions] /\ created \in [Visitors -> 0..MaxChanges]
  /\ journal \subseteq Changes
  /\ nextId \in 1..(MaxChanges + 1)
  /\ \A w \in Writers : tx[w] = NoTx \/ tx[w] \in Changes
  /\ {observed, cursor} \subseteq 0..MaxChanges
  /\ stock \in [Visitors -> Versions]
  /\ mode \in {"empty", "snapshot", "ready"}
  /\ live \in {"off", "opening", "on"} /\ wake \in BOOLEAN
  /\ losses \in 0..MaxLosses
  /\ late \subseteq Visitors

-----------------------------------------------------------------------------
MaxId(rows) == Max({c.id : c \in rows} \cup {0})

\* The first n rows of a set, by id.
FirstById(rows, n) ==
  {c \in rows : Cardinality({d \in rows : d.id <= c.id}) <= n}

Current == {w \in Writers : tx[w] # NoTx}

\* A statement creates, changes or deletes a visitor; the trigger inserts the
\* journal row, which takes the next id.  A deleted id is never used again.
Write(w, v, operation) ==
  /\ tx[w] = NoTx
  /\ nextId <= MaxChanges
  /\ \A x \in Current : tx[x].visitor # v    \* the row lock
  /\ operation = "DELETE" => content[v] # 0
  /\ (operation = "UPSERT" /\ content[v] = 0) => created[v] = 0
  /\ tx' = [tx EXCEPT ![w] = [id |-> nextId, visitor |-> v, operation |-> operation]]
  /\ created' = IF created[v] = 0 THEN [created EXCEPT ![v] = nextId] ELSE created
  /\ nextId' = nextId + 1
  /\ UNCHANGED <<content, journal, late, observed, device, losses>>

Commit(w) ==
  /\ tx[w] # NoTx
  /\ journal' = journal \cup {tx[w]}
  /\ content' = [content EXCEPT ![tx[w].visitor] =
                   IF tx[w].operation = "DELETE" THEN 0 ELSE tx[w].id]
  /\ tx' = [tx EXCEPT ![w] = NoTx]
  /\ late' = IF tx[w].id < MaxId(journal) THEN late \cup {tx[w].visitor} ELSE late
  /\ UNCHANGED <<created, nextId, observed, device, losses>>

-----------------------------------------------------------------------------
(* The offline snapshot, read in pages by createdAt.                       *)

\* snapshotAsOf is fixed by the first page.
BeginSnapshot ==
  /\ mode = "empty"
  /\ page' = [step |-> "cursor", asOf |-> nextId - 1]
  /\ mode' = "snapshot"
  /\ UNCHANGED <<database, observed, cursor, stock, live, wake, losses>>

\* getLatestVisitorChangeCursorAt: the newest row no younger than snapshotAsOf.
TakeCursor ==
  /\ page.step = "cursor"
  /\ page' = [step |-> "stock", asOf |-> page.asOf, after |-> 0,
              change |-> MaxId({c \in journal : c.id <= page.asOf})]
  /\ UNCHANGED <<database, observed, cursor, stock, mode, live, wake, losses>>

\* Mutant: the snapshot's last page reads the cursor again.
SnapshotCursorLate(change) == MaxId(journal)

\* The pages carry the first one's cursor along.
SnapshotCursor(change) == change

\* A page of visitors created before snapshotAsOf, as they are now.
ReadStock ==
  /\ page.step = "stock"
  /\ LET left == {v \in Visitors : content[v] # 0 /\ created[v] \in (page.after + 1)..page.asOf}
         items == {v \in left : Cardinality({u \in left : created[u] <= created[v]}) <= StockPage}
     IN /\ stock' = [v \in Visitors |-> IF v \in items THEN content[v] ELSE stock[v]]
        /\ IF items # left
           THEN /\ page' = [page EXCEPT !.after = Max({created[v] : v \in items})]
                /\ UNCHANGED <<cursor, mode>>
           ELSE /\ page' = NoPage
                /\ cursor' = SnapshotCursor(page.change)
                /\ mode' = "ready"
  /\ UNCHANGED <<database, observed, live, wake, losses>>

-----------------------------------------------------------------------------
(* The delta pages.                                                        *)

\* findChangesForStaff: a page of journal rows after the device's cursor.
BeginChanges ==
  /\ mode = "ready" /\ live = "on" /\ wake
  /\ page = NoPage
  /\ LET rows == {c \in journal : c.id > cursor}
     IN page' = [step |-> "visitors", rows |-> FirstById(rows, PageSize),
                 more |-> Cardinality(rows) > PageSize]
  /\ wake' = FALSE
  /\ UNCHANGED <<database, observed, cursor, stock, mode, live, losses>>

\* Only the newest operation of a visitor in the page counts.
Newest(rows, v) ==
  CHOOSE c \in rows : c.visitor = v /\ \A d \in rows : d.visitor = v => d.id <= c.id

\* The visitors are read after the rows: they may be newer, or gone.
ReadVisitors ==
  /\ page.step = "visitors"
  /\ LET rows == page.rows
         changed == {c.visitor : c \in rows}
         \* what the device will hold; a visitor that is gone is left to its DELETE
         After(v) == IF v \notin changed THEN stock[v]
                     ELSE IF Newest(rows, v).operation = "DELETE" THEN 0
                     ELSE IF content[v] # 0 THEN content[v] ELSE stock[v]
     IN page' = [step |-> "latest", stock |-> [v \in Visitors |-> After(v)],
                 next |-> IF rows = {} THEN cursor ELSE MaxId(rows), more |-> page.more]
  /\ UNCHANGED <<database, observed, cursor, stock, mode, live, wake, losses>>

\* The answer's cursor is that of the page's last row.
NextCursor(next) == next

\* Mutant: a full page is taken for the last one.
HasMoreNever(next, more) == FALSE

\* A change may have been committed after the page was read.
HasMore(next, more) == more \/ next < MaxId(journal)

\* The device stores the page with its cursor and asks for more.
ApplyChanges ==
  /\ page.step = "latest"
  /\ stock' = page.stock
  /\ cursor' = NextCursor(page.next)
  /\ wake' = (wake \/ HasMore(page.next, page.more))
  /\ page' = NoPage
  /\ UNCHANGED <<database, observed, mode, live, losses>>

-----------------------------------------------------------------------------
(* Notifications.                                                          *)

\* pollJournal: lastObservedId advances, and subscribers hear of it.
Poll ==
  /\ LET rows == FirstById({c \in journal : c.id > observed}, PollSize)
     IN /\ rows # {}
        /\ observed' = MaxId(rows)
  /\ wake' = (wake \/ live = "on")
  /\ UNCHANGED <<database, cursor, stock, mode, page, live, losses>>

\* onModuleInit: a restarted process observes from the journal's end.
RestartPoller ==
  /\ losses < MaxLosses
  /\ losses' = losses + 1
  /\ observed' = MaxId(journal)
  /\ live' = "off"
  /\ page' = IF mode = "snapshot" THEN page ELSE NoPage
  /\ UNCHANGED <<database, cursor, stock, mode, wake>>

\* streamForStaff reads the latest cursor, then subscribes; the device reads
\* the journal whenever a connection is made.
Connect ==
  /\ live = "off"
  /\ live' = "opening"
  /\ UNCHANGED <<database, observed, cursor, stock, mode, page, wake, losses>>

Subscribe ==
  /\ live = "opening"
  /\ live' = "on"
  /\ wake' = TRUE
  /\ UNCHANGED <<database, observed, cursor, stock, mode, page, losses>>

\* The network fails: the stream ends and an answer is lost.
Disconnect ==
  /\ live # "off"
  /\ losses < MaxLosses
  /\ losses' = losses + 1
  /\ live' = "off"
  /\ page' = IF mode = "snapshot" THEN page ELSE NoPage
  /\ UNCHANGED <<database, observed, cursor, stock, mode, wake>>

-----------------------------------------------------------------------------
Init ==
  /\ content = [v \in Visitors |-> 0]
  /\ created = [v \in Visitors |-> 0]
  /\ journal = {}
  /\ nextId = 1
  /\ tx = [w \in Writers |-> NoTx]
  /\ observed = 0
  /\ cursor = 0
  /\ stock = [v \in Visitors |-> 0]
  /\ mode = "empty"
  /\ page = NoPage
  /\ live = "off"
  /\ wake = FALSE
  /\ losses = 0
  /\ late = {}

Serve ==
  \/ TakeCursor \/ ReadStock \/ BeginChanges \/ ReadVisitors \/ ApplyChanges
  \/ Connect \/ Subscribe

Next ==
  \/ \E w \in Writers : \/ Commit(w)
                        \/ \E v \in Visitors, op \in {"UPSERT", "DELETE"} : Write(w, v, op)
  \/ Serve \/ BeginSnapshot \/ Poll \/ RestartPoller \/ Disconnect

Spec == Init /\ [][Next]_vars

\* The poller runs every 500 ms; the device reconnects (retry: 1500), downloads
\* its snapshot and follows notifications; transactions end.
FairSpec ==
  /\ Spec
  /\ WF_vars(Serve) /\ WF_vars(BeginSnapshot) /\ WF_vars(Poll)
  /\ \A w \in Writers : WF_vars(Commit(w))

-----------------------------------------------------------------------------
(* Properties.                                                             *)

\* docs/realtime-visitors-upgrade.md says of the cursor: "Safe after disconnects,
\* browser restarts, and missed SSE messages."  A device holds every visitor as
\* the database does, unless a journal row after its cursor says otherwise: no
\* snapshot page, delta page, lost answer or restart puts the cursor past a
\* change the device does not have.  Visitors whose rows were committed out of
\* the order of their ids are excepted: the cursor passes those.
CursorCoversStock ==
  mode = "ready" =>
    \A v \in Visitors \ late :
      (\A c \in journal : c.visitor = v => c.id <= cursor) => stock[v] = content[v]

\* Once the writers stop, the device holds every visitor, with the exception
\* above, as the database does, however often its connection broke and the
\* poller restarted.
StockConverges ==
  <>[](mode = "ready" /\ \A v \in Visitors \ late : stock[v] = content[v])
=============================================================================
