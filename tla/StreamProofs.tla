---------------------------- MODULE StreamProofs ----------------------------
(***************************************************************************)
(* Proofs about the two logs that readers follow with a position of their  *)
(* own, the Redis stream of scans and the VisitorChange journal: for any   *)
(* readers, writers and page sizes, no position passes over an entry its   *)
(* reader does not have.                                                   *)
(***************************************************************************)
EXTENDS RedisScanStream, VisitorJournal, FiniteSetTheorems, FunctionTheorems,
        WellFoundedInduction, TLAPS

-----------------------------------------------------------------------------
(* RedisScanStream: the stream and the processes that flush it.            *)

\* The entries a flusher has read are those that follow its position.
InOrder(i) ==
  /\ lastId[i] + Len(batch[i]) <= Len(stream)
  /\ \A n \in 1..Len(batch[i]) : batch[i][n] = stream[lastId[i] + n]

FlushInv == StreamTypeOK /\ NothingSkipped /\ \A i \in Flushers : InOrder(i)

\* The stream is empty at first.
LEMMA FlushInit == StreamInit => FlushInv
  BY StreamAssumption DEF StreamInit, FlushInv, StreamTypeOK, NothingSkipped, InOrder

\* Steps that add to the stream at most, and leave the flushers alone.
LEMMA FlushersKept ==
  ASSUME FlushInv, StreamTypeOK', UNCHANGED <<lastId, batch, stored>>,
         stream' = stream \/ \E o \in Scans : stream' = Append(stream, o)
  PROVE  FlushInv'
<1>1. /\ stream \in Seq(Scans) /\ Len(stream) \in Nat /\ Len(stream) <= Len(stream')
      /\ \A n \in 1..Len(stream) : stream'[n] = stream[n]
  BY DEF FlushInv, StreamTypeOK
<1>2. \A i \in Flushers : /\ lastId[i] \in 0..Len(stream) /\ Len(batch[i]) \in Nat
                          /\ lastId'[i] = lastId[i] /\ batch'[i] = batch[i]
  BY DEF FlushInv, StreamTypeOK
<1>3. NothingSkipped'
  BY <1>1, <1>2 DEF FlushInv, NothingSkipped
<1>4. Len(stream') \in Nat
  BY DEF StreamTypeOK
<1>5. \A i \in Flushers : InOrder(i)'
  BY <1>1, <1>2, <1>4 DEF FlushInv, InOrder
<1> QED
  BY <1>3, <1>5 DEF FlushInv

\* A process reads what follows its position.
LEMMA ReadStep ==
  ASSUME FlushInv, NEW i \in Flushers, Read(i)
  PROVE  FlushInv'
<1> DEFINE unread == SubSeq(stream, lastId[i] + 1, Len(stream))
           size == IF Len(unread) < BatchSize THEN Len(unread) ELSE BatchSize
           entries == SubSeq(unread, 1, size)
<1>0. StreamTypeOK /\ stream \in Seq(Scans) /\ Len(stream) \in Nat /\ lastId[i] \in 0..Len(stream)
  BY DEF FlushInv, StreamTypeOK
<1>1. /\ batch' = [batch EXCEPT ![i] = entries] /\ lastId' = [lastId EXCEPT ![i] = lastId[i]]
      /\ stream' = stream /\ stored' = stored
      /\ UNCHANGED <<keys, raw, adding, accepted, faults>>
  BY DEF Read, PositionAfterRead
<1>2. /\ unread \in Seq(Scans) /\ Len(unread) = Len(stream) - lastId[i]
      /\ \A n \in 1..Len(unread) : unread[n] = stream[lastId[i] + n]
  BY <1>0
<1>3. size \in 0..Len(unread)
  BY <1>2, StreamAssumption
<1> HIDE DEF unread, size
<1>4. entries \in Seq(Scans) /\ Len(entries) = size /\ \A n \in 1..size : entries[n] = unread[n]
  BY <1>2, <1>3
<1> HIDE DEF entries
<1>5. lastId' = lastId
  BY <1>0, <1>1 DEF StreamTypeOK
<1>6. StreamTypeOK'
  BY <1>0, <1>1, <1>4, <1>5 DEF StreamTypeOK
<1>7. NothingSkipped'
  BY <1>1, <1>5 DEF FlushInv, NothingSkipped
<1>8. InOrder(i)'
  BY <1>0, <1>1, <1>2, <1>3, <1>4, <1>5 DEF InOrder, StreamTypeOK
<1>9. \A j \in Flushers \ {i} : InOrder(j)'
  BY <1>0, <1>1, <1>5 DEF FlushInv, InOrder, StreamTypeOK
<1> QED
  BY <1>6, <1>7, <1>8, <1>9 DEF FlushInv

\* Its position passes over a batch with the insertion that stored it, or stays.
LEMMA InsertStep ==
  ASSUME FlushInv, NEW i \in Flushers, Insert(i)
  PROVE  FlushInv'
<1>0. /\ StreamTypeOK /\ stream \in Seq(Scans) /\ Len(stream) \in Nat /\ lastId[i] \in 0..Len(stream)
      /\ batch[i] \in Seq(Scans) /\ Len(batch[i]) \in Nat /\ InOrder(i) /\ stream' = stream
      /\ batch' = [batch EXCEPT ![i] = <<>>] /\ UNCHANGED <<keys, adding, accepted>>
  BY DEF FlushInv, StreamTypeOK, Insert
<1>1. CASE UNCHANGED <<raw, stored, lastId>> /\ Fault
  <2>1. StreamTypeOK'
    BY <1>0, <1>1, StreamAssumption DEF StreamTypeOK, Fault
  <2>2. NothingSkipped' /\ \A j \in Flushers : InOrder(j)'
    BY <1>0, <1>1 DEF FlushInv, NothingSkipped, InOrder, StreamTypeOK
  <2> QED
    BY <2>1, <2>2 DEF FlushInv
<1>2. CASE /\ raw' = [o \in Scans |-> IF o \in ToSet(batch[i]) THEN Store(o) ELSE raw[o]]
           /\ stored' = stored \cup (ToSet(batch[i]) \ Orphans)
           /\ lastId' = [lastId EXCEPT ![i] = lastId[i] + Len(batch[i])]
           /\ faults' = faults
  <2>1. \A n \in 1..Len(batch[i]) : batch[i][n] \in ToSet(batch[i])
    BY <1>0 DEF ToSet
  <2>2. ToSet(batch[i]) \subseteq Scans
    BY <1>0 DEF ToSet
  <2>3. /\ lastId'[i] = lastId[i] + Len(batch[i]) /\ lastId[i] + Len(batch[i]) \in 0..Len(stream)
        /\ \A j \in Flushers \ {i} : lastId'[j] = lastId[j] /\ batch'[j] = batch[j]
        /\ batch'[i] = <<>>
    BY <1>0, <1>2 DEF StreamTypeOK, InOrder
  <2>4. StreamTypeOK'
    <3>1. raw' \in [Scans -> {"NONE", "PENDING", "DECIDED"}]
      BY <1>0, <1>2 DEF StreamTypeOK, Store
    <3>2. lastId' \in [Flushers -> 0..Len(stream)] /\ batch' \in [Flushers -> Seq(Scans)]
      BY <1>0, <1>2, <2>3 DEF StreamTypeOK
    <3> QED
      BY <1>0, <1>2, <2>2, <3>1, <3>2 DEF StreamTypeOK
  <2>5. ASSUME NEW n \in 1..lastId'[i] PROVE stream[n] \in stored' \cup Orphans
    <3>1. CASE n <= lastId[i]
      BY <1>0, <1>2, <2>3, <3>1 DEF FlushInv, NothingSkipped
    <3>2. CASE n > lastId[i]
      <4>1. n - lastId[i] \in 1..Len(batch[i]) /\ lastId[i] + (n - lastId[i]) = n
        BY <1>0, <2>3, <3>2
      <4>2. stream[n] = batch[i][n - lastId[i]]
        BY <1>0, <4>1 DEF InOrder
      <4> QED
        BY <1>2, <2>1, <4>1, <4>2
    <3> QED
      BY <1>0, <2>3, <3>1, <3>2
  <2>6. NothingSkipped'
    BY <1>0, <1>2, <2>3, <2>5 DEF FlushInv, NothingSkipped
  <2>7. \A j \in Flushers : InOrder(j)'
    BY <1>0, <2>3 DEF FlushInv, InOrder
  <2> QED
    BY <2>4, <2>6, <2>7 DEF FlushInv
<1> QED
  BY <1>1, <1>2 DEF Insert, PositionAfterStore

\* A new process starts over, which passes over nothing.
LEMMA RestartStep ==
  ASSUME FlushInv, NEW i \in Flushers, Restart(i)
  PROVE  FlushInv'
<1>1. StreamTypeOK'
  BY StreamAssumption DEF FlushInv, StreamTypeOK, Restart, Fault
<1>2. NothingSkipped' /\ \A j \in Flushers : InOrder(j)'
  BY DEF FlushInv, StreamTypeOK, Restart, NothingSkipped, InOrder
<1> QED
  BY <1>1, <1>2 DEF FlushInv

\* Every step keeps the invariant.
LEMMA FlushStep ==
  ASSUME FlushInv, [StreamNext]_streamVars
  PROVE  FlushInv'
<1>0. StreamTypeOK /\ NoScan \notin Scans
  BY StreamAssumption DEF FlushInv
<1>1. CASE \E r \in Requests : Add(r) \/ \E o \in Scans : Submit(r, o)
  <2>1. PICK r \in Requests : Add(r) \/ \E o \in Scans : Submit(r, o)
    BY <1>1
  <2>2. UNCHANGED <<lastId, batch, stored>> /\ (stream' = stream \/ \E o \in Scans : stream' = Append(stream, o))
    BY <1>0, <2>1 DEF Add, Submit, StreamTypeOK
  <2>3. StreamTypeOK'
    <3>1. CASE Add(r)
      <4>1. adding[r] \in Scans /\ Len(stream) \in Nat
        BY <1>0, <3>1 DEF Add, StreamTypeOK
      <4>2. stream' \in Seq(Scans) /\ Len(stream') \in Nat /\ Len(stream) <= Len(stream')
        BY <1>0, <3>1, <4>1 DEF Add, StreamTypeOK
      <4>3. lastId' \in [Flushers -> 0..Len(stream')]
        BY <1>0, <3>1, <4>1, <4>2 DEF Add, StreamTypeOK
      <4> QED
        BY <1>0, <3>1, <4>1, <4>2, <4>3, StreamAssumption DEF Add, StreamTypeOK, Fault
    <3>2. CASE \E o \in Scans : Submit(r, o)
      BY <1>0, <3>2 DEF Submit, StreamTypeOK
    <3> QED
      BY <2>1, <3>1, <3>2
  <2> QED
    BY <2>2, <2>3, FlushersKept
<1>2. CASE \E i \in Flushers : Flush(i) \/ Restart(i)
  BY <1>2, ReadStep, InsertStep, RestartStep DEF Flush
<1>3. CASE \E o \in Scans : KeyExpires(o) \/ DecideElsewhere(o) \/ RemoveAttendee(o)
  <2>1. UNCHANGED <<lastId, batch, stored>> /\ stream' = stream
    BY <1>3 DEF KeyExpires, DecideElsewhere, RemoveAttendee
  <2>2. StreamTypeOK'
    BY <1>0, <1>3, StreamAssumption DEF KeyExpires, DecideElsewhere, RemoveAttendee, StreamTypeOK, Fault
  <2> QED
    BY <2>1, <2>2, FlushersKept
<1>4. CASE UNCHANGED streamVars
  <2>1. StreamTypeOK' /\ UNCHANGED <<lastId, batch, stored, stream>>
    BY <1>0, <1>4 DEF streamVars, StreamTypeOK
  <2> QED
    BY <2>1, FlushersKept
<1> QED
  BY <1>1, <1>2, <1>3, <1>4 DEF StreamNext

\* The invariant holds in every state.
THEOREM FlushInductive == StreamSpec => []FlushInv
  BY FlushInit, FlushStep, PTL DEF StreamSpec

\* Behind the position of a process everything is stored, whatever fails, restarts or
\* flushes beside it.
THEOREM NothingIsSkipped == StreamSpec => []NothingSkipped
  BY FlushInductive, PTL DEF FlushInv

USE JournalAssumption

-----------------------------------------------------------------------------
(* VisitorJournal: the journal.                                            *)

\* Ids are taken in the order of the statements, and each once.
Numbered ==
  /\ \A c \in journal : c.id < nextId
  /\ \A c, d \in journal : c.id = d.id => c = d
  /\ \A w \in Current : tx[w].id < nextId /\ \A c \in journal : c.id # tx[w].id
  /\ \A w, x \in Current : tx[w].id = tx[x].id => w = x

\* The row lock: the rows of one visitor are committed in the order of their ids.
Locked ==
  /\ \A w, x \in Current : tx[w].visitor = tx[x].visitor => w = x
  /\ \A w \in Current, c \in journal : c.visitor = tx[w].visitor => c.id < tx[w].id

\* The first row of a visitor is the one that creates it.
CreatedHolds ==
  /\ \A v \in Visitors : created[v] < nextId
  /\ \A u, v \in Visitors : created[u] = created[v] /\ created[u] # 0 => u = v
  /\ \A c \in journal : created[c.visitor] \in 1..c.id
  /\ \A w \in Current : created[tx[w].visitor] \in 1..tx[w].id

LastRow(c) == \A d \in journal : d.visitor = c.visitor => d.id <= c.id

\* A visitor is as its last row says.
ContentHolds ==
  /\ \A v \in Visitors : (\A c \in journal : c.visitor # v) => content[v] = 0
  /\ \A c \in journal :
       LastRow(c) => content[c.visitor] = IF c.operation = "DELETE" THEN 0 ELSE c.id

DatabaseTyped ==
  /\ content \in [Visitors -> Nat] /\ created \in [Visitors -> Nat]
  /\ journal \subseteq Changes
  /\ nextId \in Nat \ {0}
  /\ tx \in [Writers -> {NoTx} \cup Changes]
  /\ late \subseteq Visitors

DatabaseInv == DatabaseTyped /\ Numbered /\ Locked /\ CreatedHolds /\ ContentHolds

-----------------------------------------------------------------------------
(* The device.                                                             *)

\* A cursor is 0 or the id of a committed row.
Reached(x) == x = 0 \/ \E c \in journal : c.id = x

\* A visitor held as s is as the database has it, or a row after x says otherwise.
Covered(v, s, x) ==
  v \in late \/ s = content[v] \/ \E c \in journal : c.visitor = v /\ c.id > x

DeviceTyped ==
  /\ stock \in [Visitors -> Nat] /\ cursor \in Nat
  /\ mode \in {"empty", "snapshot", "ready"}
  /\ page.step \in {"cursor", "stock"} => mode = "snapshot"
  /\ page.step \in {"visitors", "latest"} => mode = "ready"

StockHolds ==
  /\ mode = "empty" \/ page.step = "cursor" => \A v \in Visitors : stock[v] = 0
  /\ mode = "ready" => Reached(cursor) /\ \A v \in Visitors : Covered(v, stock[v], cursor)

\* The pages of a snapshot have passed the visitors created up to page.after.
SnapshotHolds ==
  /\ page.step = "cursor" => page.asOf \in Nat /\ page.asOf < nextId
  /\ page.step = "stock" =>
       /\ page \in [step : {"stock"}, asOf : Nat, after : Nat, change : Nat]
       /\ page.asOf < nextId /\ page.change <= page.asOf /\ page.after <= page.asOf
       /\ Reached(page.change)
       /\ \A v \in Visitors :
            IF created[v] \in 1..page.after THEN Covered(v, stock[v], page.change)
                                            ELSE stock[v] = 0

\* A delta page has every row from the cursor to its last one, but those that were
\* committed late.
ChangesHold ==
  /\ page.step = "visitors" =>
       /\ page.rows \subseteq journal
       /\ \A c \in page.rows : c.id > cursor
       /\ \A c \in journal, d \in page.rows :
            c.visitor \notin late /\ c.id > cursor /\ c.id <= d.id => c \in page.rows
  /\ page.step = "latest" =>
       /\ page.stock \in [Visitors -> Nat] /\ page.next \in Nat /\ Reached(page.next)
       /\ \A v \in Visitors : Covered(v, page.stock[v], page.next)

DeviceInv == DeviceTyped /\ StockHolds /\ SnapshotHolds /\ ChangesHold

JournalInv == DatabaseInv /\ DeviceInv

-----------------------------------------------------------------------------
(* Sets of numbers and of rows.                                            *)

LEMMA Least ==
  ASSUME NEW T \in SUBSET Nat, T # {}
  PROVE  \E x \in T : \A y \in T : x <= y
<1>1. \E x \in T : \A y \in T : ~(<<y, x>> \in OpToRel(<, Nat))
  BY WFMin, NatLessThanWellFounded, Zenon
<1>2. PICK x \in T : \A y \in T : ~(<<y, x>> \in OpToRel(<, Nat))
  BY <1>1, Zenon
<1>3. \A y \in T : <<y, x>> \in OpToRel(<, Nat) <=> y < x
  BY DEF OpToRel
<1>4. \A y \in T : ~(y < x)
  BY <1>2, <1>3, Zenon
<1>5. QED
  BY <1>4

\* A bounded set of numbers has a greatest: its least bound.
LEMMA MaxOfBounded ==
  ASSUME NEW S \in SUBSET Nat, S # {}, NEW b \in Nat, \A x \in S : x <= b
  PROVE  Max(S) \in S /\ \A x \in S : x <= Max(S)
<1>1. PICK m \in {c \in Nat : \A x \in S : x <= c} :
         \A c \in {d \in Nat : \A x \in S : x <= d} : m <= c
  <2> DEFINE T == {c \in Nat : \A x \in S : x <= c}
  <2>1. T \in SUBSET Nat /\ T # {}
    OBVIOUS
  <2> HIDE DEF T
  <2>2. \E x \in T : \A y \in T : x <= y
    BY <2>1, Least
  <2> QED BY <2>2 DEF T
<1>2. m \in S
  <2> SUFFICES ASSUME m \notin S PROVE FALSE
    OBVIOUS
  <2>1. \A x \in S : x < m
    BY <1>1
  <2>2. PICK s \in S : TRUE
    OBVIOUS
  <2>3. s < m /\ s \in Nat /\ m \in Nat
    BY <2>1
  <2>4. m - 1 \in Nat /\ \A x \in S : x <= m - 1
    BY <2>1, <2>3
  <2> QED BY <1>1, <2>3, <2>4
<1>3. \E x \in S : \A y \in S : x >= y
  BY <1>1, <1>2
<1>4. QED
  BY <1>3 DEF Max

LEMMA MaxIdOfRows ==
  ASSUME NEW rows \in SUBSET Changes
  PROVE  /\ MaxId(rows) \in Nat
         /\ \A c \in rows : c.id <= MaxId(rows)
         /\ MaxId(rows) = 0 \/ \E c \in rows : c.id = MaxId(rows)
         /\ rows # {} => \E c \in rows : c.id = MaxId(rows)
<1> DEFINE S == {c.id : c \in rows} \cup {0}
<1>1. S \in SUBSET Nat /\ S # {} /\ \A x \in S : x <= MaxChanges
  BY DEF Changes, Ids
<1>2. \A c \in rows : c.id \in S /\ c.id \in Nat \ {0}
  BY DEF Changes, Ids
<1>3. \A x \in S : x = 0 \/ \E c \in rows : c.id = x
  OBVIOUS
<1>4. MaxId(rows) = Max(S)
  BY DEF MaxId
<1> HIDE DEF S
<1>5. Max(S) \in S /\ \A x \in S : x <= Max(S)
  BY <1>1, MaxOfBounded
<1>6. MaxId(rows) \in Nat /\ \A c \in rows : c.id <= MaxId(rows)
  BY <1>1, <1>2, <1>4, <1>5
<1>7. MaxId(rows) = 0 \/ \E c \in rows : c.id = MaxId(rows)
  BY <1>3, <1>4, <1>5
<1>8. ASSUME rows # {} PROVE \E c \in rows : c.id = MaxId(rows)
  <2>1. PICK c \in rows : c.id \in Nat \ {0}
    BY <1>2, <1>8
  <2> QED BY <1>6, <1>7, <2>1
<1>9. QED
  BY <1>6, <1>7, <1>8

LEMMA FiniteRows ==
  ASSUME NEW rows \in SUBSET Changes, \A c, d \in rows : c.id = d.id => c = d
  PROVE  IsFiniteSet(rows)
<1> DEFINE f == [c \in rows |-> c.id]
<1>1. f \in Injection(rows, Ids)
  <2>1. f \in [rows -> Ids]
    BY DEF Changes
  <2>2. \A c, d \in rows : f[c] = f[d] => c = d
    OBVIOUS
  <2> HIDE DEF f
  <2> QED BY <2>1, <2>2, Fun_IsInj
<1>2. IsFiniteSet(Ids)
  BY FS_Interval DEF Ids
<1>3. QED
  BY <1>1, <1>2, FS_Injection

\* The first rows leave no gap.
LEMMA FirstClosed ==
  ASSUME NEW rows \in SUBSET Changes, IsFiniteSet(rows), NEW n \in Nat,
         NEW c \in FirstById(rows, n), NEW d \in rows, d.id <= c.id
  PROVE  d \in FirstById(rows, n)
<1> DEFINE Upto(x) == {e \in rows : e.id <= x}
<1>1. Upto(d.id) \in SUBSET Upto(c.id) /\ Upto(c.id) \in SUBSET rows
  BY DEF FirstById, Changes, Ids
<1>2. c \in rows /\ Cardinality(Upto(c.id)) <= n
  BY DEF FirstById
<1>3. IsFiniteSet(Upto(c.id)) /\ Cardinality(Upto(c.id)) \in Nat
  BY <1>1, FS_Subset, FS_CardinalityType
<1>4. Cardinality(Upto(d.id)) <= Cardinality(Upto(c.id)) /\ Cardinality(Upto(d.id)) \in Nat
  BY <1>1, <1>3, FS_Subset, FS_CardinalityType
<1>5. Cardinality(Upto(d.id)) <= n
  BY <1>2, <1>3, <1>4
<1>6. QED
  BY <1>5 DEF FirstById

-----------------------------------------------------------------------------
(* The transactions.                                                       *)

LEMMA RowsUnderWay ==
  ASSUME DatabaseTyped
  PROVE  /\ Current \subseteq Writers
         /\ \A w \in Current : tx[w] \in Changes /\ tx[w].visitor \in Visitors /\ tx[w].id \in Nat \ {0}
         /\ \A c \in journal : c \in Changes /\ c.visitor \in Visitors /\ c.id \in Nat \ {0}
         /\ \A w \in Writers : w \in Current <=> tx[w] # NoTx
BY DEF DatabaseTyped, Current, Changes, Ids

LEMMA WriteKeeps ==
  ASSUME DatabaseInv, NEW w \in Writers, NEW v \in Visitors, NEW operation \in {"UPSERT", "DELETE"},
         Write(w, v, operation)
  PROVE  DatabaseInv'
<1> DEFINE row == [id |-> nextId, visitor |-> v, operation |-> operation]
<1> USE DEF DatabaseInv
<1>1. /\ row \in Changes /\ row.id = nextId /\ row.visitor = v /\ nextId \in Nat \ {0}
      /\ row # NoTx
  BY DEF DatabaseTyped, Changes, Ids, Write, NoTx
<1>2. /\ tx' = [tx EXCEPT ![w] = row] /\ tx[w] = NoTx /\ nextId' = nextId + 1
      /\ \A x \in Current : tx[x].visitor # v
      /\ created' = IF created[v] = 0 THEN [created EXCEPT ![v] = nextId] ELSE created
      /\ UNCHANGED <<content, journal, late>>
  BY DEF Write
<1> HIDE DEF row
<1>3. /\ DatabaseTyped'
      /\ \A x \in Writers : tx'[x] = IF x = w THEN row ELSE tx[x]
      /\ \A u \in Visitors : created'[u] = IF u = v /\ created[v] = 0 THEN nextId ELSE created[u]
  BY <1>1, <1>2 DEF DatabaseTyped
<1>4. \A x \in Writers : x \in Current' <=> (x = w \/ x \in Current)
  BY <1>1, <1>2, <1>3 DEF Current
<1>5. Current' \subseteq Writers /\ w \notin Current
  BY <1>2 DEF Current
<1>6. Numbered'
  BY <1>1, <1>2, <1>3, <1>4, <1>5, RowsUnderWay DEF Numbered
<1>7. Locked'
  <2>1. \A x, y \in Current' : tx'[x].visitor = tx'[y].visitor => x = y
    BY <1>1, <1>2, <1>3, <1>4, <1>5 DEF Locked
  <2>2. ASSUME NEW x \in Current', NEW c \in journal, c.visitor = tx'[x].visitor
        PROVE  c.id < tx'[x].id
    BY <1>1, <1>3, <1>4, <1>5, <2>2 DEF Locked, Numbered
  <2> QED BY <1>2, <2>1, <2>2 DEF Locked
<1>8. CreatedHolds'
  <2>1. \A u \in Visitors : created'[u] < nextId'
    BY <1>1, <1>2, <1>3 DEF CreatedHolds, DatabaseTyped
  <2>2. \A u, x \in Visitors : created'[u] = created'[x] /\ created'[u] # 0 => u = x
    BY <1>1, <1>2, <1>3 DEF CreatedHolds
  <2>3. ASSUME NEW c \in journal PROVE created'[c.visitor] \in 1..c.id
    <3>1. c.visitor \in Visitors /\ created[c.visitor] \in 1..c.id
      BY RowsUnderWay DEF CreatedHolds
    <3> QED BY <1>3, <3>1
  <2>4. ASSUME NEW x \in Current' PROVE created'[tx'[x].visitor] \in 1..tx'[x].id
    <3>1. CASE x = w
      <4>1. created[v] \in Nat /\ created[v] < nextId
        BY DEF DatabaseTyped, CreatedHolds
      <4> QED BY <1>1, <1>3, <3>1, <4>1
    <3>2. CASE x # w
      <4>1. x \in Current /\ tx'[x] = tx[x]
        BY <1>3, <1>4, <1>5, <3>2
      <4>2. tx[x].visitor \in Visitors /\ created[tx[x].visitor] \in 1..tx[x].id
        BY <4>1, RowsUnderWay DEF CreatedHolds
      <4>3. tx[x].visitor # v
        BY <1>2, <4>1
      <4> QED BY <1>3, <4>1, <4>2, <4>3
    <3> QED BY <3>1, <3>2
  <2> QED BY <1>2, <2>1, <2>2, <2>3, <2>4 DEF CreatedHolds
<1>9. ContentHolds'
  BY <1>2 DEF ContentHolds, LastRow
<1>10. QED
  BY <1>3, <1>6, <1>7, <1>8, <1>9

LEMMA CommitKeeps ==
  ASSUME DatabaseInv, NEW w \in Writers, Commit(w)
  PROVE  DatabaseInv'
<1> USE DEF DatabaseInv
<1>1. PICK row \in Changes : row = tx[w] /\ w \in Current
  BY DEF Commit, DatabaseTyped, Current
<1>2. /\ row.visitor \in Visitors /\ row.id \in Nat \ {0} /\ row.operation \in {"UPSERT", "DELETE"}
  BY DEF Changes, Ids
<1>3. /\ journal' = journal \cup {row}
      /\ content' = [content EXCEPT ![row.visitor] = IF row.operation = "DELETE" THEN 0 ELSE row.id]
      /\ tx' = [tx EXCEPT ![w] = NoTx]
      /\ late' = IF row.id < MaxId(journal) THEN late \cup {row.visitor} ELSE late
      /\ UNCHANGED <<created, nextId>>
  BY <1>1 DEF Commit
<1>4. /\ DatabaseTyped'
      /\ \A x \in Writers : tx'[x] = IF x = w THEN NoTx ELSE tx[x]
      /\ \A v \in Visitors : content'[v] = IF v = row.visitor
            THEN IF row.operation = "DELETE" THEN 0 ELSE row.id ELSE content[v]
  BY <1>2, <1>3 DEF DatabaseTyped
<1>5. /\ \A x \in Writers : x \in Current' <=> (x # w /\ x \in Current)
      /\ Current' \subseteq Current /\ \A x \in Current' : tx'[x] = tx[x] /\ x # w
  BY <1>4 DEF Current
<1>6. /\ \A c \in journal : c.id # row.id /\ (c.visitor = row.visitor => c.id < row.id)
      /\ \A x \in Current' : tx[x].id # row.id /\ tx[x].visitor # row.visitor
      /\ row.id < nextId /\ created[row.visitor] \in 1..row.id
  BY <1>1, <1>5 DEF Numbered, Locked, CreatedHolds
<1>7. Numbered'
  <2>1. \A c, d \in journal' : c.id = d.id => c = d
    BY <1>3, <1>6 DEF Numbered
  <2>2. \A c \in journal' : c.id < nextId'
    BY <1>3, <1>6 DEF Numbered
  <2>3. \A x \in Current' : tx'[x].id < nextId' /\ \A c \in journal' : c.id # tx'[x].id
    BY <1>3, <1>5, <1>6 DEF Numbered
  <2>4. \A x, y \in Current' : tx'[x].id = tx'[y].id => x = y
    BY <1>5 DEF Numbered
  <2> QED BY <2>1, <2>2, <2>3, <2>4 DEF Numbered
<1>8. Locked'
  <2>1. \A x, y \in Current' : tx'[x].visitor = tx'[y].visitor => x = y
    BY <1>5 DEF Locked
  <2>2. \A x \in Current', c \in journal' : c.visitor = tx'[x].visitor => c.id < tx'[x].id
    BY <1>3, <1>5, <1>6 DEF Locked
  <2> QED BY <2>1, <2>2 DEF Locked
<1>9. CreatedHolds'
  <2>1. \A c \in journal' : created'[c.visitor] \in 1..c.id
    BY <1>3, <1>6 DEF CreatedHolds
  <2>2. \A x \in Current' : created'[tx'[x].visitor] \in 1..tx'[x].id
    BY <1>3, <1>5 DEF CreatedHolds
  <2>3. \A v \in Visitors : created'[v] < nextId'
    BY <1>3 DEF CreatedHolds
  <2>4. \A u, v \in Visitors : created'[u] = created'[v] /\ created'[u] # 0 => u = v
    BY <1>3 DEF CreatedHolds
  <2> QED BY <2>1, <2>2, <2>3, <2>4 DEF CreatedHolds
<1>10. ContentHolds'
  <2>1. ASSUME NEW v \in Visitors, \A c \in journal' : c.visitor # v PROVE content'[v] = 0
    BY <1>3, <1>4, <2>1 DEF ContentHolds
  <2>2. ASSUME NEW c \in journal', LastRow(c)'
        PROVE  content'[c.visitor] = IF c.operation = "DELETE" THEN 0 ELSE c.id
    <3>1. CASE c = row
      BY <1>2, <1>4, <3>1
    <3>2. CASE c # row
      <4>1. c \in journal /\ c.visitor \in Visitors /\ c.id \in Nat
        BY <1>3, <2>2, <3>2, RowsUnderWay
      <4>2. row.visitor = c.visitor => row.id <= c.id
        BY <1>3, <2>2 DEF LastRow
      <4>3. row.visitor # c.visitor
        BY <1>2, <1>6, <4>1, <4>2
      <4>4. LastRow(c)
        BY <1>3, <2>2 DEF LastRow
      <4>5. content[c.visitor] = IF c.operation = "DELETE" THEN 0 ELSE c.id
        BY <4>1, <4>4 DEF ContentHolds
      <4> QED BY <1>4, <4>1, <4>3, <4>5
    <3> QED BY <3>1, <3>2
  <2> QED BY <2>1, <2>2 DEF ContentHolds
<1>11. QED
  BY <1>4, <1>7, <1>8, <1>9, <1>10

-----------------------------------------------------------------------------
(* The device, while the database changes.                                 *)

\* A device step changes no row.
LEMMA DatabaseStays ==
  ASSUME DatabaseInv, UNCHANGED database
  PROVE  DatabaseInv'
BY DEF DatabaseInv, DatabaseTyped, Numbered, Locked, CreatedHolds, ContentHolds, LastRow,
       Current, database

\* A commit takes no visitor out of what a device holds or has rows to come for.
LEMMA CommitCovers ==
  ASSUME DatabaseInv, NEW w \in Writers, Commit(w), NEW x \in Nat, Reached(x)
  PROVE  /\ Reached(x)'
         /\ \A v \in Visitors, s \in Nat : Covered(v, s, x) => Covered(v, s, x)'
<1>1. PICK row \in Changes : row = tx[w] /\ w \in Current
  BY DEF Commit, DatabaseInv, DatabaseTyped, Current
<1>2. /\ journal' = journal \cup {row}
      /\ content' = [content EXCEPT ![row.visitor] = IF row.operation = "DELETE" THEN 0 ELSE row.id]
      /\ late' = IF row.id < MaxId(journal) THEN late \cup {row.visitor} ELSE late
      /\ content \in [Visitors -> Nat] /\ row.visitor \in Visitors /\ row.id \in Nat \ {0}
  BY <1>1 DEF Commit, DatabaseInv, DatabaseTyped, Changes, Ids
<1>3. journal \in SUBSET Changes /\ \A c \in journal : c.id # row.id
  BY <1>1 DEF DatabaseInv, DatabaseTyped, Numbered
<1>4. row.visitor \in late' \/ row.id > x
  <2>1. MaxId(journal) \in Nat /\ \A c \in journal : c.id <= MaxId(journal) /\ c.id \in Nat
    BY <1>3, MaxIdOfRows DEF Changes, Ids
  <2> QED BY <1>2, <1>3, <2>1 DEF Reached
<1>5. Reached(x)'
  BY <1>2 DEF Reached
<1>6. ASSUME NEW v \in Visitors, NEW s \in Nat, Covered(v, s, x) PROVE Covered(v, s, x)'
  <2>1. CASE v = row.visitor
    BY <1>2, <1>4, <2>1 DEF Covered
  <2>2. CASE v # row.visitor
    BY <1>2, <1>6, <2>2 DEF Covered
  <2> QED BY <2>1, <2>2
<1>7. QED
  BY <1>5, <1>6

LEMMA CommitDevice ==
  ASSUME JournalInv, NEW w \in Writers, Commit(w)
  PROVE  DeviceInv'
<1> USE DEF JournalInv, DeviceInv
<1>1. UNCHANGED <<created, nextId, cursor, stock, mode, page>>
  BY DEF Commit, device
<1>2. DeviceTyped'
  BY <1>1 DEF DeviceTyped
<1>3. StockHolds'
  <2>1. ASSUME mode = "ready" PROVE (Reached(cursor) /\ \A v \in Visitors : Covered(v, stock[v], cursor))'
    <3>1. cursor \in Nat /\ Reached(cursor) /\ \A v \in Visitors : stock[v] \in Nat /\ Covered(v, stock[v], cursor)
      BY <2>1 DEF StockHolds, DeviceTyped
    <3>2. Reached(cursor)' /\ \A v \in Visitors : Covered(v, stock[v], cursor)'
      BY <1>1, <3>1, CommitCovers DEF Reached, Covered
    <3> QED BY <3>2
  <2> QED BY <1>1, <2>1 DEF StockHolds
<1>4. SnapshotHolds'
  <2>1. CASE page.step = "stock"
    <3>1. page.change \in Nat /\ Reached(page.change) /\ \A v \in Visitors : stock[v] \in Nat
      BY <2>1 DEF SnapshotHolds, DeviceTyped
    <3>2. /\ Reached(page.change)'
          /\ \A v \in Visitors : Covered(v, stock[v], page.change) => Covered(v, stock[v], page.change)'
      BY <1>1, <3>1, CommitCovers DEF Reached, Covered
    <3>3. \A v \in Visitors : IF created[v] \in 1..page.after THEN Covered(v, stock[v], page.change)
                                                             ELSE stock[v] = 0
      BY <2>1 DEF SnapshotHolds
    <3>4. \A v \in Visitors : IF created'[v] \in 1..page'.after THEN Covered(v, stock[v], page.change)'
                                                                ELSE stock'[v] = 0
      BY <1>1, <3>2, <3>3
    <3> QED BY <1>1, <2>1, <3>2, <3>4 DEF SnapshotHolds
  <2>2. CASE page.step # "stock"
    BY <1>1, <2>2 DEF SnapshotHolds
  <2> QED BY <2>1, <2>2
<1>5. ChangesHold'
  <2>1. CASE page.step = "visitors"
    <3>1. PICK row \in Changes : /\ journal' = journal \cup {row}
                                 /\ late' = IF row.id < MaxId(journal) THEN late \cup {row.visitor} ELSE late
                                 /\ \A c \in journal : c.id # row.id
      BY DEF Commit, DatabaseInv, DatabaseTyped, Numbered, Current
    <3>2. /\ MaxId(journal) \in Nat /\ row.id \in Nat
          /\ \A d \in page.rows : d \in journal /\ d.id \in Nat /\ d.id <= MaxId(journal)
      BY <2>1, MaxIdOfRows DEF ChangesHold, DatabaseInv, DatabaseTyped, Changes, Ids
    <3>3. ASSUME NEW c \in journal', NEW d \in page.rows, c.visitor \notin late', c.id > cursor, c.id <= d.id
          PROVE  c \in page.rows
      <4>1. c # row
        BY <3>1, <3>2, <3>3
      <4> QED BY <2>1, <3>1, <3>3, <4>1 DEF ChangesHold
    <3>4. page.rows \subseteq journal' /\ \A c \in page.rows : c.id > cursor
      BY <2>1, <3>1 DEF ChangesHold
    <3> QED BY <1>1, <2>1, <3>3, <3>4 DEF ChangesHold
  <2>2. CASE page.step = "latest"
    <3>1. /\ page.stock \in [Visitors -> Nat] /\ page.next \in Nat /\ Reached(page.next)
          /\ \A v \in Visitors : page.stock[v] \in Nat /\ Covered(v, page.stock[v], page.next)
      BY <2>2 DEF ChangesHold
    <3>2. Reached(page.next)' /\ \A v \in Visitors : Covered(v, page.stock[v], page.next)'
      BY <1>1, <3>1, CommitCovers DEF Reached, Covered
    <3> QED BY <1>1, <2>2, <3>1, <3>2 DEF ChangesHold
  <2>3. CASE page.step \notin {"visitors", "latest"}
    BY <1>1, <2>3 DEF ChangesHold
  <2> QED BY <2>1, <2>2, <2>3
<1>6. QED
  BY <1>2, <1>3, <1>4, <1>5

\* A visitor that is created while a snapshot is read is younger than its pages.
LEMMA WriteDevice ==
  ASSUME JournalInv, NEW w \in Writers, NEW v \in Visitors, NEW operation \in {"UPSERT", "DELETE"},
         Write(w, v, operation)
  PROVE  DeviceInv'
<1> USE DEF JournalInv, DeviceInv
<1>1. /\ UNCHANGED <<content, journal, late, cursor, stock, mode, page>>
      /\ created' = IF created[v] = 0 THEN [created EXCEPT ![v] = nextId] ELSE created
      /\ nextId' = nextId + 1 /\ nextId \in Nat /\ created \in [Visitors -> Nat]
  BY DEF Write, device, DatabaseInv, DatabaseTyped
<1>2. DeviceTyped' /\ ChangesHold' /\ StockHolds'
  BY <1>1 DEF DeviceTyped, ChangesHold, StockHolds, Reached, Covered
<1>3. SnapshotHolds'
  <2>1. CASE page.step = "stock"
    <3>1. /\ page \in [step : {"stock"}, asOf : Nat, after : Nat, change : Nat]
          /\ page.asOf < nextId /\ page.change <= page.asOf /\ page.after <= page.asOf
          /\ Reached(page.change)
          /\ \A u \in Visitors : IF created[u] \in 1..page.after THEN Covered(u, stock[u], page.change)
                                                                 ELSE stock[u] = 0
      BY <2>1 DEF SnapshotHolds
    <3>2. \A u \in Visitors : created'[u] \in 1..page.after <=> created[u] \in 1..page.after
      <4> TAKE u \in Visitors
      <4>1. CASE u = v /\ created[v] = 0
        <5>1. created'[u] = nextId /\ ~(nextId <= page.after) /\ created[u] = 0
          BY <1>1, <3>1, <4>1
        <5> QED BY <5>1
      <4>2. CASE ~(u = v /\ created[v] = 0)
        <5>1. created'[u] = created[u]
          BY <1>1, <4>2
        <5> QED BY <5>1
      <4> QED BY <4>1, <4>2
    <3>3. \A u \in Visitors : IF created'[u] \in 1..page.after THEN Covered(u, stock[u], page.change)'
                                                               ELSE stock[u] = 0
      BY <1>1, <3>1, <3>2 DEF Covered
    <3>4. Reached(page.change)' /\ page.asOf < nextId'
      BY <1>1, <3>1 DEF Reached
    <3> QED BY <1>1, <2>1, <3>1, <3>3, <3>4 DEF SnapshotHolds
  <2>2. CASE page.step # "stock"
    BY <1>1, <2>2 DEF SnapshotHolds
  <2> QED BY <2>1, <2>2
<1>4. QED
  BY <1>2, <1>3

-----------------------------------------------------------------------------
(* The device's own steps.                                                 *)

LEMMA BeginSnapshotKeeps ==
  ASSUME JournalInv, BeginSnapshot
  PROVE  JournalInv'
<1>1. DatabaseInv'
  BY DatabaseStays DEF JournalInv, BeginSnapshot
<1>2. /\ page' = [step |-> "cursor", asOf |-> nextId - 1] /\ mode' = "snapshot" /\ mode = "empty"
      /\ UNCHANGED <<nextId, stock, cursor>> /\ nextId \in Nat \ {0}
  BY DEF JournalInv, DatabaseInv, DatabaseTyped, BeginSnapshot, database
<1>3. page'.step = "cursor" /\ page'.asOf = nextId - 1
  BY <1>2
<1>4. DeviceTyped'
  BY <1>2, <1>3 DEF JournalInv, DeviceInv, DeviceTyped
<1>5. StockHolds'
  BY <1>2, <1>3 DEF JournalInv, DeviceInv, StockHolds
<1>6. SnapshotHolds' /\ ChangesHold'
  BY <1>2, <1>3 DEF SnapshotHolds, ChangesHold
<1>7. QED
  BY <1>1, <1>4, <1>5, <1>6 DEF JournalInv, DeviceInv

LEMMA TakeCursorKeeps ==
  ASSUME JournalInv, TakeCursor
  PROVE  JournalInv'
<1>1. DatabaseInv'
  BY DatabaseStays DEF JournalInv, TakeCursor
<1> DEFINE old   == {c \in journal : c.id <= page.asOf}
           first == MaxId(old)
<1>2. /\ page' = [step |-> "stock", asOf |-> page.asOf, after |-> 0, change |-> first]
      /\ page.step = "cursor" /\ UNCHANGED <<database, nextId, journal, stock, cursor, mode, created>>
      /\ page.asOf \in Nat /\ page.asOf < nextId /\ \A v \in Visitors : stock[v] = 0
  BY DEF JournalInv, DeviceInv, SnapshotHolds, StockHolds, TakeCursor, database
<1>3. old \in SUBSET Changes
  BY DEF JournalInv, DatabaseInv, DatabaseTyped
<1>4. first \in Nat /\ first <= page.asOf /\ Reached(first)
  <2>1. first \in Nat /\ (first = 0 \/ \E c \in old : c.id = first)
    BY <1>3, MaxIdOfRows
  <2> HIDE DEF first
  <2>2. CASE first = 0
    BY <1>2, <2>1, <2>2 DEF Reached
  <2>3. CASE first # 0
    <3>1. PICK c \in journal : c.id <= page.asOf /\ c.id = first
      BY <2>1, <2>3
    <3> QED BY <2>1, <3>1 DEF Reached
  <2> QED BY <2>2, <2>3
<1> HIDE DEF first
<1>5. /\ page'.step = "stock" /\ page'.asOf = page.asOf /\ page'.after = 0 /\ page'.change = first
      /\ page' \in [step : {"stock"}, asOf : Nat, after : Nat, change : Nat]
  BY <1>2, <1>4
<1>6. DeviceTyped'
  BY <1>2, <1>5 DEF JournalInv, DeviceInv, DeviceTyped
<1>7. mode = "snapshot"
  BY <1>2 DEF JournalInv, DeviceInv, DeviceTyped
<1>8. StockHolds' /\ ChangesHold'
  BY <1>2, <1>5, <1>7 DEF StockHolds, ChangesHold
<1>9. SnapshotHolds'
  <2>1. Reached(page.change)'
    BY <1>2, <1>4, <1>5 DEF Reached
  <2>2. \A v \in Visitors : ~(created'[v] \in 1..page'.after)
    BY <1>5
  <2>3. \A v \in Visitors : IF created'[v] \in 1..page'.after THEN Covered(v, stock[v], page.change)'
                                                              ELSE stock'[v] = 0
    BY <1>2, <2>2
  <2> QED BY <1>2, <1>4, <1>5, <2>1, <2>3 DEF SnapshotHolds, Reached
<1>10. QED
  BY <1>1, <1>6, <1>8, <1>9 DEF JournalInv, DeviceInv

LEMMA BeginChangesKeeps ==
  ASSUME JournalInv, BeginChanges
  PROVE  JournalInv'
<1>1. DatabaseInv'
  BY DatabaseStays DEF JournalInv, BeginChanges
<1> DEFINE rows  == {c \in journal : c.id > cursor}
           first == FirstById(rows, PageSize)
<1>2. /\ page' = [step |-> "visitors", rows |-> first, more |-> Cardinality(rows) > PageSize]
      /\ mode = "ready" /\ UNCHANGED <<database, journal, late, stock, cursor, mode>>
  BY DEF BeginChanges, database
<1>3. page'.step = "visitors" /\ page'.rows = first
  <2> HIDE DEF first
  <2> QED BY <1>2
<1>4. rows \in SUBSET Changes /\ IsFiniteSet(rows)
  BY FiniteRows DEF JournalInv, DatabaseInv, DatabaseTyped, Numbered
<1>5. first \subseteq rows
  BY DEF FirstById
<1>6. \A c \in journal, d \in first : c.id > cursor /\ c.id <= d.id => c \in first
  BY <1>4, FirstClosed
<1>7. \A c \in first : c \in journal /\ c.id > cursor
  BY <1>5
<1> HIDE DEF first, rows
<1>8. DeviceTyped'
  BY <1>2, <1>3 DEF JournalInv, DeviceInv, DeviceTyped
<1>9. StockHolds'
  <2>1. /\ cursor \in Nat /\ Reached(cursor)
        /\ \A v \in Visitors : stock[v] \in Nat /\ Covered(v, stock[v], cursor)
    BY <1>2 DEF JournalInv, DeviceInv, DeviceTyped, StockHolds
  <2>2. Reached(cursor)' /\ \A v \in Visitors : Covered(v, stock[v], cursor)'
    BY <1>2, <2>1 DEF Reached, Covered, database
  <2> QED BY <1>2, <1>3, <2>2 DEF StockHolds
<1>10. SnapshotHolds'
  BY <1>3 DEF SnapshotHolds
<1>11. ChangesHold'
  BY <1>2, <1>3, <1>6, <1>7 DEF ChangesHold
<1>12. QED
  BY <1>1, <1>8, <1>9, <1>10, <1>11 DEF JournalInv, DeviceInv

LEMMA ApplyChangesKeeps ==
  ASSUME JournalInv, ApplyChanges
  PROVE  JournalInv'
<1>1. DatabaseInv'
  BY DatabaseStays DEF JournalInv, ApplyChanges
<1>2. /\ page.step = "latest" /\ page' = NoPage /\ stock' = page.stock /\ cursor' = page.next
      /\ UNCHANGED <<database, content, journal, late, mode>>
  BY DEF ApplyChanges, NextCursor, database
<1>3. /\ page.stock \in [Visitors -> Nat] /\ page.next \in Nat /\ Reached(page.next)
      /\ \A v \in Visitors : Covered(v, page.stock[v], page.next)
      /\ mode = "ready"
  BY <1>2 DEF JournalInv, DeviceInv, DeviceTyped, ChangesHold
<1>4. DeviceTyped' /\ SnapshotHolds' /\ ChangesHold'
  BY <1>2, <1>3 DEF DeviceTyped, SnapshotHolds, ChangesHold, NoPage
<1>5. StockHolds'
  BY <1>2, <1>3 DEF StockHolds, Reached, Covered, NoPage
<1>6. QED
  BY <1>1, <1>4, <1>5 DEF JournalInv, DeviceInv

\* Notifications and lost answers leave what the device holds.
LEMMA LinkKeeps ==
  ASSUME JournalInv, UNCHANGED <<database, cursor, stock, mode>>,
         page' \in {page, NoPage}
  PROVE  JournalInv'
<1>1. DatabaseInv'
  BY DatabaseStays DEF JournalInv
<1>2. UNCHANGED <<content, created, journal, nextId, late>>
  BY DEF database
<1>3. ASSUME page' = page PROVE DeviceInv'
  BY <1>2, <1>3 DEF JournalInv, DeviceInv, DeviceTyped, StockHolds, SnapshotHolds, ChangesHold,
                    Reached, Covered
<1>4. ASSUME page' = NoPage PROVE DeviceInv'
  BY <1>2, <1>4 DEF JournalInv, DeviceInv, DeviceTyped, StockHolds, SnapshotHolds, ChangesHold,
                    Reached, Covered, NoPage
<1>5. QED
  <2>1. DeviceInv'
    BY <1>3, <1>4 DEF JournalInv
  <2> QED BY <1>1, <2>1 DEF JournalInv

\* A visitor that the page changes is answered as its newest row in the page says,
\* or a newer row is still to come.
LEMMA ReadVisitorsKeeps ==
  ASSUME JournalInv, ReadVisitors
  PROVE  JournalInv'
<1>1. DatabaseInv'
  BY DatabaseStays DEF JournalInv, ReadVisitors
<1> DEFINE changed  == {c.visitor : c \in page.rows}
           After(v) == IF v \notin changed THEN stock[v]
                       ELSE IF Newest(page.rows, v).operation = "DELETE" THEN 0
                       ELSE IF content[v] # 0 THEN content[v] ELSE stock[v]
           after    == [v \in Visitors |-> After(v)]
           next     == IF page.rows = {} THEN cursor ELSE MaxId(page.rows)
<1>2. /\ page' = [step |-> "latest", stock |-> after, next |-> next, more |-> page.more]
      /\ page.step = "visitors" /\ UNCHANGED <<database, content, journal, late, stock, cursor, mode>>
  BY DEF ReadVisitors, database
<1>3. page'.step = "latest" /\ page'.stock = after /\ page'.next = next
  <2> HIDE DEF after, next
  <2> QED BY <1>2
<1>4. /\ mode = "ready" /\ stock \in [Visitors -> Nat] /\ cursor \in Nat /\ Reached(cursor)
      /\ content \in [Visitors -> Nat] /\ journal \in SUBSET Changes
      /\ \A v \in Visitors : Covered(v, stock[v], cursor)
  BY <1>2 DEF JournalInv, DeviceInv, DeviceTyped, StockHolds, DatabaseInv, DatabaseTyped
<1>5. /\ page.rows \in SUBSET journal /\ page.rows \in SUBSET Changes
      /\ \A c \in page.rows : c.id > cursor
      /\ \A c \in journal, d \in page.rows :
           c.visitor \notin late /\ c.id > cursor /\ c.id <= d.id => c \in page.rows
  BY <1>2, <1>4 DEF JournalInv, DeviceInv, ChangesHold
<1>6. /\ next \in Nat /\ Reached(next) /\ next >= cursor
      /\ page.rows # {} => \E d \in page.rows : d.id = next
  <2>1. CASE page.rows = {}
    BY <1>4, <2>1
  <2>2. CASE page.rows # {}
    <3>1. PICK d \in page.rows : d.id = MaxId(page.rows)
      BY <1>5, <2>2, MaxIdOfRows
    <3>2. next = d.id /\ d \in journal /\ d.id \in Nat /\ d.id > cursor
      BY <1>4, <1>5, <2>2, <3>1 DEF Changes, Ids
    <3> HIDE DEF next
    <3> QED BY <1>4, <3>2 DEF Reached
  <2> QED BY <2>1, <2>2
<1>7. \A c \in journal : c.id \in Nat \ {0} /\ c.operation \in {"UPSERT", "DELETE"}
  BY <1>4 DEF Changes, Ids
\* A row in the page's reach is in the page.
<1>8. \A c \in journal : page.rows # {} /\ c.visitor \notin late /\ c.id > cursor => c \in page.rows \/ c.id > next
  BY <1>4, <1>5, <1>6, <1>7
<1>9. \A v \in changed :
        /\ Newest(page.rows, v) \in page.rows /\ Newest(page.rows, v).visitor = v
        /\ \A d \in page.rows : d.visitor = v => d.id <= Newest(page.rows, v).id
  <2> TAKE v \in changed
  <2> DEFINE mine == {c \in page.rows : c.visitor = v}
  <2>1. mine \in SUBSET Changes /\ mine # {}
    BY <1>5
  <2>2. PICK c \in mine : c.id = MaxId(mine)
    BY <2>1, MaxIdOfRows
  <2>3. \A d \in mine : d.id <= c.id
    BY <2>1, <2>2, MaxIdOfRows
  <2>4. \E e \in page.rows : e.visitor = v /\ \A d \in page.rows : d.visitor = v => d.id <= e.id
    BY <2>2, <2>3
  <2>5. \E e : e \in page.rows /\ e.visitor = v /\ \A d \in page.rows : d.visitor = v => d.id <= e.id
    BY <2>4
  <2> QED BY <2>5 DEF Newest
<1> HIDE DEF next
<1>10. ASSUME NEW v \in Visitors PROVE After(v) \in Nat /\ Covered(v, After(v), next)
  <2>1. After(v) \in Nat
    BY <1>4
  <2> SUFFICES Covered(v, After(v), next)
    BY <2>1
  <2>2. CASE v \in late
    BY <2>2 DEF Covered
  <2>3. CASE v \notin late /\ v \notin changed
    <3>0. \A c \in page.rows : c.visitor # v
      BY <2>3
    <3>1. After(v) = stock[v] /\ Covered(v, stock[v], cursor)
      BY <1>4, <2>3
    <3> HIDE DEF After, changed
    <3>2. CASE stock[v] = content[v]
      BY <3>1, <3>2 DEF Covered
    <3>3. CASE \E c \in journal : c.visitor = v /\ c.id > cursor
      <4>1. PICK c \in journal : c.visitor = v /\ c.id > cursor
        BY <3>3
      <4>2. CASE page.rows = {}
        BY <3>1, <4>1, <4>2 DEF Covered, next
      <4>3. CASE page.rows # {}
        <5>1. c.id > next
          BY <1>8, <2>3, <3>0, <4>1, <4>3
        <5> QED BY <4>1, <5>1 DEF Covered
      <4> QED BY <4>2, <4>3
    <3> QED BY <2>3, <3>1, <3>2, <3>3 DEF Covered
  <2>4. CASE v \notin late /\ v \in changed
    <3> DEFINE n == Newest(page.rows, v)
    <3>1. /\ n \in page.rows /\ n \in journal /\ n.visitor = v
          /\ \A d \in page.rows : d.visitor = v => d.id <= n.id
          /\ page.rows # {}
      BY <1>5, <1>9, <2>4
    <3>2. After(v) = IF n.operation = "DELETE" THEN 0
                     ELSE IF content[v] # 0 THEN content[v] ELSE stock[v]
      BY <2>4
    <3> HIDE DEF n, After, changed
    <3>3. CASE LastRow(n)
      <4>1. content[v] = IF n.operation = "DELETE" THEN 0 ELSE n.id
        BY <3>1, <3>3 DEF JournalInv, DatabaseInv, ContentHolds
      <4>2. After(v) = content[v]
        BY <1>7, <3>1, <3>2, <4>1
      <4> QED BY <4>2 DEF Covered
    <3>4. CASE ~LastRow(n)
      <4>1. PICK d \in journal : d.visitor = v /\ ~(d.id <= n.id)
        BY <3>1, <3>4 DEF LastRow
      <4>2. d \notin page.rows /\ d.id > cursor
        BY <1>4, <1>5, <1>7, <3>1, <4>1
      <4>3. d.id > next
        BY <1>8, <2>4, <3>1, <4>1, <4>2
      <4> QED BY <4>1, <4>3 DEF Covered
    <3> QED BY <3>3, <3>4
  <2> QED BY <2>2, <2>3, <2>4
<1>11. after \in [Visitors -> Nat] /\ \A v \in Visitors : Covered(v, after[v], next)
  BY <1>10
<1> HIDE DEF after
<1>12. DeviceTyped' /\ SnapshotHolds'
  BY <1>2, <1>3, <1>4 DEF DeviceTyped, SnapshotHolds
<1>13. StockHolds'
  BY <1>2, <1>3, <1>4 DEF StockHolds, Reached, Covered
<1>14. ChangesHold'
  <2>1. Reached(page.next)' /\ \A v \in Visitors : Covered(v, page.stock[v], page.next)'
    BY <1>2, <1>3, <1>6, <1>11 DEF Reached, Covered
  <2> QED BY <1>3, <1>6, <1>11, <2>1 DEF ChangesHold
<1>15. QED
  BY <1>1, <1>12, <1>13, <1>14 DEF JournalInv, DeviceInv

\* A page that is not empty holds the oldest visitor left.
LEMMA PageHoldsOldest ==
  ASSUME CreatedHolds, DatabaseTyped, NEW left \in SUBSET Visitors, left # {},
         \A v \in left : created[v] # 0
  PROVE  \E v \in left : Cardinality({u \in left : created[u] <= created[v]}) <= StockPage
<1> DEFINE T == {created[v] : v \in left}
<1>1. T \in SUBSET Nat /\ T # {}
  BY DEF DatabaseTyped
<1>2. \E x \in T : \A y \in T : x <= y
  <2> HIDE DEF T
  <2> QED BY <1>1, Least
<1>3. PICK v \in left : \A u \in left : created[v] <= created[u]
  BY <1>2
<1>4. {u \in left : created[u] <= created[v]} = {v}
  <2>1. \A u \in left : created[u] \in Nat /\ created[v] \in Nat
    BY DEF DatabaseTyped
  <2>2. \A u \in left : created[u] <= created[v] => u = v
    BY <1>3, <2>1 DEF CreatedHolds
  <2> QED BY <2>1, <2>2
<1>5. Cardinality({v}) = 1
  BY FS_Singleton
<1>6. StockPage \in Nat \ {0}
  OBVIOUS
<1>7. Cardinality({u \in left : created[u] <= created[v]}) <= StockPage
  BY <1>4, <1>5, <1>6
<1>8. QED
  BY <1>7

\* A snapshot page: the visitors it passes are held as they are, and those that
\* are created after the snapshot's time have a row after its cursor.
LEMMA ReadStockKeeps ==
  ASSUME JournalInv, ReadStock
  PROVE  JournalInv'
<1>1. DatabaseInv'
  BY DatabaseStays DEF JournalInv, ReadStock
<1> DEFINE left  == {v \in Visitors : content[v] # 0 /\ created[v] \in (page.after + 1)..page.asOf}
           items == {v \in left : Cardinality({u \in left : created[u] <= created[v]}) <= StockPage}
<1>2. /\ stock' = [v \in Visitors |-> IF v \in items THEN content[v] ELSE stock[v]]
      /\ items # left => /\ page' = [page EXCEPT !.after = Max({created[v] : v \in items})]
                         /\ UNCHANGED <<cursor, mode>>
      /\ items = left => page' = NoPage /\ cursor' = page.change /\ mode' = "ready"
      /\ page.step = "stock" /\ UNCHANGED <<database, content, created, journal, late, nextId>>
  BY DEF ReadStock, SnapshotCursor, database
<1>3. /\ page \in [step : {"stock"}, asOf : Nat, after : Nat, change : Nat]
      /\ page.asOf < nextId /\ page.change <= page.asOf /\ page.after <= page.asOf
      /\ Reached(page.change)
      /\ \A v \in Visitors :
           IF created[v] \in 1..page.after THEN Covered(v, stock[v], page.change)
                                           ELSE stock[v] = 0
  BY <1>2 DEF JournalInv, DeviceInv, SnapshotHolds
<1>4. /\ stock \in [Visitors -> Nat] /\ cursor \in Nat /\ mode = "snapshot"
      /\ content \in [Visitors -> Nat] /\ created \in [Visitors -> Nat]
  BY <1>2 DEF JournalInv, DeviceInv, DeviceTyped, DatabaseInv, DatabaseTyped
<1>5. items \subseteq left /\ left \subseteq Visitors
  OBVIOUS
<1>6. \A v \in left : content[v] # 0 /\ created[v] > page.after /\ created[v] <= page.asOf
  BY <1>3, <1>4
<1>7. stock' \in [Visitors -> Nat] /\ \A v \in Visitors : stock'[v] = IF v \in items THEN content[v] ELSE stock[v]
  <2> HIDE DEF items
  <2> QED BY <1>2, <1>4
<1>8. CASE items = left
  <2>1. page' = NoPage /\ cursor' = page.change /\ mode' = "ready"
    BY <1>2, <1>8
  <2>2. ASSUME NEW v \in Visitors PROVE Covered(v, stock'[v], page.change)
    <3>1. CASE created[v] \in 1..page.after
      <4>1. v \notin items
        <5> HIDE DEF items, left
        <5> QED BY <1>3, <1>4, <1>5, <1>6, <3>1
      <4> HIDE DEF items, left
      <4> QED BY <1>3, <1>7, <3>1, <4>1
    <3>2. CASE v \in items
      <4> HIDE DEF items, left
      <4> QED BY <1>7, <3>2 DEF Covered
    <3>3. CASE ~(created[v] \in 1..page.after) /\ v \notin items
      <4>1. stock'[v] = 0
        <5> HIDE DEF items, left
        <5> QED BY <1>3, <1>7, <3>3
      <4>2. content[v] = 0 \/ created[v] = 0 \/ created[v] > page.asOf
        BY <1>3, <1>4, <1>8, <3>3
      <4>3. CASE content[v] = 0
        BY <4>1, <4>3 DEF Covered
      <4>4. CASE \A c \in journal : c.visitor # v
        <5>1. content[v] = 0
          BY <4>4 DEF JournalInv, DatabaseInv, ContentHolds
        <5> QED BY <4>1, <5>1 DEF Covered
      <4>5. CASE \E c \in journal : c.visitor = v
        <5>1. PICK c \in journal : c.visitor = v
          BY <4>5
        <5>2. created[v] \in 1..c.id /\ c.id \in Nat
          BY <5>1, RowsUnderWay DEF JournalInv, DatabaseInv, CreatedHolds
        <5>3. CASE content[v] # 0
          <6>1. created[v] > page.asOf
            BY <4>2, <5>2, <5>3
          <6>2. c.id > page.change
            BY <1>3, <1>4, <5>2, <6>1
          <6> QED BY <5>1, <6>2 DEF Covered
        <5> QED BY <4>3, <5>3
      <4> QED BY <4>4, <4>5
    <3> QED BY <3>1, <3>2, <3>3
  <2> HIDE DEF items, left
  <2>3. DeviceTyped' /\ SnapshotHolds' /\ ChangesHold'
    BY <1>3, <1>7, <2>1 DEF DeviceTyped, SnapshotHolds, ChangesHold, NoPage
  <2>4. StockHolds'
    BY <1>2, <1>3, <2>1, <2>2 DEF StockHolds, Reached, Covered, NoPage
  <2> QED BY <1>1, <2>3, <2>4 DEF JournalInv, DeviceInv
<1>9. CASE items # left
  <2> DEFINE ages == {created[v] : v \in items}
             last == Max(ages)
  <2>1. page' = [page EXCEPT !.after = last] /\ UNCHANGED <<cursor, mode>>
    BY <1>2, <1>9
  <2>2. items # {}
    <3>1. left # {} /\ \A v \in left : created[v] # 0
      BY <1>3, <1>4, <1>5, <1>6, <1>9
    <3>2. left \in SUBSET Visitors /\ CreatedHolds /\ DatabaseTyped
      BY DEF JournalInv, DatabaseInv
    <3>3. \E v \in left : Cardinality({u \in left : created[u] <= created[v]}) <= StockPage
      <4> HIDE DEF left
      <4> QED BY <3>1, <3>2, PageHoldsOldest
    <3> QED BY <3>3
  <2>3. /\ \A x \in ages : x \in Nat /\ x <= page.asOf
        /\ ages # {} /\ ages \in SUBSET Nat
    <3> HIDE DEF items, left
    <3> QED BY <1>4, <1>5, <1>6, <2>2
  <2>4. last \in ages /\ \A x \in ages : x <= last
    <3> HIDE DEF ages
    <3> QED BY <1>3, <2>3, MaxOfBounded
  <2>5. PICK m \in items : created[m] = last
    BY <2>4
  <2> HIDE DEF last
  <2>6. /\ last \in Nat /\ last <= page.asOf /\ last > page.after
        /\ \A v \in items : created[v] <= last
    <3> HIDE DEF items, left
    <3> QED BY <1>4, <1>5, <1>6, <2>3, <2>4, <2>5
  \* The page is closed downwards.
  <2>7. \A v \in left : created[v] <= last => v \in items
    <3> TAKE v \in left
    <3> HAVE created[v] <= last
    <3> DEFINE Upto(x) == {u \in left : created[u] <= x}
    <3>1. Upto(created[v]) \in SUBSET Upto(last) /\ Upto(last) \in SUBSET Visitors
      BY <1>4, <2>6
    <3>2. Cardinality(Upto(last)) <= StockPage
      BY <2>5
    <3>3. IsFiniteSet(Upto(last)) /\ Cardinality(Upto(last)) \in Nat
      <4> HIDE DEF Upto
      <4> QED BY <3>1, FS_Subset, FS_CardinalityType
    <3>4. Cardinality(Upto(created[v])) <= Cardinality(Upto(last)) /\ Cardinality(Upto(created[v])) \in Nat
      <4> HIDE DEF Upto
      <4> QED BY <3>1, <3>3, FS_Subset, FS_CardinalityType
    <3>5. Cardinality(Upto(created[v])) <= StockPage
      <4> HIDE DEF Upto
      <4> QED BY <3>2, <3>3, <3>4
    <3> QED BY <3>5
  <2>8. \A v \in Visitors : v \in left <=> content[v] # 0 /\ created[v] > page.after /\ created[v] <= page.asOf
    BY <1>3, <1>4
  <2> HIDE DEF items, left
  <2>9. /\ page'.step = "stock" /\ page'.asOf = page.asOf /\ page'.after = last
        /\ page'.change = page.change
        /\ page' \in [step : {"stock"}, asOf : Nat, after : Nat, change : Nat]
    BY <1>3, <2>1, <2>6
  <2>10. ASSUME NEW v \in Visitors
         PROVE  IF created[v] \in 1..last THEN Covered(v, stock'[v], page.change) ELSE stock'[v] = 0
    <3>0. created[v] \in Nat /\ page.after \in Nat
      BY <1>3, <1>4
    <3>1. CASE created[v] \in 1..page.after
      <4>1. v \notin items /\ created[v] \in 1..last
        BY <1>5, <1>6, <2>6, <3>0, <3>1
      <4> QED BY <1>3, <1>7, <3>1, <4>1
    <3>2. CASE v \in items
      <4>1. created[v] \in 1..last
        BY <1>5, <1>6, <2>6, <3>0, <3>2
      <4> QED BY <1>7, <3>2, <4>1 DEF Covered
    <3>3. CASE ~(created[v] \in 1..page.after) /\ v \notin items
      <4>1. stock'[v] = 0
        BY <1>3, <1>7, <3>3
      <4>2. ASSUME created[v] \in 1..last PROVE content[v] = 0
        <5>1. created[v] > page.after /\ created[v] <= page.asOf /\ created[v] <= last
          BY <1>3, <2>6, <3>0, <3>3, <4>2
        <5> QED BY <2>7, <2>8, <3>3, <5>1
      <4> QED BY <4>1, <4>2 DEF Covered
    <3> QED BY <3>1, <3>2, <3>3
  <2>11. DeviceTyped' /\ StockHolds' /\ ChangesHold'
    BY <1>4, <1>7, <2>1, <2>9 DEF DeviceTyped, StockHolds, ChangesHold
  <2>12. SnapshotHolds'
    <3>1. Reached(page.change)' /\ page'.asOf < nextId'
      BY <1>2, <1>3, <2>9 DEF Reached
    <3>2. \A v \in Visitors : IF created'[v] \in 1..page'.after THEN Covered(v, stock[v], page.change)'
                                                                ELSE stock'[v] = 0
      BY <1>2, <2>9, <2>10 DEF Covered
    <3> QED BY <1>3, <2>6, <2>9, <3>1, <3>2 DEF SnapshotHolds
  <2> QED BY <1>1, <2>11, <2>12 DEF JournalInv, DeviceInv
<1>10. QED
  BY <1>8, <1>9

-----------------------------------------------------------------------------
(* Every step.                                                             *)

LEMMA JournalStarts == Init => JournalInv
<1> SUFFICES ASSUME Init PROVE JournalInv
  OBVIOUS
<1> USE DEF Init
<1>1. Current = {}
  BY DEF Current
<1>2. DatabaseTyped
  BY DEF DatabaseTyped
<1>3. Numbered /\ Locked
  BY <1>1 DEF Numbered, Locked
<1>4. CreatedHolds
  BY <1>1 DEF CreatedHolds
<1>5. ContentHolds
  BY DEF ContentHolds
<1>6. DeviceTyped /\ StockHolds /\ SnapshotHolds /\ ChangesHold
  BY DEF DeviceTyped, StockHolds, SnapshotHolds, ChangesHold, NoPage
<1>7. QED
  BY <1>2, <1>3, <1>4, <1>5, <1>6 DEF JournalInv, DatabaseInv, DeviceInv

LEMMA JournalSteps == JournalInv /\ [Next]_vars => JournalInv'
<1> SUFFICES ASSUME JournalInv, [Next]_vars PROVE JournalInv'
  OBVIOUS
<1>1. ASSUME NEW w \in Writers, Commit(w) PROVE JournalInv'
  BY <1>1, CommitKeeps, CommitDevice DEF JournalInv
<1>2. ASSUME NEW w \in Writers, NEW v \in Visitors, NEW op \in {"UPSERT", "DELETE"}, Write(w, v, op)
      PROVE  JournalInv'
  BY <1>2, WriteKeeps, WriteDevice DEF JournalInv
<1>3. CASE TakeCursor
  BY <1>3, TakeCursorKeeps
<1>4. CASE ReadStock
  BY <1>4, ReadStockKeeps
<1>5. CASE BeginChanges
  BY <1>5, BeginChangesKeeps
<1>6. CASE ReadVisitors
  BY <1>6, ReadVisitorsKeeps
<1>7. CASE ApplyChanges
  BY <1>7, ApplyChangesKeeps
<1>8. CASE BeginSnapshot
  BY <1>8, BeginSnapshotKeeps
<1>9. CASE Connect \/ Subscribe \/ Poll
  BY <1>9, LinkKeeps DEF Connect, Subscribe, Poll
<1>10. CASE RestartPoller \/ Disconnect
  BY <1>10, LinkKeeps DEF RestartPoller, Disconnect
<1>11. CASE UNCHANGED vars
  BY <1>11, LinkKeeps DEF vars, device
<1>12. QED
  BY <1>1, <1>2, <1>3, <1>4, <1>5, <1>6, <1>7, <1>8, <1>9, <1>10, <1>11 DEF Next, Serve

\* The rows of a visitor are committed in the order of their ids and a visitor is
\* as its last row says; the pages of a snapshot have passed the visitors created
\* up to a point, and a page of changes leaves no row out between the cursor it
\* starts from and the one it ends at, but those committed late.
THEOREM JournalInductive == Spec => []JournalInv
<1>1. QED
  BY JournalStarts, JournalSteps, PTL DEF Spec

\* docs/realtime-visitors-upgrade.md says of the cursor: "Safe after disconnects,
\* browser restarts, and missed SSE messages."  For any number of visitors, writers
\* and rows and any page sizes, a device whose visitor is not as the database has
\* it has a row after its cursor that says so, out of order rows excepted.
THEOREM CursorCovers == Spec => []CursorCoversStock
<1>1. JournalInv => CursorCoversStock
  <2> SUFFICES ASSUME JournalInv, mode = "ready", NEW v \in Visitors \ late,
                      \A c \in journal : c.visitor = v => c.id <= cursor
               PROVE  stock[v] = content[v]
    BY DEF CursorCoversStock
  <2>1. Covered(v, stock[v], cursor) /\ cursor \in Nat
    BY DEF JournalInv, DeviceInv, DeviceTyped, StockHolds
  <2>2. \A c \in journal : c.id \in Nat
    BY RowsUnderWay DEF JournalInv, DatabaseInv
  <2> QED BY <2>1, <2>2 DEF Covered
<1>2. QED
  BY <1>1, JournalInductive, PTL
=============================================================================
