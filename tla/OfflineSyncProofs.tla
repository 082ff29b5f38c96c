------------------------- MODULE OfflineSyncProofs -------------------------
(***************************************************************************)
(* Proofs about OfflineSync, for all operations, batches, workloads and    *)
(* requests: what is processed stays so, is linked to the registration     *)
(* made for it, and is all a finished batch has promised.                  *)
(***************************************************************************)
EXTENDS OfflineSync, FiniteSetTheorems, TLAPS

\* The steps of runOfflineRegistration.
Registering == Running \ {"other", "store", "failRetry", "failPerm"}

\* Request p runs o, or will run it without claiming it first.
Holds(p, o) ==
  \/ cur[p] = o
  \/ o \in todo[p] \ dups[p]
  \/ pc[p] = "start" /\ o \in OpsOf(doing[p]) \ dups[p]

\* Two requests do not run the same operation.
Apart == \A p, q \in Handlers, o \in Ops : Holds(p, o) /\ Holds(q, o) => p = q

\* No other operation carries the identity.
Single(r) == \A o, x \in RegOps : IdentityOf(o) = r /\ IdentityOf(x) = r => o = x

\* The local variables of a request fit its step.
Tidy(p) ==
  /\ cur[p] # 0 <=> pc[p] \in Running
  /\ cur[p] \notin todo[p]
  /\ pc[p] \in {"idle", "check", "persist", "start"} => todo[p] = {}
  /\ pc[p] \in {"check", "persist", "start"} => doing[p] \in Batches
  /\ pc[p] \in Registering => cur[p] \in RegOps
  /\ pc[p] = "other" => cur[p] \notin RegOps

\* Every operation of the batch is still to be run, processed, or counted as failed.
Accounted(p) ==
  doing[p] \in Batches /\ pc[p] \in {"next"} \cup Running =>
    \A o \in OpsOf(doing[p]) :
      o \in todo[p] \/ o = cur[p] \/ op[o] = "PROCESSED" \/ "FAILED" \in tally[p]

\* What a request has read or done so far still stands.
Knows(p) ==
  /\ \A o \in Ops : Holds(p, o) => op[o] = "PENDING"
  /\ \A o \in Ops : seen[p][o] = "PROCESSED" => op[o] = "PROCESSED"
  /\ Accounted(p)
  /\ pc[p] \in Registering \ {"lookup", "reserve"} => Existing(p)
  /\ pc[p] = "conflict" => ~SamePayload(p)
  /\ pc[p] \in {"create", "refuse"} /\ load.externalId /\ Single(Who(p)) =>
       registered[PhoneOf[Who(p)]] # Who(p)
  /\ pc[p] \in {"generate", "link"} => registered[PhoneOf[Who(p)]] = Who(p)
  /\ pc[p] \in {"enqueue", "store"} /\ cur[p] \in RegOps => mapping[Who(p)].linked

\* A mapping comes from an operation of its identity; a linked one names the
\* registration created for it.
Mapped ==
  \A r \in Identities :
    /\ mapping[r].status # "NONE" =>
         \E o \in RegOps : IdentityOf(o) = r /\ mapping[r].altered = (o \in Altered)
    /\ mapping[r].linked => mapping[r].status # "NONE" /\ registered[PhoneOf[r]] = r

SyncInv ==
  /\ TypeOK /\ Apart /\ Mapped
  /\ \A p \in Handlers : Tidy(p) /\ Knows(p)
  /\ CompletedMeansProcessed /\ ProcessedIsLinked

\* A step leaves request q as it is.
Steady(q) ==
  /\ pc'[q] = pc[q] /\ doing'[q] = doing[q] /\ dups'[q] = dups[q] /\ seen'[q] = seen[q]
  /\ todo'[q] = todo[q] /\ cur'[q] = cur[q] /\ tally'[q] = tally[q]

\* A step takes no mapping, link, registration or result back.
Grows ==
  /\ load' = load
  /\ \A o \in Ops : op[o] = "PROCESSED" => op'[o] = "PROCESSED"
  /\ \A r \in Identities : mapping[r].status # "NONE" =>
       /\ mapping'[r].status # "NONE" /\ mapping'[r].altered = mapping[r].altered
       /\ mapping[r].linked => mapping'[r].linked
  /\ \A ph \in Phones : registered[ph] # "NONE" => registered'[ph] = registered[ph]

\* A step does not register identity r.
NotMade(r) == registered[PhoneOf[r]] # r => registered'[PhoneOf[r]] # r

-----------------------------------------------------------------------------
\* The operations, identities and phones of a workload.
LEMMA LoadFacts ==
  ASSUME TypeOK
  PROVE  /\ RegOps \subseteq Ops /\ 0 \notin Ops
         /\ \A o \in RegOps : /\ IdentityOf(o) \in Identities
                              /\ PhoneOf[IdentityOf(o)] \in Phones
                              /\ IdentityOf(o) \notin {"NONE", "ONLINE"}
         /\ \A r \in Identities : PhoneOf[r] \in Phones
         /\ \A b \in Batches : OpsOf(b) \subseteq Ops
  BY SyncAssumption DEF TypeOK, RegOps, IdentityOf, OpsOf, Ops

\* Nothing is submitted, mapped or registered at first.
LEMMA SyncInit == Init => SyncInv
<1> SUFFICES ASSUME Init PROVE SyncInv
  OBVIOUS
<1> USE DEF Init
<1>1. TypeOK
  BY SyncAssumption DEF TypeOK, OpStatuses, NoMapping
<1>2. \A p \in Handlers : Tidy(p)
  BY DEF Tidy, Running, Registering
<1>3. \A p \in Handlers, o \in Ops : ~Holds(p, o)
  BY SyncAssumption DEF Holds, Ops
<1>4. \A p \in Handlers : Knows(p)
  BY <1>3 DEF Knows, Accounted, Running, Registering
<1>5. Apart /\ Mapped
  BY <1>3 DEF Apart, Mapped, NoMapping
<1>6. CompletedMeansProcessed /\ ProcessedIsLinked
  BY LoadFacts, <1>1 DEF CompletedMeansProcessed, ProcessedIsLinked
<1> QED
  BY <1>1, <1>2, <1>4, <1>5, <1>6 DEF SyncInv

\* What a request knows survives the steps of the others.
LEMMA KnowsKept ==
  ASSUME TypeOK, NEW q \in Handlers, Tidy(q), Knows(q), Mapped, Steady(q), Grows,
         \A o \in Ops : Holds(q, o) => op'[o] = op[o],
         cur[q] \in RegOps /\ load.externalId /\ Single(Who(q)) => NotMade(Who(q))
  PROVE  Tidy(q)' /\ Knows(q)'
<1>1. /\ load' = load /\ pc'[q] = pc[q] /\ doing'[q] = doing[q] /\ dups'[q] = dups[q]
      /\ seen'[q] = seen[q] /\ todo'[q] = todo[q] /\ cur'[q] = cur[q] /\ tally'[q] = tally[q]
  BY DEF Steady, Grows
<1>2. Tidy(q)'
  BY <1>1 DEF Tidy, RegOps
<1>3. Who(q)' = Who(q) /\ RegOps' = RegOps /\ (Single(Who(q)) <=> Single(Who(q))')
  BY <1>1 DEF Who, IdentityOf, RegOps, Single
<1>4. \A o \in Ops : Holds(q, o)' => op'[o] = "PENDING"
  BY <1>1 DEF Holds, OpsOf, Knows
<1>5. \A o \in Ops : seen'[q][o] = "PROCESSED" => op'[o] = "PROCESSED"
  BY <1>1 DEF Knows, Grows
<1>6. Accounted(q)'
  <2>1. \A b \in Batches : OpsOf(b)' = OpsOf(b) /\ OpsOf(b) \subseteq Ops
    BY <1>1, LoadFacts DEF OpsOf
  <2> QED
    BY <1>1, <2>1 DEF Accounted, Knows, Grows
<1>7. pc[q] \in Registering => Who(q) \in Identities /\ PhoneOf[Who(q)] \in Phones /\ Who(q) # "NONE"
  BY LoadFacts DEF Tidy, Who
<1>8. (/\ pc[q] \in Registering \ {"lookup", "reserve"} => Existing(q)
       /\ pc[q] = "conflict" => ~SamePayload(q))'
  <2>1. pc[q] \in Registering \ {"lookup", "reserve"} => Existing(q) /\ Who(q) \in Identities
    BY <1>7 DEF Knows
  <2>2. pc[q] = "conflict" => pc[q] \in Registering \ {"lookup", "reserve"} /\ ~SamePayload(q)
    BY DEF Knows, Registering, Running
  <2>3. (pc[q] \in Registering \ {"lookup", "reserve"} => Existing(q))'
    BY <1>1, <1>3, <2>1 DEF Existing, Grows
  <2>4. (pc[q] = "conflict" => ~SamePayload(q))'
    BY <1>1, <1>3, <2>1, <2>2 DEF Existing, SamePayload, Altered, Grows
  <2> QED
    BY <2>3, <2>4
<1>9. (pc[q] \in {"create", "refuse"} /\ load.externalId /\ Single(Who(q)) =>
         registered[PhoneOf[Who(q)]] # Who(q))'
  <2>1. pc[q] \in {"create", "refuse"} => cur[q] \in RegOps
    BY DEF Tidy, Registering, Running
  <2> QED
    BY <1>1, <1>3, <2>1 DEF NotMade, Knows
<1>10. (pc[q] \in {"generate", "link"} => registered[PhoneOf[Who(q)]] = Who(q))'
  <2>1. pc[q] \in {"generate", "link"} => /\ Who(q) \in Identities /\ PhoneOf[Who(q)] \in Phones
                                         /\ registered[PhoneOf[Who(q)]] = Who(q) /\ Who(q) # "NONE"
    BY <1>7 DEF Knows, Registering, Running
  <2> QED
    BY <1>1, <1>3, <2>1 DEF Grows
<1>11. (pc[q] \in {"enqueue", "store"} /\ cur[q] \in RegOps => mapping[Who(q)].linked)'
  <2>1. pc[q] \in {"enqueue", "store"} /\ cur[q] \in RegOps =>
          Who(q) \in Identities /\ mapping[Who(q)].linked /\ mapping[Who(q)].status # "NONE"
    BY LoadFacts DEF Knows, Who, Mapped
  <2> QED
    BY <1>1, <1>3, <2>1 DEF Grows
<1> QED
  BY <1>2, <1>4, <1>5, <1>6, <1>8, <1>9, <1>10, <1>11 DEF Knows

\* A step of request p keeps the invariant if p itself and the rows fit it, and p
\* does not come to hold what another request holds.
LEMMA StepKeeps ==
  ASSUME SyncInv, NEW p \in Handlers, Grows, \A q \in Handlers \ {p} : Steady(q),
         \A q \in Handlers \ {p}, o \in Ops : Holds(q, o) => op'[o] = op[o],
         \A q \in Handlers \ {p}, o \in Ops : Holds(p, o)' => ~Holds(q, o),
         \A q \in Handlers \ {p} :
           cur[q] \in RegOps /\ load.externalId /\ Single(Who(q)) => NotMade(Who(q)),
         TypeOK', Mapped', Tidy(p)', Knows(p)', CompletedMeansProcessed', ProcessedIsLinked'
  PROVE  SyncInv'
<1>1. ASSUME NEW q \in Handlers \ {p} PROVE Tidy(q)' /\ Knows(q)'
  BY KnowsKept DEF SyncInv
<1>2. \A q \in Handlers \ {p}, o \in Ops : Holds(q, o)' => Holds(q, o)
  BY DEF Steady, Holds, OpsOf, Grows
<1>3. Apart'
  BY <1>2 DEF Apart, SyncInv
<1> QED
  BY <1>1, <1>3 DEF SyncInv

-----------------------------------------------------------------------------
(* runOfflineRegistration.                                                 *)

\* What a step of a running operation has to establish: where it goes and what
\* is then known.
LEMMA RunStep ==
  ASSUME SyncInv, NEW p \in Handlers, pc[p] \in Running, NEW l \in Running, Goto(p, l),
         UNCHANGED <<load, batch, op, local>>, Grows, TypeOK', Mapped',
         \A q \in Handlers \ {p} :
           cur[q] \in RegOps /\ load.externalId /\ Single(Who(q)) => NotMade(Who(q)),
         l \in Registering => cur[p] \in RegOps, l # "other",
         l \in Registering \ {"lookup", "reserve"} => Existing(p)',
         l = "conflict" => ~SamePayload(p)',
         l \in {"create", "refuse"} /\ load.externalId /\ Single(Who(p)) =>
           registered'[PhoneOf[Who(p)]] # Who(p),
         l \in {"generate", "link"} => registered'[PhoneOf[Who(p)]] = Who(p),
         l \in {"enqueue", "store"} /\ cur[p] \in RegOps => mapping'[Who(p)].linked
  PROVE  SyncInv'
<1>1. /\ pc'[p] = l /\ \A q \in Handlers \ {p} : pc'[q] = pc[q]
      /\ load' = load /\ op' = op /\ batch' = batch
      /\ doing' = doing /\ dups' = dups /\ seen' = seen /\ todo' = todo /\ cur' = cur /\ tally' = tally
  BY DEF SyncInv, TypeOK, Goto, local
<1>2. \A q \in Handlers \ {p} : Steady(q)
  BY <1>1 DEF Steady
<1>3. \A o \in Ops : Holds(p, o)' <=> Holds(p, o)
  BY <1>1 DEF Holds, Running
<1>4. \A q \in Handlers \ {p}, o \in Ops : Holds(p, o)' => ~Holds(q, o)
  BY <1>3 DEF SyncInv, Apart
<1>5. Tidy(p)'
  <2>1. Tidy(p) /\ cur[p] # 0 /\ RegOps' = RegOps
    BY <1>1 DEF SyncInv, Tidy, RegOps
  <2> QED
    BY <1>1, <2>1 DEF Tidy, Running, Registering
<1>6. Knows(p)'
  <2>1. Knows(p) /\ Who(p)' = Who(p) /\ (Single(Who(p))' <=> Single(Who(p))) /\ RegOps' = RegOps
    BY <1>1 DEF SyncInv, Who, IdentityOf, Single, RegOps
  <2>2. Accounted(p)'
    BY <1>1, <2>1 DEF Knows, Accounted, OpsOf
  <2> QED
    BY <1>1, <1>3, <2>1, <2>2 DEF Knows
<1>7. CompletedMeansProcessed'
  BY <1>1 DEF SyncInv, CompletedMeansProcessed, OpsOf
<1>8. ProcessedIsLinked'
  <2>1. \A o \in RegOps : op[o] = "PROCESSED" =>
          /\ IdentityOf(o) \in Identities /\ PhoneOf[IdentityOf(o)] \in Phones
          /\ mapping[IdentityOf(o)].linked /\ mapping[IdentityOf(o)].status # "NONE"
          /\ registered[PhoneOf[IdentityOf(o)]] = IdentityOf(o) /\ IdentityOf(o) # "NONE"
    BY LoadFacts DEF SyncInv, ProcessedIsLinked, Mapped
  <2>2. RegOps' = RegOps /\ \A o \in RegOps : IdentityOf(o)' = IdentityOf(o)
    BY <1>1 DEF RegOps, IdentityOf
  <2> QED
    BY <1>1, <2>1, <2>2 DEF ProcessedIsLinked, Grows
<1> QED
  BY <1>1, <1>2, <1>4, <1>5, <1>6, <1>7, <1>8, StepKeeps

\* The steps that leave mappings and registrations alone.
LEMMA LookSteps ==
  ASSUME SyncInv, NEW p \in Handlers,
         LookUp(p) \/ Recover(p) \/ GenerateQr(p) \/ EnqueueReconciliation(p) \/ RunOther(p)
  PROVE  SyncInv'
<1> DEFINE l == pc'[p]
<1>1. /\ l \in Running /\ pc[p] \in Running /\ Goto(p, l)
      /\ UNCHANGED <<load, batch, op, local>> /\ UNCHANGED <<mapping, registered>>
      /\ abandoned' = abandoned /\ faults' \in {faults, faults + 1} /\ (faults' # faults => faults < MaxFaults)
  BY DEF SyncInv, TypeOK, LookUp, RejectQr, Recover, GenerateQr, EnqueueReconciliation, RunOther,
         Goto, Fault, mishaps, rows, Running
<1>2. Grows
  BY <1>1 DEF Grows
<1>3. TypeOK'
  BY <1>1, SyncAssumption DEF SyncInv, TypeOK, Goto, local
<1>4. Mapped'
  BY <1>1 DEF SyncInv, Mapped, RegOps, IdentityOf, Altered
<1>5. \A r : NotMade(r)
  BY <1>1 DEF NotMade
<1>6. TypeOK /\ Tidy(p) /\ Knows(p) /\ (Existing(p) => Existing(p)')
  BY <1>1 DEF SyncInv, Existing, Who, IdentityOf, local
<1> DEFINE Next4 ==
      /\ (l \in Registering => cur[p] \in RegOps) /\ l # "other"
      /\ l \in Registering \ {"lookup", "reserve"} => Existing(p)'
      /\ l = "conflict" => ~SamePayload(p)'
      /\ l \in {"create", "refuse"} /\ load.externalId /\ Single(Who(p)) =>
           registered'[PhoneOf[Who(p)]] # Who(p)
      /\ l \in {"generate", "link"} => registered'[PhoneOf[Who(p)]] = Who(p)
      /\ l \in {"enqueue", "store"} /\ cur[p] \in RegOps => mapping'[Who(p)].linked
<1>7. LookUp(p) => Next4
  <2> SUFFICES ASSUME LookUp(p) PROVE Next4
    OBVIOUS
  <2>1. /\ cur[p] \in RegOps
        /\ l \in {"failPerm", "failRetry", "conflict", "store", "reserve"}
        /\ l = "conflict" => Existing(p) /\ ~SamePayload(p)
        /\ l = "store" => mapping[Who(p)].linked
    BY <1>6 DEF LookUp, RejectQr, Goto, TypeOK, Tidy, Registering, Running
  <2> QED
    BY <1>1, <2>1 DEF Registering, Running, Existing, SamePayload, Altered, Who, IdentityOf, local
<1>8. Recover(p) => Next4
  <2> SUFFICES ASSUME Recover(p) PROVE Next4
    OBVIOUS
  <2>1. /\ cur[p] \in RegOps
        /\ l = IF FoundByExternalId(Who(p)) THEN "generate" ELSE "create"
        /\ Existing(p)
    BY <1>6 DEF Recover, Goto, TypeOK, Tidy, Registering, Running, Knows
  <2> QED
    BY <1>1, <1>6, <2>1 DEF Registering, Running, FoundByExternalId
<1>9. GenerateQr(p) => Next4
  <2> SUFFICES ASSUME GenerateQr(p) PROVE Next4
    OBVIOUS
  <2>1. /\ cur[p] \in RegOps /\ l \in {"link", "failPerm", "failRetry"}
        /\ registered[PhoneOf[Who(p)]] = Who(p) /\ Existing(p)
    BY <1>6 DEF GenerateQr, Goto, TypeOK, Tidy, Registering, Running, Knows
  <2> QED
    BY <1>1, <1>6, <2>1 DEF Registering, Running
<1>10. EnqueueReconciliation(p) => Next4
  <2> SUFFICES ASSUME EnqueueReconciliation(p) PROVE Next4
    OBVIOUS
  <2>1. cur[p] \in RegOps /\ l \in {"store", "failRetry"} /\ mapping[Who(p)].linked
    BY <1>6 DEF EnqueueReconciliation, Goto, TypeOK, Tidy, Registering, Running, Knows
  <2> QED
    BY <1>1, <2>1 DEF Registering, Running
<1>11. RunOther(p) => Next4
  <2> SUFFICES ASSUME RunOther(p) PROVE Next4
    OBVIOUS
  <2>1. cur[p] \notin RegOps /\ l \in {"store", "failPerm"}
    BY <1>6 DEF RunOther, Goto, TypeOK, Tidy
  <2> QED
    BY <1>1, <2>1 DEF Registering, Running
<1>12. Next4
  BY <1>7, <1>8, <1>9, <1>10, <1>11
<1> HIDE DEF l
<1> QED
  BY <1>1, <1>2, <1>3, <1>4, <1>5, <1>12, RunStep

\* The steps that write the mapping: none takes a link back, and only Link, after
\* the registration was made or found, sets it.
LEMMA MappingSteps ==
  ASSUME SyncInv, NEW p \in Handlers,
         MarkConflicted(p) \/ Reserve(p) \/ NoteCreateFailure(p) \/ Link(p)
  PROVE  SyncInv'
<1> DEFINE l == pc'[p]
           r == Who(p)
           Row == [status : {"NONE", "PENDING", "SYNCED", "CONFLICTED"},
                   altered : BOOLEAN, linked : BOOLEAN]
<1>0. TypeOK /\ Tidy(p) /\ Knows(p) /\ Mapped
  BY DEF SyncInv
<1>1. /\ pc[p] \in Registering /\ l \in {"failPerm", "failRetry", "recover", "enqueue"} /\ Goto(p, l)
      /\ UNCHANGED <<load, batch, op, local>> /\ UNCHANGED <<registered, faults, abandoned>>
  BY <1>0 DEF TypeOK, MarkConflicted, Reserve, NoteCreateFailure, Link, Goto, mishaps, Registering, Running
<1>2. /\ cur[p] \in RegOps /\ r \in Identities /\ PhoneOf[r] \in Phones /\ r = IdentityOf(cur[p])
      /\ mapping \in [Identities -> Row]
  BY <1>0, <1>1, LoadFacts DEF Tidy, Who, TypeOK
<1>3. /\ pc[p] # "reserve" => mapping[r].status # "NONE"
      /\ pc[p] = "link" => registered[PhoneOf[r]] = r
  BY <1>0, <1>1 DEF Knows, Existing, MarkConflicted, Reserve, NoteCreateFailure, Link, Registering, Running
<1> DEFINE Written ==
      /\ mapping' \in [Identities -> Row]
      /\ \A x \in Identities \ {r} : mapping'[x] = mapping[x]
      /\ mapping'[r].status # "NONE"
      /\ mapping'[r].altered = IF mapping[r].status = "NONE" THEN cur[p] \in Altered
                                                             ELSE mapping[r].altered
      /\ mapping'[r].linked => mapping[r].linked \/ registered[PhoneOf[r]] = r
      /\ mapping[r].linked => mapping'[r].linked
      /\ l = "enqueue" => mapping'[r].linked
<1>4. MarkConflicted(p) => Written
  <2> HIDE DEF r
  <2> SUFFICES ASSUME MarkConflicted(p) PROVE Written
    OBVIOUS
  <2>1. mapping' = [mapping EXCEPT ![r].status = "CONFLICTED"] /\ l = "failPerm" /\ mapping[r].status # "NONE"
    BY <1>0, <1>3 DEF MarkConflicted, Goto, TypeOK, r
  <2> QED
    BY <1>2, <2>1
<1>5. Reserve(p) => Written
  <2> SUFFICES ASSUME Reserve(p) PROVE Written
    OBVIOUS
  <2>1. /\ mapping' = IF mapping[r].status = "NONE"
                       THEN [mapping EXCEPT ![r] =
                               [status |-> "PENDING", altered |-> cur[p] \in Altered, linked |-> FALSE]]
                       ELSE mapping
        /\ l = "recover" /\ (mapping[r].linked => mapping[r].status # "NONE")
    BY <1>0, <1>2 DEF Reserve, Goto, TypeOK, Mapped
  <2> HIDE DEF r
  <2> QED
    BY <1>2, <2>1
<1>6. NoteCreateFailure(p) => Written
  <2> SUFFICES ASSUME NoteCreateFailure(p) PROVE Written
    OBVIOUS
  <2>1. /\ \/ mapping' = [mapping EXCEPT ![r].status = "CONFLICTED"]
           \/ mapping' = [mapping EXCEPT ![r].status = "PENDING"]
        /\ l \in {"failPerm", "failRetry"} /\ mapping[r].status # "NONE"
    BY <1>0, <1>3 DEF NoteCreateFailure, Goto, TypeOK
  <2> HIDE DEF r
  <2> QED
    BY <1>2, <2>1
<1>7. Link(p) => Written
  <2> SUFFICES ASSUME Link(p) PROVE Written
    OBVIOUS
  <2>1. /\ mapping' = [mapping EXCEPT ![r].status = "SYNCED", ![r].linked = TRUE]
        /\ mapping[r].status # "NONE" /\ registered[PhoneOf[r]] = r
    BY <1>0, <1>3 DEF Link, Goto, TypeOK
  <2> HIDE DEF r
  <2> QED
    BY <1>2, <2>1
<1>8. Written
  BY <1>4, <1>5, <1>6, <1>7
<1> HIDE DEF r, Row
<1>9. Grows
  BY <1>1, <1>8 DEF Grows
<1>10. TypeOK'
  <2>1. pc' \in [Handlers -> {"idle", "check", "persist", "start", "next"} \cup Running]
    BY <1>0, <1>1 DEF Goto, TypeOK, Running, Registering
  <2>2. mapping' \in [Identities -> [status : {"NONE", "PENDING", "SYNCED", "CONFLICTED"},
                                     altered : BOOLEAN, linked : BOOLEAN]]
    BY <1>8 DEF Row
  <2> QED
    BY <1>0, <1>1, <2>1, <2>2 DEF TypeOK, local
<1>11. Mapped'
  <2>1. RegOps' = RegOps /\ Altered' = Altered /\ \A o : IdentityOf(o)' = IdentityOf(o)
    BY <1>1 DEF RegOps, Altered, IdentityOf
  <2>2. \A x \in Identities \ {r} :
          /\ mapping'[x].status # "NONE" =>
               \E o \in RegOps : IdentityOf(o) = x /\ mapping'[x].altered = (o \in Altered)
          /\ mapping'[x].linked => mapping'[x].status # "NONE" /\ registered[PhoneOf[x]] = x
    BY <1>0, <1>8 DEF Mapped
  <2>3. /\ \E o \in RegOps : IdentityOf(o) = r /\ mapping'[r].altered = (o \in Altered)
        /\ mapping'[r].linked => mapping'[r].status # "NONE" /\ registered[PhoneOf[r]] = r
    BY <1>0, <1>2, <1>8 DEF Mapped
  <2> QED
    BY <1>1, <2>1, <2>2, <2>3 DEF Mapped
<1>12. \A x : NotMade(x)
  BY <1>1 DEF NotMade
<1>13. Existing(p)'
  BY <1>1, <1>8 DEF Existing, Who, IdentityOf, local, r
<1> QED
  <2>1. pc[p] \in Running /\ l \in Running /\ l # "other"
    BY <1>1 DEF Registering, Running
  <2>2. l \notin {"conflict", "create", "refuse", "generate", "link", "store"}
    BY <1>1
  <2>3. l = "enqueue" => mapping'[Who(p)].linked
    BY <1>8 DEF r
  <2> HIDE DEF l
  <2> QED
    BY <1>1, <1>2, <1>9, <1>10, <1>11, <1>12, <1>13, <2>1, <2>2, <2>3, RunStep

\* RegistrationsService.create makes the registration for its own identity, or leaves
\* the phone to whoever has it.
LEMMA CreateStep ==
  ASSUME SyncInv, NEW p \in Handlers, Create(p)
  PROVE  SyncInv'
<1> DEFINE l == pc'[p]
           r == Who(p)
<1>0. TypeOK /\ Tidy(p) /\ Knows(p) /\ Mapped
  BY DEF SyncInv
<1>1. /\ pc[p] = "create" /\ l \in {"generate", "refuse", "defer"} /\ Goto(p, l)
      /\ UNCHANGED <<load, batch, op, local>> /\ mapping' = mapping /\ abandoned' = abandoned
      /\ faults' \in {faults, faults + 1} /\ (faults' # faults => faults < MaxFaults)
  BY <1>0 DEF TypeOK, Create, Goto, Fault, mishaps
<1>2. /\ cur[p] \in RegOps /\ r \in Identities /\ PhoneOf[r] \in Phones /\ r = IdentityOf(cur[p])
      /\ r # "NONE" /\ Existing(p)
  BY <1>0, <1>1, LoadFacts DEF Tidy, Knows, Who, Registering, Running
<1>3. \/ l = "generate" /\ registered[PhoneOf[r]] = "NONE"
         /\ registered' = [registered EXCEPT ![PhoneOf[r]] = r]
      \/ l # "generate" /\ registered' = registered
  BY <1>0 DEF Create, Goto, TypeOK
<1> HIDE DEF r
<1>4. /\ registered' \in [Phones -> {"NONE", "ONLINE"} \cup Identities]
      /\ \A ph \in Phones : registered[ph] # "NONE" => registered'[ph] = registered[ph]
      /\ \A ph \in Phones : registered'[ph] # registered[ph] => registered'[ph] = r
      /\ l = "generate" => registered'[PhoneOf[r]] = r
  BY <1>0, <1>2, <1>3 DEF TypeOK
<1>5. Grows
  BY <1>1, <1>4 DEF Grows
<1>6. TypeOK'
  <2>1. pc' \in [Handlers -> {"idle", "check", "persist", "start", "next"} \cup Running]
    BY <1>0, <1>1 DEF Goto, TypeOK, Running
  <2>2. faults' \in 0..MaxFaults
    BY <1>0, <1>1, SyncAssumption DEF TypeOK
  <2> QED
    BY <1>0, <1>1, <1>4, <2>1, <2>2 DEF TypeOK, local
<1>7. Mapped'
  <2>1. \A x \in Identities : mapping[x].linked => registered'[PhoneOf[x]] = x
    BY <1>0, <1>4, LoadFacts, SyncAssumption DEF Mapped
  <2> QED
    BY <1>0, <1>1, <2>1 DEF Mapped, RegOps, Altered, IdentityOf
<1>8. ASSUME NEW q \in Handlers \ {p}, cur[q] \in RegOps, Single(Who(q))
      PROVE  NotMade(Who(q))
  <2>1. cur[q] # cur[p]
    <3>1. cur[p] \in Ops /\ Holds(p, cur[p]) /\ Holds(q, cur[q])
      BY <1>0, <1>2, LoadFacts DEF Holds
    <3> QED
      BY <3>1 DEF SyncInv, Apart
  <2>2. Who(q) # r
    BY <1>2, <1>8, <2>1 DEF Single, Who
  <2>3. Who(q) \in Identities /\ PhoneOf[Who(q)] \in Phones
    BY <1>0, <1>8, LoadFacts DEF Who
  <2> QED
    BY <1>4, <2>2, <2>3 DEF NotMade
<1>9. Existing(p)'
  BY <1>1, <1>2 DEF Existing, Who, IdentityOf, local
<1>10. load.externalId /\ Single(r) /\ l = "refuse" => registered'[PhoneOf[r]] # r
  BY <1>0, <1>1, <1>3 DEF Knows, r
<1> QED
  <2>1. pc[p] \in Running /\ l \in Running /\ l \notin {"other", "conflict", "create", "link", "enqueue", "store"}
    BY <1>1 DEF Running
  <2>2. l = "generate" => registered'[PhoneOf[Who(p)]] = Who(p)
    BY <1>4 DEF r
  <2>3. load.externalId /\ Single(Who(p)) /\ l = "refuse" => registered'[PhoneOf[Who(p)]] # Who(p)
    BY <1>10 DEF r
  <2> HIDE DEF l
  <2> QED
    BY <1>1, <1>2, <1>5, <1>6, <1>7, <1>8, <1>9, <2>1, <2>2, <2>3, RunStep

-----------------------------------------------------------------------------
(* Batches and operations.                                                 *)

\* What a step of a batch has to establish; mappings and registrations stay.
LEMMA BatchStep ==
  ASSUME SyncInv, NEW p \in Handlers, UNCHANGED <<load, mapping, registered>>,
         \A q \in Handlers \ {p} : Steady(q), TypeOK', Tidy(p)',
         \A o \in Ops : op[o] = "PROCESSED" => op'[o] = "PROCESSED",
         \A o \in RegOps : op'[o] = "PROCESSED" => op[o] = "PROCESSED" \/ mapping[IdentityOf(o)].linked,
         \A q \in Handlers \ {p}, o \in Ops : Holds(q, o) => op'[o] = op[o] /\ ~Holds(p, o)',
         \A o \in Ops : Holds(p, o)' => op'[o] = "PENDING",
         \A o \in Ops : seen'[p][o] = "PROCESSED" => op'[o] = "PROCESSED",
         Accounted(p)',
         pc'[p] \notin (Registering \cup {"store"}) \ {"lookup"},
         \A b \in Batches : batch'[b] \in {"COMPLETED", "DUPLICATE"} =>
           batch[b] = batch'[b] \/ \A o \in OpsOf(b) : op'[o] = "PROCESSED"
  PROVE  SyncInv'
<1>0. TypeOK /\ load' = load /\ mapping' = mapping /\ registered' = registered
  BY DEF SyncInv
<1>1. Grows
  BY <1>0 DEF Grows
<1>2. Mapped'
  BY <1>0 DEF SyncInv, Mapped, RegOps, IdentityOf, Altered
<1>3. Knows(p)'
  BY DEF Knows, Registering, Running
<1>4. \A r : NotMade(r)
  BY <1>0 DEF NotMade
<1>5. CompletedMeansProcessed'
  <2>1. \A b \in Batches : OpsOf(b)' = OpsOf(b) /\ OpsOf(b) \subseteq Ops
    BY <1>0, LoadFacts DEF OpsOf
  <2> QED
    BY <2>1 DEF SyncInv, CompletedMeansProcessed
<1>6. ProcessedIsLinked'
  <2>1. \A o \in RegOps : op'[o] = "PROCESSED" =>
          mapping[IdentityOf(o)].linked /\ registered[PhoneOf[IdentityOf(o)]] = IdentityOf(o)
    BY <1>0, LoadFacts DEF SyncInv, ProcessedIsLinked, Mapped
  <2> QED
    BY <1>0, <2>1 DEF ProcessedIsLinked, RegOps, IdentityOf
<1> QED
  BY <1>1, <1>2, <1>3, <1>4, <1>5, <1>6, StepKeeps

\* A request that has left has nothing to run.
LEMMA Left ==
  ASSUME TypeOK, NEW p \in Handlers, Leave(p)
  PROVE  /\ \A q \in Handlers \ {p} : Steady(q)
         /\ Tidy(p)' /\ Accounted(p)' /\ \A o \in Ops : ~Holds(p, o)'
         /\ \A o \in Ops : seen'[p][o] # "PROCESSED"
         /\ pc'[p] = "idle"
         /\ pc' \in [Handlers -> {"idle", "check", "persist", "start", "next"} \cup Running]
         /\ doing' \in [Handlers -> Batches \cup {"none", "admin"}]
         /\ dups' \in [Handlers -> SUBSET Ops]
         /\ seen' \in [Handlers -> [Ops -> OpStatuses]]
         /\ todo' \in [Handlers -> SUBSET Ops]
         /\ cur' \in [Handlers -> Ops \cup {0}]
         /\ tally' \in [Handlers -> SUBSET {"PROCESSED", "FAILED", "DUPLICATE"}]
<1>1. /\ pc'[p] = "idle" /\ todo'[p] = {} /\ cur'[p] = 0 /\ \A o \in Ops : seen'[p][o] = "NONE"
  BY DEF TypeOK, Leave, Goto
<1>2. \A q \in Handlers \ {p} : Steady(q)
  BY DEF TypeOK, Leave, Goto, Steady
<1>3. Tidy(p)' /\ Accounted(p)' /\ \A o \in Ops : ~Holds(p, o)'
  BY <1>1, LoadFacts DEF Tidy, Accounted, Holds, Running, Registering
<1> QED
  BY <1>1, <1>2, <1>3 DEF TypeOK, Leave, Goto, OpStatuses

\* Requests that end: refused, finished, or dead.
LEMMA LeaveSteps ==
  ASSUME SyncInv, NEW p \in Handlers, Refuse(p) \/ FinishBatch(p) \/ Crash(p)
  PROVE  SyncInv'
<1>0. TypeOK /\ Tidy(p) /\ Knows(p)
  BY DEF SyncInv
<1>1. Leave(p) /\ load' = load /\ op' = op /\ mapping' = mapping /\ registered' = registered
      /\ (batch' = batch \/ FinishBatch(p))
  BY DEF Refuse, FinishBatch, Crash, rows
<1>2. /\ batch' \in [Batches -> {"NONE", "RECEIVED", "PROCESSING"} \cup Final]
      /\ \A b \in Batches : batch'[b] \in {"COMPLETED", "DUPLICATE"} =>
           batch[b] = batch'[b] \/ \A o \in OpsOf(b) : op'[o] = "PROCESSED"
  <2>1. CASE batch' = batch
    BY <1>0, <2>1 DEF TypeOK
  <2>2. CASE FinishBatch(p) /\ doing[p] \in Batches
    <3>1. batch' = [batch EXCEPT ![doing[p]] = BatchStatus(tally[p])] /\ pc[p] = "next" /\ todo[p] = {}
      BY <2>2 DEF FinishBatch
    <3>2. BatchStatus(tally[p]) \in Final
      BY DEF BatchStatus, Final
    <3>3. BatchStatus(tally[p]) \in {"COMPLETED", "DUPLICATE"} => "FAILED" \notin tally[p]
      BY DEF BatchStatus
    <3>4. cur[p] = 0 /\ OpsOf(doing[p]) \subseteq Ops /\ 0 \notin Ops
      BY <1>0, <2>2, <3>1, LoadFacts DEF Tidy, Running
    <3>5. BatchStatus(tally[p]) \in {"COMPLETED", "DUPLICATE"} =>
            \A o \in OpsOf(doing[p]) : op[o] = "PROCESSED"
      BY <1>0, <2>2, <3>1, <3>3, <3>4 DEF Knows, Accounted
    <3> QED
      BY <1>0, <1>1, <2>2, <3>1, <3>2, <3>5 DEF TypeOK
  <2>3. CASE FinishBatch(p) /\ doing[p] \notin Batches
    BY <1>0, <2>3 DEF FinishBatch, TypeOK
  <2> QED
    BY <1>1, <2>1, <2>2, <2>3
<1>3. faults' \in 0..MaxFaults /\ abandoned' \subseteq Batches
  BY <1>0, SyncAssumption DEF TypeOK, Refuse, FinishBatch, Crash, mishaps
<1>4. TypeOK'
  BY <1>0, <1>1, <1>2, <1>3, Left DEF TypeOK
<1> QED
  BY <1>0, <1>1, <1>2, <1>4, Left, BatchStep DEF Registering, Running

\* A batch is submitted, its duplicates are found, and it starts; the endpoint that
\* recovers failures starts with nothing of its own.
LEMMA OpenSteps ==
  ASSUME SyncInv, NEW p \in Handlers,
         \/ \E b \in Batches : Submit(p, b)
         \/ FindDuplicates(p) \/ StartBatch(p) \/ RecoverFailed(p)
  PROVE  SyncInv'
<1>0. TypeOK /\ Tidy(p) /\ Knows(p)
  BY DEF SyncInv
<1>1. /\ load' = load /\ op' = op /\ mapping' = mapping /\ registered' = registered
      /\ cur' = cur /\ tally' = tally /\ cur[p] = 0
      /\ pc'[p] \in {"check", "persist", "next"}
  BY <1>0 DEF Submit, FindDuplicates, StartBatch, RecoverFailed, rows, mishaps, TypeOK, Goto, Tidy, Running
<1>2. \A q \in Handlers \ {p} : Steady(q)
  BY <1>0 DEF Steady, Submit, FindDuplicates, StartBatch, RecoverFailed, TypeOK, Goto
<1>3. \A b \in Batches : OpsOf(b) \in SUBSET Ops
  BY <1>0, LoadFacts
<1>4. TypeOK'
  <2>1. CASE \E b \in Batches : Submit(p, b)
    BY <1>0, <2>1 DEF TypeOK, Submit, Goto, rows, mishaps
  <2>2. CASE FindDuplicates(p)
    <3>1. Known(OpsOf(doing[p])) \in SUBSET Ops
      BY <1>0, <1>3, <2>2 DEF FindDuplicates, Known, Tidy
    <3> QED
      BY <1>0, <2>2, <3>1 DEF TypeOK, FindDuplicates, Goto, rows, mishaps
  <2>3. CASE StartBatch(p)
    <3>1. OpsOf(doing[p]) \in SUBSET Ops /\ doing[p] \in Batches
      BY <1>0, <1>3, <2>3 DEF StartBatch, Tidy
    <3>2. batch' \in [Batches -> {"NONE", "RECEIVED", "PROCESSING"} \cup Final]
      BY <1>0, <2>3 DEF TypeOK, StartBatch
    <3>3. seen' \in [Handlers -> [Ops -> OpStatuses]]
      BY <1>0, <2>3 DEF TypeOK, StartBatch, OpStatuses
    <3> QED
      BY <1>0, <2>3, <3>1, <3>2, <3>3 DEF TypeOK, StartBatch, Goto, mishaps
  <2>4. CASE RecoverFailed(p)
    <3>1. seen' \in [Handlers -> [Ops -> OpStatuses]]
      BY <1>0, <2>4 DEF TypeOK, RecoverFailed, OpStatuses
    <3> QED
      BY <1>0, <2>4, <3>1 DEF TypeOK, RecoverFailed, Goto, rows, mishaps
  <2> QED
    BY <2>1, <2>2, <2>3, <2>4
<1>5. Tidy(p)'
  <2>1. cur'[p] = 0 /\ 0 \notin Ops /\ todo'[p] \subseteq Ops
    BY <1>0, <1>1, <1>4, LoadFacts DEF TypeOK
  <2>2. pc'[p] \in {"check", "persist"} => todo'[p] = {} /\ doing'[p] \in Batches
    BY <1>0 DEF Submit, FindDuplicates, StartBatch, RecoverFailed, TypeOK, Goto, Tidy, local
  <2> QED
    BY <1>1, <2>1, <2>2 DEF Tidy, Running, Registering
<1>6. \A o \in Ops : Holds(p, o)' => Holds(p, o)
  <2> SUFFICES ASSUME NEW o \in Ops, Holds(p, o)' PROVE Holds(p, o)
    OBVIOUS
  <2>1. o # cur'[p] /\ pc'[p] # "start"
    BY <1>1, LoadFacts, <1>0
  <2>2. o \in todo'[p] \ dups'[p]
    BY <2>1 DEF Holds
  <2>3. StartBatch(p)
    BY <1>0, <2>2 DEF Submit, FindDuplicates, RecoverFailed, TypeOK, Tidy
  <2> QED
    BY <1>0, <2>2, <2>3 DEF StartBatch, Holds, TypeOK
<1>7. \A o \in Ops : seen'[p][o] = "PROCESSED" => op'[o] = "PROCESSED"
  BY <1>0, <1>1 DEF Submit, FindDuplicates, StartBatch, RecoverFailed, TypeOK, Knows
<1>8. Accounted(p)'
  <2>1. pc'[p] = "next" => StartBatch(p) \/ RecoverFailed(p)
    BY <1>0 DEF Submit, FindDuplicates, TypeOK, Goto
  <2>2. StartBatch(p) => todo'[p] = OpsOf(doing[p])' 
    BY <1>0 DEF StartBatch, TypeOK, OpsOf
  <2>3. RecoverFailed(p) => doing'[p] \notin Batches
    BY <1>0, SyncAssumption DEF RecoverFailed, TypeOK
  <2> QED
    BY <1>1, <2>1, <2>2, <2>3 DEF Accounted, Running
<1>9. \A b \in Batches : batch'[b] \in {"COMPLETED", "DUPLICATE"} => batch[b] = batch'[b]
  BY <1>0 DEF Submit, FindDuplicates, StartBatch, RecoverFailed, TypeOK, rows
<1>10. /\ \A q \in Handlers \ {p}, o \in Ops : Holds(q, o) => ~Holds(p, o)'
       /\ \A o \in Ops : Holds(p, o)' => op'[o] = "PENDING"
  BY <1>0, <1>1, <1>6 DEF SyncInv, Apart, Knows
<1> QED
  BY <1>0, <1>1, <1>2, <1>4, <1>5, <1>7, <1>8, <1>9, <1>10, BatchStep DEF Registering, Running

\* The batch and its new operations are inserted: nobody ran them before.
LEMMA CreateBatchStep ==
  ASSUME SyncInv, NEW p \in Handlers, CreateBatch(p)
  PROVE  SyncInv'
<1> DEFINE b == doing[p]
           new == OpsOf(b) \ dups[p]
<1>0. TypeOK /\ Tidy(p) /\ Knows(p) /\ pc[p] = "persist" /\ b \in Batches
      /\ load' = load /\ mapping' = mapping /\ registered' = registered
      /\ faults' = faults /\ abandoned' = abandoned
  BY DEF SyncInv, CreateBatch, Tidy, mishaps
<1>1. CASE Leave(p) /\ UNCHANGED <<batch, op>>
  <2>1. TypeOK'
    BY <1>0, <1>1, Left DEF TypeOK
  <2> QED
    BY <1>0, <1>1, <2>1, Left, BatchStep DEF Registering, Running
<1>2. CASE /\ Creatable(b, new) /\ Goto(p, "start") /\ UNCHANGED local
           /\ batch' = [batch EXCEPT ![b] = "RECEIVED"]
           /\ op' = [o \in Ops |-> IF o \in new THEN "PENDING" ELSE op[o]]
  <2>1. /\ doing' = doing /\ dups' = dups /\ seen' = seen /\ todo' = todo /\ cur' = cur /\ tally' = tally
        /\ pc'[p] = "start" /\ \A q \in Handlers \ {p} : Steady(q)
    BY <1>0, <1>2 DEF local, Steady, Goto, TypeOK
  <2>2. TypeOK'
    <3>1. op' \in [Ops -> OpStatuses] /\ batch' \in [Batches -> {"NONE", "RECEIVED", "PROCESSING"} \cup Final]
      BY <1>0, <1>2 DEF TypeOK, OpStatuses
    <3> QED
      BY <1>0, <1>2, <2>1, <3>1 DEF TypeOK, Goto
  <2>3. Tidy(p)'
    BY <1>0, <2>1 DEF Tidy, Running, Registering
  <2>4. \A o \in new : op[o] = "NONE"
    BY <1>2 DEF Creatable
  <2>5. new \subseteq Ops /\ OpsOf(b)' = OpsOf(b) /\ cur[p] = 0 /\ 0 \notin Ops /\ todo[p] = {}
    BY <1>0, <2>1, LoadFacts DEF OpsOf, Tidy, Running
  <2>6. \A o \in Ops : Holds(p, o)' => o \in new
    BY <2>1, <2>5 DEF Holds
  <2>7. \A q \in Handlers, o \in Ops : Holds(q, o) => o \notin new /\ op'[o] = op[o]
    BY <1>2, <2>4 DEF SyncInv, Knows
  <2>8. \A o \in Ops : op[o] = "PROCESSED" => op'[o] = "PROCESSED"
    BY <1>2, <2>4
  <2>9. \A o \in Ops : op'[o] = "PROCESSED" => op[o] = "PROCESSED"
    BY <1>2
  <2>10. Accounted(p)'
    BY <2>1 DEF Accounted, Running
  <2>11. \A o \in Ops : seen'[p][o] = "PROCESSED" => op'[o] = "PROCESSED"
    BY <1>0, <2>1, <2>8 DEF Knows
  <2>12. \A c \in Batches : batch'[c] \in {"COMPLETED", "DUPLICATE"} => batch[c] = batch'[c]
    BY <1>0, <1>2 DEF TypeOK
  <2>13. \A o \in Ops : Holds(p, o)' => op'[o] = "PENDING"
    BY <1>2, <2>6
  <2>14. RegOps \subseteq Ops
    BY <1>0, LoadFacts
  <2> HIDE DEF new, b
  <2> QED
    BY <1>0, <2>1, <2>2, <2>3, <2>6, <2>7, <2>8, <2>9, <2>10, <2>11, <2>12, <2>13, <2>14, BatchStep
       DEF Registering, Running
<1> QED
  BY <1>1, <1>2 DEF CreateBatch

\* The next operation of a batch is run, claimed and run, or answered: only an
\* operation nobody runs is claimed.
LEMMA NextOperation ==
  ASSUME SyncInv, NEW p \in Handlers, RunOwn(p) \/ AnswerDuplicate(p) \/ RetryDuplicate(p)
  PROVE  SyncInv'
<1>0. /\ TypeOK /\ Tidy(p) /\ Knows(p) /\ pc[p] = "next" /\ cur[p] = 0 /\ 0 \notin Ops
      /\ load' = load /\ mapping' = mapping /\ registered' = registered /\ batch' = batch
      /\ doing' = doing /\ dups' = dups /\ seen' = seen /\ faults' = faults /\ abandoned' = abandoned
  BY LoadFacts DEF SyncInv, RunOwn, AnswerDuplicate, RetryDuplicate, Tidy, Running, rows, mishaps
<1> DEFINE Runs(o) ==
      /\ pc' = [pc EXCEPT ![p] = IF o \in RegOps THEN "lookup" ELSE "other"]
      /\ cur' = [cur EXCEPT ![p] = o] /\ tally' = tally
      /\ IF o \in dups[p] THEN Claimable(o) /\ op' = [op EXCEPT ![o] = "PENDING"] ELSE op' = op
    Answers(o) ==
      /\ pc' = pc /\ cur' = cur /\ op' = op
      /\ \E kind \in {"DUPLICATE", "FAILED"} :
           /\ tally' = [tally EXCEPT ![p] = @ \cup {kind}]
           /\ kind = "DUPLICATE" => op[o] = "PROCESSED"
<1>1. PICK o \in todo[p] : /\ Runs(o) \/ Answers(o)
                          /\ todo' = [todo EXCEPT ![p] = @ \ {o}]
  <2>1. CASE RunOwn(p)
    BY <1>0, <2>1 DEF RunOwn, IsNext, Run, Goto, rows
  <2>2. CASE AnswerDuplicate(p)
    BY <1>0, <2>2 DEF AnswerDuplicate, IsNext, Report, rows, Knows, TypeOK
  <2>3. CASE RetryDuplicate(p)
    BY <1>0, <2>3 DEF RetryDuplicate, IsNext, Run, Goto, Report
  <2> QED
    BY <2>1, <2>2, <2>3
<1>2. o \in Ops /\ o # 0
  BY <1>0 DEF TypeOK
<1>3. \A q \in Handlers \ {p} : Steady(q)
  BY <1>0, <1>1 DEF Steady, TypeOK
<1>4. TypeOK'
  <2>1. pc' \in [Handlers -> {"idle", "check", "persist", "start", "next"} \cup Running]
    BY <1>0, <1>1 DEF TypeOK, Running
  <2>2. cur' \in [Handlers -> Ops \cup {0}]
    BY <1>0, <1>1, <1>2 DEF TypeOK
  <2>3. op' \in [Ops -> OpStatuses]
    <3>1. op' = op \/ op' = [op EXCEPT ![o] = "PENDING"]
      BY <1>1
    <3> QED
      BY <1>0, <1>2, <3>1 DEF TypeOK, OpStatuses
  <2>5. tally' \in [Handlers -> SUBSET {"PROCESSED", "FAILED", "DUPLICATE"}]
    <3>1. \/ tally' = tally
          \/ \E kind \in {"DUPLICATE", "FAILED"} : tally' = [tally EXCEPT ![p] = tally[p] \cup {kind}]
      BY <1>1
    <3>2. ASSUME NEW kind \in {"DUPLICATE", "FAILED"},
                 tally' = [tally EXCEPT ![p] = tally[p] \cup {kind}]
          PROVE  tally' \in [Handlers -> SUBSET {"PROCESSED", "FAILED", "DUPLICATE"}]
      <4> DEFINE more == tally[p] \cup {kind}
      <4>1. more \in SUBSET {"PROCESSED", "FAILED", "DUPLICATE"}
        BY <1>0 DEF TypeOK
      <4> HIDE DEF more
      <4> QED
        BY <1>0, <3>2, <4>1 DEF TypeOK, more
    <3> QED
      BY <1>0, <3>1, <3>2 DEF TypeOK
  <2>4. todo' \in [Handlers -> SUBSET Ops]
    BY <1>0, <1>1 DEF TypeOK
  <2> QED
    BY <1>0, <2>1, <2>2, <2>3, <2>4, <2>5 DEF TypeOK
<1>5. /\ todo'[p] = todo[p] \ {o}
      /\ \/ /\ Runs(o) /\ cur'[p] = o /\ pc'[p] = IF o \in RegOps THEN "lookup" ELSE "other"
         \/ Answers(o) /\ cur'[p] = 0 /\ pc'[p] = "next"
  BY <1>0, <1>1 DEF TypeOK
<1>6. Tidy(p)'
  BY <1>0, <1>2, <1>4, <1>5 DEF Tidy, RegOps, Running, Registering, TypeOK
<1>7. (op[o] # "PROCESSED" /\ op'[o] = "PENDING") \/ op' = op
  BY <1>0, <1>2, <1>5 DEF TypeOK, Claimable
<1>8. \A x \in Ops : x # o => op'[x] = op[x]
  BY <1>0, <1>2, <1>5 DEF TypeOK
<1>9. \A x \in Ops : Holds(p, x)' => Holds(p, x) \/ x = o
  BY <1>0, <1>5 DEF Holds
<1>10. \A q \in Handlers \ {p}, x \in Ops : Holds(q, x) => op'[x] = op[x] /\ ~Holds(p, x)'
  <2> SUFFICES ASSUME NEW q \in Handlers \ {p}, NEW x \in Ops, Holds(q, x)
               PROVE  op'[x] = op[x] /\ ~Holds(p, x)'
    OBVIOUS
  <2>1. op[x] = "PENDING" /\ ~Holds(p, x)
    BY DEF SyncInv, Knows, Apart
  <2>2. CASE x # o
    BY <1>8, <1>9, <2>1, <2>2
  <2>3. CASE x = o
    <3>1. o \in dups[p]
      BY <2>1, <2>3 DEF Holds
    <3>2. Answers(o) /\ cur'[p] = 0
      BY <1>5, <2>1, <2>3, <3>1 DEF Claimable
    <3> QED
      BY <1>0, <1>2, <1>5, <2>3, <3>2 DEF Holds
  <2> QED
    BY <2>2, <2>3
<1>11. \A x \in Ops : Holds(p, x)' => op'[x] = "PENDING"
  <2> SUFFICES ASSUME NEW x \in Ops, Holds(p, x)' PROVE op'[x] = "PENDING"
    OBVIOUS
  <2>1. CASE x # o
    BY <1>0, <1>8, <1>9, <2>1 DEF Knows
  <2>2. CASE x = o
    <3>1. Runs(o)
      BY <1>0, <1>2, <1>5, <2>2 DEF Holds
    <3>2. CASE o \in dups[p]
      BY <1>0, <1>2, <3>1, <3>2, <2>2 DEF TypeOK
    <3>3. CASE o \notin dups[p]
      BY <1>0, <1>2, <3>1, <3>3, <2>2 DEF Holds, Knows
    <3> QED
      BY <3>2, <3>3
  <2> QED
    BY <2>1, <2>2
<1>12. \A x \in Ops : op[x] = "PROCESSED" => op'[x] = "PROCESSED"
  BY <1>7, <1>8
<1>13. \A x \in Ops : op'[x] = "PROCESSED" => op[x] = "PROCESSED"
  BY <1>7, <1>8
<1>14. Accounted(p)'
  <2> SUFFICES ASSUME doing[p] \in Batches, NEW x \in OpsOf(doing[p])
               PROVE  \/ x \in todo'[p] \/ x = cur'[p]
                      \/ op'[x] = "PROCESSED" \/ "FAILED" \in tally'[p]
    BY <1>0 DEF Accounted, OpsOf
  <2>1. x \in todo[p] \/ op[x] = "PROCESSED" \/ "FAILED" \in tally[p]
    BY <1>0, LoadFacts DEF Knows, Accounted
  <2>2. x \in Ops /\ ("FAILED" \in tally[p] => "FAILED" \in tally'[p])
    BY <1>0, <1>5, LoadFacts DEF TypeOK
  <2>3. CASE x = o
    BY <1>0, <1>5, <2>3 DEF TypeOK
  <2>4. CASE x # o
    BY <1>5, <1>12, <2>1, <2>2, <2>4
  <2> QED
    BY <2>3, <2>4
<1>15. RegOps \subseteq Ops /\ \A x \in Ops : seen'[p][x] = "PROCESSED" => op'[x] = "PROCESSED"
  BY <1>0, <1>12, LoadFacts DEF Knows
<1>16. pc'[p] \in {"lookup", "other", "next"}
  BY <1>5
<1> HIDE DEF Runs, Answers
<1> QED
  BY <1>0, <1>3, <1>4, <1>6, <1>10, <1>11, <1>12, <1>13, <1>14, <1>15, <1>16, BatchStep
     DEF Registering, Running

\* The outcome is written to the operation the request runs, which nobody else does.
LEMMA StoreStep ==
  ASSUME SyncInv, NEW p \in Handlers, StoreOutcome(p)
  PROVE  SyncInv'
<1> DEFINE o == cur[p]
           status == IF pc[p] = "store" THEN "PROCESSED"
                     ELSE IF pc[p] = "failRetry" THEN "RETRYABLE" ELSE "PERMANENT"
<1>0. /\ TypeOK /\ Tidy(p) /\ Knows(p) /\ pc[p] \in {"store", "failRetry", "failPerm"}
      /\ load' = load /\ mapping' = mapping /\ registered' = registered /\ batch' = batch
      /\ doing' = doing /\ dups' = dups /\ seen' = seen /\ todo' = todo
      /\ faults' = faults /\ abandoned' = abandoned
      /\ RegOps \subseteq Ops /\ 0 \notin Ops /\ \A b \in Batches : OpsOf(b) \subseteq Ops
  BY LoadFacts DEF SyncInv, StoreOutcome, mishaps
<1>1. /\ op' = [op EXCEPT ![o] = status] /\ cur' = [cur EXCEPT ![p] = 0]
      /\ pc' = [pc EXCEPT ![p] = "next"]
      /\ tally' = [tally EXCEPT ![p] = @ \cup {IF pc[p] = "store" THEN "PROCESSED" ELSE "FAILED"}]
  BY DEF StoreOutcome, Goto
<1>2. o \in Ops /\ Holds(p, o) /\ op[o] = "PENDING" /\ o \notin todo[p]
  BY <1>0 DEF TypeOK, Tidy, Running, Holds, Knows
<1>3. \A q \in Handlers \ {p} : Steady(q)
  BY <1>0, <1>1 DEF Steady, TypeOK
<1>4. TypeOK'
  <2>1. pc' \in [Handlers -> {"idle", "check", "persist", "start", "next"} \cup Running]
    BY <1>0, <1>1 DEF TypeOK
  <2>2. cur' \in [Handlers -> Ops \cup {0}] /\ op' \in [Ops -> OpStatuses]
    BY <1>0, <1>1, <1>2 DEF TypeOK, OpStatuses
  <2>3. tally' \in [Handlers -> SUBSET {"PROCESSED", "FAILED", "DUPLICATE"}]
    BY <1>0, <1>1 DEF TypeOK
  <2> QED
    BY <1>0, <2>1, <2>2, <2>3 DEF TypeOK
<1>5. /\ pc'[p] = "next" /\ cur'[p] = 0 /\ op'[o] = status /\ \A x \in Ops \ {o} : op'[x] = op[x]
      /\ tally'[p] = tally[p] \cup {IF pc[p] = "store" THEN "PROCESSED" ELSE "FAILED"}
  BY <1>0, <1>1, <1>2 DEF TypeOK
<1>6. Tidy(p)'
  BY <1>0, <1>5 DEF Tidy, Running, Registering, TypeOK
<1>7. \A x \in Ops : Holds(p, x)' => x # o /\ Holds(p, x)
  BY <1>0, <1>2, <1>5 DEF Holds
<1>8. \A q \in Handlers \ {p}, x \in Ops : Holds(q, x) => op'[x] = op[x] /\ ~Holds(p, x)'
  BY <1>2, <1>5, <1>7 DEF SyncInv, Apart
<1>9. \A x \in Ops : Holds(p, x)' => op'[x] = "PENDING"
  BY <1>0, <1>5, <1>7 DEF Knows
<1>10. \A x \in Ops : op[x] = "PROCESSED" => op'[x] = "PROCESSED"
  BY <1>2, <1>5
<1>11. \A x \in RegOps : op'[x] = "PROCESSED" => op[x] = "PROCESSED" \/ mapping[IdentityOf(x)].linked
  <2>1. pc[p] = "store" /\ o \in RegOps => mapping[IdentityOf(o)].linked
    BY <1>0 DEF Knows, Who
  <2> QED
    BY <1>0, <1>5, <2>1
<1>12. Accounted(p)'
  <2> SUFFICES ASSUME doing[p] \in Batches, NEW x \in OpsOf(doing[p])
               PROVE  x \in todo'[p] \/ op'[x] = "PROCESSED" \/ "FAILED" \in tally'[p]
    BY <1>0, <1>5 DEF Accounted, OpsOf
  <2>1. x \in Ops /\ (x \in todo[p] \/ x = o \/ op[x] = "PROCESSED" \/ "FAILED" \in tally[p])
    BY <1>0 DEF Knows, Accounted, Running
  <2>2. CASE x = o
    BY <1>0, <1>5, <2>2
  <2>3. CASE x # o
    BY <1>0, <1>5, <1>10, <2>1, <2>3
  <2> QED
    BY <2>2, <2>3
<1>13. \A x \in Ops : seen'[p][x] = "PROCESSED" => op'[x] = "PROCESSED"
  BY <1>0, <1>10 DEF Knows
<1> HIDE DEF o, status
<1> QED
  BY <1>0, <1>3, <1>4, <1>5, <1>6, <1>8, <1>9, <1>10, <1>11, <1>12, <1>13, BatchStep
     DEF Registering, Running

\* Someone registers online, or nothing happens.
LEMMA AwayStep ==
  ASSUME SyncInv, (\E ph \in Phones : RegisterOnline(ph)) \/ UNCHANGED vars
  PROVE  SyncInv'
<1>0. /\ TypeOK /\ load' = load /\ batch' = batch /\ op' = op /\ mapping' = mapping /\ pc' = pc
      /\ doing' = doing /\ dups' = dups /\ seen' = seen /\ todo' = todo /\ cur' = cur /\ tally' = tally
      /\ faults' = faults /\ abandoned' = abandoned
  BY DEF SyncInv, RegisterOnline, vars, rows, local, mishaps
<1>1. /\ registered' \in [Phones -> {"NONE", "ONLINE"} \cup Identities]
      /\ \A ph \in Phones : /\ registered[ph] # "NONE" => registered'[ph] = registered[ph]
                            /\ registered'[ph] # registered[ph] => registered'[ph] = "ONLINE"
  BY <1>0 DEF RegisterOnline, vars, rows, TypeOK
<1>2. Grows /\ TypeOK'
  BY <1>0, <1>1 DEF Grows, TypeOK
<1>3. \A r \in Identities : NotMade(r) /\ (registered[PhoneOf[r]] = r => registered'[PhoneOf[r]] = r)
  BY <1>0, <1>1, LoadFacts, SyncAssumption DEF NotMade
<1>4. Mapped'
  BY <1>0, <1>3 DEF SyncInv, Mapped, RegOps, Altered, IdentityOf
<1>5. ASSUME NEW q \in Handlers PROVE Tidy(q)' /\ Knows(q)'
  <2>1. Steady(q)
    BY <1>0 DEF Steady
  <2>2. cur[q] \in RegOps => NotMade(Who(q))
    BY <1>0, <1>3, LoadFacts DEF Who
  <2> QED
    BY <1>0, <1>2, <2>1, <2>2, KnowsKept DEF SyncInv
<1>6. Apart'
  BY <1>0 DEF SyncInv, Apart, Holds, OpsOf
<1>7. CompletedMeansProcessed'
  BY <1>0 DEF SyncInv, CompletedMeansProcessed, OpsOf
<1>8. ProcessedIsLinked'
  BY <1>0, <1>3, LoadFacts DEF SyncInv, ProcessedIsLinked, RegOps, IdentityOf
<1> QED
  BY <1>2, <1>4, <1>5, <1>6, <1>7, <1>8 DEF SyncInv

\* Every step keeps the invariant.
LEMMA SyncStep ==
  ASSUME SyncInv, [Next]_vars
  PROVE  SyncInv'
<1>1. CASE \E p \in Handlers : \/ Step(p) \/ Crash(p)
                               \/ \E b \in Batches : Submit(p, b)
                               \/ RecoverFailed(p)
  <2>1. PICK p \in Handlers : \/ Step(p) \/ Crash(p)
                              \/ \E b \in Batches : Submit(p, b)
                              \/ RecoverFailed(p)
    BY <1>1
  <2>2. CASE LookUp(p) \/ Recover(p) \/ GenerateQr(p) \/ EnqueueReconciliation(p) \/ RunOther(p)
    BY <2>2, LookSteps
  <2>3. CASE MarkConflicted(p) \/ Reserve(p) \/ NoteCreateFailure(p) \/ Link(p)
    BY <2>3, MappingSteps
  <2>4. CASE Refuse(p) \/ FinishBatch(p) \/ Crash(p)
    BY <2>4, LeaveSteps
  <2>5. CASE (\E b \in Batches : Submit(p, b)) \/ FindDuplicates(p) \/ StartBatch(p) \/ RecoverFailed(p)
    BY <2>5, OpenSteps
  <2>6. CASE RunOwn(p) \/ AnswerDuplicate(p) \/ RetryDuplicate(p)
    BY <2>6, NextOperation
  <2> QED
    BY <2>1, <2>2, <2>3, <2>4, <2>5, <2>6, CreateStep, CreateBatchStep, StoreStep DEF Step
<1> QED
  BY <1>1, AwayStep DEF Next

-----------------------------------------------------------------------------
\* The invariant holds in every state of every request.
THEOREM SyncInductive == Spec => []SyncInv
  BY SyncInit, SyncStep, PTL DEF Spec

\* Every row and every local variable keeps its type.
THEOREM TypeCorrect == Spec => []TypeOK
  BY SyncInductive, PTL DEF SyncInv

\* A device that is told COMPLETED or DUPLICATE may forget the batch.
THEOREM CompletedIsProcessed == Spec => []CompletedMeansProcessed
  BY SyncInductive, PTL DEF SyncInv

\* A processed registration is linked to the registration created for its identity.
THEOREM ProcessedAreLinked == Spec => []ProcessedIsLinked
  BY SyncInductive, PTL DEF SyncInv

\* processOperation's unconditional write never reopens or fails a PROCESSED operation.
THEOREM ProcessedStays == Spec => ProcessedIsFinal
<1>1. SyncInv /\ [Next]_vars => [\A o \in Ops : op[o] = "PROCESSED" => op'[o] = "PROCESSED"]_vars
  <2> SUFFICES ASSUME SyncInv, Next, NEW o \in Ops, op[o] = "PROCESSED" PROVE op'[o] = "PROCESSED"
    BY DEF vars
  <2>1. CASE op' = op
    BY <2>1
  <2>2. CASE op' # op
    <3>1. PICK p \in Handlers : CreateBatch(p) \/ RetryDuplicate(p) \/ StoreOutcome(p)
      BY <2>2 DEF Next, Step, Crash, Submit, RecoverFailed, RegisterOnline, Refuse, FindDuplicates,
         StartBatch, RunOwn, AnswerDuplicate, FinishBatch, RunOther, LookUp, MarkConflicted, Reserve,
         Recover, Create, NoteCreateFailure, GenerateQr, Link, EnqueueReconciliation, rows
    <3>2. TypeOK /\ Tidy(p) /\ Knows(p)
      BY DEF SyncInv
    <3>3. CASE CreateBatch(p)
      BY <3>2, <3>3 DEF CreateBatch, Creatable, TypeOK
    <3>4. CASE RetryDuplicate(p)
      BY <3>2, <3>4 DEF RetryDuplicate, Claimable, TypeOK
    <3>5. CASE StoreOutcome(p)
      <4>1. cur[p] # o
        BY <3>2, <3>5 DEF StoreOutcome, Knows, Holds
      <4> QED
        BY <3>2, <3>5, <4>1 DEF StoreOutcome, TypeOK
    <3> QED
      BY <3>1, <3>3, <3>4, <3>5
  <2> QED
    BY <2>1, <2>2
<1> QED
  BY <1>1, SyncInductive, PTL DEF ProcessedIsFinal, Spec

\* runOfflineRegistration finds a registration whose run was interrupted, and never
\* declares it in conflict with itself.
THEOREM InterruptedRecovers == Spec => RecoversInterrupted
<1> DEFINE Turns(r) == mapping[r].status # "CONFLICTED" /\ mapping'[r].status = "CONFLICTED"
           OneOp(r) == Cardinality({o \in RegOps : IdentityOf(o) = r}) = 1
<1>1. SyncInv /\ [Next]_vars =>
        [load.externalId => \A r \in Identities :
           (/\ Cardinality({o \in RegOps : IdentityOf(o) = r}) = 1
            /\ mapping[r].status # "CONFLICTED" /\ mapping'[r].status = "CONFLICTED")
           => registered[PhoneOf[r]] # r]_vars
  <2> SUFFICES ASSUME SyncInv, Next, load.externalId, NEW r \in Identities, OneOp(r), Turns(r)
               PROVE  registered[PhoneOf[r]] # r
    BY DEF vars
  <2>1. Single(r)
    <3> DEFINE S == {o \in RegOps : IdentityOf(o) = r}
    <3>1. IsFiniteSet(S)
      <4>1. S \subseteq 1..NumOps /\ NumOps \in Int
        BY LoadFacts, SyncAssumption DEF SyncInv, Ops
      <4> QED
        BY <4>1, FS_Interval, FS_Subset
    <3>2. \A o, x \in S : o = x
      <4> SUFFICES ASSUME NEW o \in S, NEW x \in S, o # x PROVE FALSE
        OBVIOUS
      <4>1. S \ {o} # {} /\ IsFiniteSet(S \ {o}) /\ Cardinality(S \ {o}) = 0
        BY <3>1, FS_RemoveElement
      <4> QED
        BY <4>1, FS_EmptySet
    <3> QED
      BY <3>2 DEF Single
  <2>2. PICK p \in Handlers : MarkConflicted(p) \/ Reserve(p) \/ NoteCreateFailure(p) \/ Link(p)
    <3>1. mapping' # mapping
      OBVIOUS
    <3> QED
      BY <3>1 DEF Next, Step, Crash, Submit, RecoverFailed, RegisterOnline, Refuse, FindDuplicates,
         CreateBatch, StartBatch, RunOwn, AnswerDuplicate, RetryDuplicate, FinishBatch, StoreOutcome,
         RunOther, LookUp, Recover, Create, GenerateQr, EnqueueReconciliation, rows
  <2>3. /\ TypeOK /\ Tidy(p) /\ Knows(p) /\ Mapped
        /\ pc[p] \in {"conflict", "reserve", "refuse", "defer", "link"} /\ cur[p] \in RegOps
        /\ Who(p) \in Identities /\ Who(p) = IdentityOf(cur[p])
    BY <2>2, LoadFacts DEF SyncInv, MarkConflicted, Reserve, NoteCreateFailure, Link, Tidy, Who,
       Registering, Running
  <2>4. pc[p] \in {"conflict", "refuse"} /\ Who(p) = r
    BY <2>2, <2>3 DEF MarkConflicted, Reserve, NoteCreateFailure, Link, TypeOK
  <2>5. CASE pc[p] = "conflict"
    <3>1. mapping[r].status # "NONE" /\ mapping[r].altered # (cur[p] \in Altered)
      BY <2>3, <2>4, <2>5 DEF Knows, Existing, SamePayload, Registering, Running
    <3>2. PICK o \in RegOps : IdentityOf(o) = r /\ mapping[r].altered = (o \in Altered)
      BY <2>3, <3>1 DEF Mapped
    <3>3. o = cur[p]
      BY <2>1, <2>3, <2>4, <3>2 DEF Single
    <3> QED
      BY <3>1, <3>2, <3>3
  <2>6. CASE pc[p] = "refuse"
    BY <2>1, <2>3, <2>4, <2>6 DEF Knows
  <2> QED
    BY <2>4, <2>5, <2>6
<1> QED
  BY <1>1, SyncInductive, PTL DEF RecoversInterrupted, Spec
=============================================================================
