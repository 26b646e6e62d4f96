--------------------------- MODULE PageStoreProofs ---------------------------
(* What PageStore guarantees for every choice of its constants.              *)
EXTENDS PageStore, FiniteSetTheorems, TLAPS

USE NoneAssumption, SizeAssumption, BudgetAssumption, FiniteAssumption

-----------------------------------------------------------------------------
(* Byte counts: Bytes(S, len) is the sum of len over S                       *)

\* The cells of finitely many keys are finitely many.
LEMMA CellsFinite ==
    ASSUME NEW S \in SUBSET Keys, NEW len \in [Keys -> Nat]
    PROVE  IsFiniteSet(Cells(S, len))
<1> DEFINE row(k) == {k} \X (1 .. len[k])
           rows == {row(k) : k \in S}
           f == [k \in S |-> row(k)]
<1>1. IsFiniteSet(S)
  BY FS_Subset
<1>2. f \in Surjection(S, rows)
  BY DEF Surjection
<1>3. IsFiniteSet(rows)
  BY <1>1, <1>2, FS_Surjection, Zenon
<1>4. ASSUME NEW R \in rows PROVE IsFiniteSet(R)
  <2>1. PICK k \in S : R = row(k)
    OBVIOUS
  <2> DEFINE n == len[k]
  <2>a. n \in Nat
    OBVIOUS
  <2> HIDE DEF n
  <2>1a. IsFiniteSet({k})
    BY FS_Singleton, Zenon
  <2>2. IsFiniteSet(1 .. n)
    BY <2>a, FS_Interval
  <2>3. IsFiniteSet({k} \X (1 .. n))
    BY <2>1a, <2>2, FS_Product, Zenon
  <2> QED BY <2>1, <2>3 DEF n
<1> HIDE DEF rows
<1>5. IsFiniteSet(UNION rows)
  BY <1>3, <1>4, FS_UNION, Zenon
<1> QED BY <1>5 DEF Cells, rows

\* A byte count is a natural number, and nothing takes no bytes.
LEMMA BytesType ==
    ASSUME NEW S \in SUBSET Keys, NEW len \in [Keys -> Nat]
    PROVE  Bytes(S, len) \in Nat /\ Bytes({}, len) = 0
<1>1. Cells({}, len) = {}
  BY DEF Cells
<1> QED BY <1>1, CellsFinite, FS_CardinalityType, FS_EmptySet DEF Bytes

\* One more key takes its own bytes.
LEMMA BytesAdd ==
    ASSUME NEW S \in SUBSET Keys, NEW k \in Keys \ S, NEW len \in [Keys -> Nat]
    PROVE  Bytes(S \cup {k}, len) = Bytes(S, len) + len[k]
<1> DEFINE row == {k} \X (1 .. len[k])
<1>1. Cells(S \cup {k}, len) = Cells(S, len) \cup row
  BY DEF Cells
<1>2. Cells(S, len) \cap row = {}
  BY DEF Cells
<1>3. IsFiniteSet(row) /\ Cardinality(row) = len[k]
  <2>1. IsFiniteSet({k}) /\ Cardinality({k}) = 1
    BY FS_Singleton
  <2>2. IsFiniteSet(1 .. len[k]) /\ Cardinality(1 .. len[k]) = len[k]
    BY FS_Interval, len[k] \in Nat
  <2>3. IsFiniteSet(row) /\ Cardinality(row) = Cardinality({k}) * Cardinality(1 .. len[k])
    BY <2>1, <2>2, FS_Product, Zenon
  <2> QED BY <2>1, <2>2, <2>3
<1>4. IsFiniteSet(Cells(S, len))
  BY CellsFinite
<1> HIDE DEF row
<1>5. Cardinality(Cells(S, len) \cup row)
      = Cardinality(Cells(S, len)) + Cardinality(row) - Cardinality(Cells(S, len) \cap row)
  BY <1>3, <1>4, FS_Union, Zenon
<1>6. Cardinality(Cells(S, len)) \in Nat /\ Cardinality({}) = 0
  BY <1>4, FS_CardinalityType, FS_EmptySet, Zenon
<1>7. Cardinality(Cells(S \cup {k}, len))
      = Cardinality(Cells(S, len)) + Cardinality(row) - Cardinality({})
  BY <1>1, <1>2, <1>5, Zenon
<1>8. len[k] \in Nat
  OBVIOUS
<1> QED BY <1>3, <1>6, <1>7, <1>8 DEF Bytes

\* One key less gives its bytes back.
LEMMA BytesRemove ==
    ASSUME NEW S \in SUBSET Keys, NEW k \in S, NEW len \in [Keys -> Nat]
    PROVE  Bytes(S \ {k}, len) = Bytes(S, len) - len[k]
<1>1. (S \ {k}) \cup {k} = S
  OBVIOUS
<1>2. Bytes((S \ {k}) \cup {k}, len) = Bytes(S \ {k}, len) + len[k]
  BY BytesAdd
<1>3. Bytes(S \ {k}, len) \in Nat /\ len[k] \in Nat
  BY BytesType
<1> QED BY <1>1, <1>2, <1>3

\* Only the lengths of the keys counted matter.
LEMMA BytesSame ==
    ASSUME NEW S \in SUBSET Keys, NEW len1, NEW len2, \A k \in S : len1[k] = len2[k]
    PROVE  Bytes(S, len1) = Bytes(S, len2)
<1>1. Cells(S, len1) = Cells(S, len2)
  BY DEF Cells
<1> QED BY <1>1 DEF Bytes

LEMMA LenType ==
    ASSUME NEW val \in [Keys -> Values \cup {None}]
    PROVE  PayloadLen(val) \in [Keys -> Nat] /\ FileLen(val) \in [Keys -> Nat]
BY DEF PayloadLen, FileLen

-----------------------------------------------------------------------------
(* The inductive invariant, and what its parts say about readers and pages   *)

IInv == TypeOK /\ Consistent /\ GuardsExact /\ NoPageLost /\ PinProtects /\ DurableKept

\* A pin count is the number of its holders: zero exactly when nobody holds it.
LEMMA PinCount ==
    ASSUME PinsExact, NEW k \in Keys
    PROVE  /\ IsFiniteSet(Pinners(k))
           /\ pins[k] = Cardinality(Pinners(k))
           /\ pins[k] \in Nat
           /\ pins[k] = 0 <=> Pinners(k) = {}
<1>1. IsFiniteSet(Pinners(k))
  BY FS_Subset DEF Pinners
<1>2. pins[k] = Cardinality(Pinners(k))
  BY DEF PinsExact
<1> QED BY <1>1, <1>2, FS_CardinalityType, FS_EmptySet, Zenon

\* A page that nobody has pinned has no pinned reader.
LEMMA NotPinned ==
    ASSUME PinsExact, NEW k \in Keys, pins[k] = 0, NEW c \in Clients, client[c].pinned
    PROVE  client[c].key # k
BY PinCount DEF Pinners

\* A step that leaves every reader's pin as it was keeps the counts exact.
LEMMA SamePins ==
    ASSUME PinsExact, pins' = pins,
           \A c \in Clients : /\ client'[c].pinned = client[c].pinned
                              /\ client[c].pinned => client'[c].key = client[c].key
    PROVE  PinsExact'
<1>1. ASSUME NEW k \in Keys PROVE Pinners(k)' = Pinners(k)
  BY DEF Pinners
<1> QED BY <1>1 DEF PinsExact

\* So does one that gives a single reader the state r with the same pin.
LEMMA OneReader ==
    ASSUME TypeOK, PinsExact, pins' = pins, NEW c \in Clients, NEW r,
           client' = [client EXCEPT ![c] = r],
           r.pinned = client[c].pinned, client[c].pinned => r.key = client[c].key
    PROVE  PinsExact'
<1>1. \A d \in Clients : client'[d] = IF d = c THEN r ELSE client[d]
  BY DEF TypeOK
<1>2. \A d \in Clients : /\ client'[d].pinned = client[d].pinned
                         /\ client[d].pinned => client'[d].key = client[d].key
  BY <1>1, Zenon
<1> QED BY <1>2, SamePins

\* The records the actions start from.
LEMMA Records == /\ NoOp \in OpType /\ Idle \in ClientType
                 /\ Idle.at = "idle" /\ Idle.pinned = FALSE
BY DEF NoOp, OpType, Idle, ClientType

\* An eviction victim is a resident page that nobody has pinned or in flight.
LEMMA VictimFree ==
    ASSUME NEW k \in Victims
    PROVE  k \in Keys /\ k \in resident /\ pins[k] = 0 /\ inflight[k] = 0
BY DEF Victims, Candidates, Evictable

\* What Failed gives: the pin and its key stay, the payload goes.
LEMMA FailedReader ==
    ASSUME TypeOK, ReadersConsistent, NEW c \in Clients
    PROVE  /\ Failed(c) \in ClientType
           /\ Failed(c).at \in {"idle", "leaving"} /\ Failed(c).val = None
           /\ Failed(c).at = "idle" => Failed(c) = Idle
           /\ Failed(c).pinned = client[c].pinned
           /\ client[c].pinned => Failed(c).key = client[c].key /\ Failed(c).at = "leaving"
<1>1. client[c] \in ClientType
  BY DEF TypeOK
<1>2. CASE client[c].pinned
  <2>1. Failed(c) = [client[c] EXCEPT !.at = "leaving", !.val = None]
    BY <1>2 DEF Failed
  <2> QED BY <1>1, <1>2, <2>1 DEF ClientType
<1>3. CASE ~client[c].pinned
  <2>1. Failed(c) = Idle /\ client[c].pinned = FALSE
    BY <1>1, <1>3 DEF Failed, ClientType
  <2>2. Idle \in ClientType /\ Idle.pinned = FALSE /\ Idle.at = "idle" /\ Idle.val = None
    BY DEF Idle, ClientType
  <2> QED BY <1>3, <2>1, <2>2, Zenon
<1> QED BY <1>2, <1>3

\* What _spill_sync leaves when it returns: the page's own value in its file.
LEMMA SpilledPage ==
    ASSUME TypeOK, NoPageLost, phase # "down", NEW k \in Keys, Spilled(k)
    PROVE  /\ k \in Present
           /\ files' = [files EXCEPT ![k] = catalog[k]]
           /\ files' \in [Keys -> Values \cup {None}]
           /\ backed' = backed \cup {k}
           /\ diskBytes' \in Int
           /\ \A j \in Keys : files[j] # None => files'[j] = files[j]
<1>1. k \in Present /\ Size[catalog[k]] \in Nat
  BY DEF TypeOK, NoPageLost, Spilled, Present
<1>2. CASE k \in backed
  BY <1>1, <1>2 DEF TypeOK, NoPageLost, Spilled, BackingVerifies, Present
<1>3. CASE k \notin backed
  <2>1. files[k] = None
    BY <1>3 DEF TypeOK, NoPageLost, FilesOnDisk
  <2>2. files' = [files EXCEPT ![k] = catalog[k]] /\ backed' = backed \cup {k}
    BY <1>3 DEF Spilled
  <2>3. diskBytes' \in Int
    BY <1>1, <1>3 DEF TypeOK, Spilled, EncodedSize
  <2> QED BY <1>1, <2>1, <2>2, <2>3 DEF TypeOK
<1> QED BY <1>2, <1>3

\* What submit_load does to the reader before it makes room.
LEMMA Submitted ==
    ASSUME TypeOK, NEW c \in Clients, NEW k \in Present, NEW pinned \in BOOLEAN,
           SubmitLoad(c, k, pinned)
    PROVE  \/ client' = client /\ op' = op /\ ~pinned
           \/ \E r \in ClientType :
                /\ client' = [client EXCEPT ![c] = r]
                /\ r.key = k /\ r.pinned = pinned
                /\ \/ r.at = "using" /\ k \in resident /\ r.val = catalog[k] /\ op' = op
                   \/ r.at = "waiting" /\ loads[k] # "idle" /\ r.val = None /\ op' = op
                   \/ r.at = "leaving" /\ r.val = None /\ op' = op
                   \/ /\ r.at = "calling" /\ r.val = None
                      /\ k \notin resident /\ loads[k] = "idle"
                      /\ op' = [kind |-> "load", key |-> k, val |-> None,
                                need |-> Size[catalog[k]], client |-> c]
<1> DEFINE r(at, v) == [at |-> at, key |-> k, pinned |-> pinned, val |-> v]
<1>1. k \in Keys /\ catalog[k] \in Values
  BY DEF TypeOK, Present
<1>2. CASE k \in resident
  <2>1. r("using", catalog[k]) \in ClientType
    BY <1>1 DEF ClientType
  <2>2. client' = [client EXCEPT ![c] = r("using", catalog[k])] /\ op' = op
    BY <1>2 DEF SubmitLoad
  <2> QED BY <1>2, <2>1, <2>2
<1>3. CASE k \notin resident /\ loads[k] # "idle"
  <2>1. r("waiting", None) \in ClientType
    BY <1>1 DEF ClientType
  <2>2. client' = [client EXCEPT ![c] = r("waiting", None)] /\ op' = op
    BY <1>3 DEF SubmitLoad
  <2> QED BY <1>3, <2>1, <2>2
<1>4. CASE k \notin resident /\ loads[k] = "idle" /\ Size[catalog[k]] > CpuBudget
  <2>1. r("leaving", None) \in ClientType
    BY <1>1 DEF ClientType
  <2>2. client' = (IF pinned THEN [client EXCEPT ![c] = r("leaving", None)] ELSE client)
        /\ op' = op
    BY <1>4 DEF SubmitLoad
  <2> QED BY <2>1, <2>2
<1>5. CASE k \notin resident /\ loads[k] = "idle" /\ ~(Size[catalog[k]] > CpuBudget)
  <2>1. r("calling", None) \in ClientType
    BY <1>1 DEF ClientType
  <2>2. /\ client' = [client EXCEPT ![c] = r("calling", None)]
        /\ op' = [kind |-> "load", key |-> k, val |-> None, need |-> Size[catalog[k]],
                  client |-> c]
    BY <1>5 DEF SubmitLoad
  <2> QED BY <1>5, <2>1, <2>2
<1> QED BY <1>2, <1>3, <1>4, <1>5

\* submit_load keeps the invariant, with or without a pin.
LEMMA SubmitInv ==
    ASSUME IInv, Available, NEW c \in Clients, NEW k \in Present, NEW pinned \in BOOLEAN,
           client[c].at \in {"idle", "entering"}, client[c].pinned = pinned,
           pinned => client[c].key = k, SubmitLoad(c, k, pinned)
    PROVE  IInv'
<1>1. /\ TypeOK /\ Consistent /\ PinsExact /\ InflightExact /\ NoLostWaiter
      /\ NoPageLost /\ PinProtects /\ DurableKept
  BY DEF IInv, GuardsExact
<1>2. /\ phase = "open" /\ op = NoOp /\ k \in Keys
      /\ recency' = Touch(recency, k)
      /\ UNCHANGED <<phase, catalog, resident, backed, cpuBytes, cpuReserved, diskBytes,
                     pins, inflight, loads, fetched, spills, lock, pending, files, corrupt,
                     durable>>
  BY DEF Available, Present, SubmitLoad, bytes, guards, jobs, disk
<1>3. NoPageLost' /\ DurableKept' /\ InflightExact'
  BY <1>1, <1>2 DEF NoPageLost, DurableKept, InflightExact, Present, FilesOnDisk
<1>4. recency' \subseteq Keys \X Keys
  BY <1>1, <1>2 DEF TypeOK, Touch, Present
<1>5. CASE client' = client /\ op' = op
  <2>1. TypeOK'
    BY <1>1, <1>2, <1>4, <1>5 DEF TypeOK
  <2>2. Consistent' /\ NoLostWaiter' /\ PinProtects'
    BY <1>1, <1>2, <1>5 DEF Consistent, CallConsistent, ReadersConsistent,
       JobsConsistent, DownClean, NoOp,
       NoLostWaiter, PinProtects, Present, NoJobs
  <2>3. PinsExact'
    BY <1>1, <1>2, <1>5, SamePins
  <2> QED BY <1>3, <2>1, <2>2, <2>3 DEF IInv, GuardsExact
<1>6. ASSUME NEW r \in ClientType,
             client' = [client EXCEPT ![c] = r], r.key = k, r.pinned = pinned,
             \/ r.at = "using" /\ k \in resident /\ r.val = catalog[k] /\ op' = op
             \/ r.at = "waiting" /\ loads[k] # "idle" /\ r.val = None /\ op' = op
             \/ r.at = "leaving" /\ r.val = None /\ op' = op
             \/ /\ r.at = "calling" /\ r.val = None /\ k \notin resident /\ loads[k] = "idle"
                /\ op' = [kind |-> "load", key |-> k, val |-> None,
                          need |-> Size[catalog[k]], client |-> c]
      PROVE  IInv'
  <2>1. client' \in [Clients -> ClientType]
    BY <1>1, <1>6 DEF TypeOK
  <2>2. op' \in OpType
    <3>1. Size[catalog[k]] \in Nat
      BY <1>1, <1>2 DEF TypeOK, Present
    <3> QED BY <1>2, <1>6, <3>1, Records DEF OpType
  <2>3. TypeOK'
    BY <1>1, <1>2, <1>4, <2>1, <2>2 DEF TypeOK
  <2>4. \A d \in Clients : client'[d] = IF d = c THEN r ELSE client[d]
    BY <1>1, <1>6 DEF TypeOK
  <2>5. Consistent'
    <3>1. CallConsistent'
      BY <1>1, <1>2, <1>6, <2>4 DEF Consistent, CallConsistent, NoOp, Present
    <3>2. ReadersConsistent'
      BY <1>1, <1>2, <1>6, <2>4 DEF Consistent, ReadersConsistent
    <3>3. JobsConsistent' /\ DownClean'
      BY <1>1, <1>2 DEF Consistent, JobsConsistent, DownClean
    <3> QED BY <3>1, <3>2, <3>3 DEF Consistent
  <2>6. PinsExact'
    BY <1>1, <1>2, <1>6, OneReader
  <2>7. NoLostWaiter'
    BY <1>1, <1>2, <1>6, <2>4 DEF NoLostWaiter
  <2>8. PinProtects'
    BY <1>1, <1>2, <1>6, <2>4 DEF PinProtects, Present
  <2> QED BY <1>3, <2>3, <2>5, <2>6, <2>7, <2>8 DEF IInv, GuardsExact
<1> QED BY <1>1, <1>5, <1>6, Submitted

-----------------------------------------------------------------------------
(* IInv is inductive                                                         *)

LEMMA InitInv == Init => IInv
<1> SUFFICES ASSUME Init PROVE IInv
  OBVIOUS
<1>1. TypeOK
  <2>1. op \in OpType /\ client \in [Clients -> ClientType]
    BY Records DEF Init
  <2>2. /\ resident \subseteq Keys /\ backed \subseteq Keys /\ corrupt \subseteq Keys
        /\ recency \subseteq Keys \X Keys
    BY DEF Init
  <2>3. /\ files \in [Keys -> Values \cup {None}] /\ catalog \in [Keys -> Values \cup {None}]
        /\ fetched \in [Keys -> Values \cup {None}] /\ durable \in [Keys -> Values \cup {None}]
    BY DEF Init
  <2>4. /\ pins \in [Keys -> Nat] /\ inflight \in [Keys -> Nat]
        /\ loads \in [Keys -> {"idle", "queued", "done"}]
        /\ spills \in [Keys -> {"idle", "queued", "ok", "failed"}]
    BY DEF Init
  <2>5. phase = "down" /\ cpuBytes = 0 /\ cpuReserved = 0 /\ diskBytes = 0
    BY DEF Init
  <2>6. lock \in BOOLEAN /\ pending \in BOOLEAN
    BY Zenon DEF Init
  <2> QED BY <2>1, <2>2, <2>3, <2>4, <2>5, <2>6 DEF TypeOK
<1>a. Consistent /\ NoPageLost /\ PinProtects /\ DurableKept
  BY DEF Init, Consistent, CallConsistent, ReadersConsistent, JobsConsistent, DownClean,
         NoPageLost, PinProtects, DurableKept, NoOp, Idle, NoJobs, Present
<1>2. \A k \in Keys : Pinners(k) = {}
  BY DEF Init, Pinners, Idle
<1>3. GuardsExact
  <2>1. PinsExact
    BY <1>2, FS_EmptySet DEF Init, PinsExact
  <2> QED BY <2>1 DEF Init, GuardsExact, InflightExact, NoLostWaiter, Active, Idle
<1> QED BY <1>1, <1>a, <1>3 DEF IInv

LEMMA StepInv == IInv /\ [Next]_vars => IInv'
<1> SUFFICES ASSUME IInv, [Next]_vars PROVE IInv'
  OBVIOUS
<1> TypeOK /\ Consistent /\ ReadersConsistent /\ PinsExact /\ InflightExact /\ NoLostWaiter
    /\ NoPageLost /\ PinProtects /\ DurableKept
  BY DEF IInv, Consistent, GuardsExact
<1>1. ASSUME Open PROVE IInv'
  <2>1. TypeOK'
    <3>1. DiskUse \in Int
      BY LenType, BytesType DEF TypeOK, DiskUse, FilesOnDisk
    <3>2. recency' \subseteq Keys \X Keys
      BY <1>1 DEF Open, TotalOrders, FilesOnDisk
    <3> QED BY <1>1, <3>1, <3>2 DEF Open, TypeOK, FilesOnDisk, jobs, guards
  <2>2. Consistent'
    BY <1>1 DEF Open, Consistent, CallConsistent, ReadersConsistent, JobsConsistent,
       DownClean, NoOp, NoJobs, Present, FilesOnDisk, jobs
  <2>3. PinsExact'
    BY <1>1, SamePins DEF Open, guards
  <2>4. InflightExact'
    BY <1>1 DEF Open, Consistent, CallConsistent, ReadersConsistent, JobsConsistent,
       DownClean, InflightExact, Active, NoJobs, guards, jobs
  <2>5. NoLostWaiter'
    BY <1>1 DEF NoLostWaiter, Open, FilesOnDisk, guards, jobs
  <2>6. NoPageLost'
    BY <1>1 DEF Open, Consistent, CallConsistent, ReadersConsistent, JobsConsistent,
       DownClean, NoPageLost, Present, FilesOnDisk
  <2>7. PinProtects'
    BY <1>1 DEF Open, Consistent, CallConsistent, ReadersConsistent, JobsConsistent,
       DownClean, PinProtects
  <2>8. DurableKept'
    BY <1>1 DEF TypeOK, DurableKept, Open, FilesOnDisk, guards, jobs
  <2> QED BY <2>1, <2>2, <2>3, <2>4, <2>5, <2>6, <2>7, <2>8 DEF IInv, GuardsExact
<1>2. ASSUME Crash PROVE IInv'
  <2>1. TypeOK'
    <3>1. client' \in [Clients -> ClientType] /\ op' \in OpType
      BY <1>2, Records DEF Crash, Retire
    <3>2. files' \in [Keys -> Values \cup {None}] /\ pending' \in BOOLEAN
      BY <1>2 DEF Crash, TypeOK
    <3> QED BY <1>2, <3>1, <3>2 DEF Crash, Retire, TypeOK
  <2>2. Consistent'
    BY <1>2 DEF TypeOK, Consistent, CallConsistent, ReadersConsistent, JobsConsistent,
       DownClean, NoOp, Present, Idle, NoJobs, Crash, Retire, Writing, Victims,
       Candidates, Evictable
  <2>3. PinsExact'
    <3>1. \A k \in Keys : Pinners(k)' = {}
      BY <1>2 DEF Crash, Pinners, Idle
    <3> QED BY <1>2, <3>1, FS_EmptySet DEF Crash, Retire, PinsExact
  <2>4. InflightExact'
    BY <1>2 DEF TypeOK, InflightExact, Active, Present, Crash, Retire, Idle, Writing,
       NoOp, Victims, Candidates, Evictable
  <2>5. NoLostWaiter'
    BY <1>2 DEF NoLostWaiter, Crash, Retire, Idle, Writing, NoOp, Victims, Candidates,
       Evictable
  <2>6. NoPageLost'
    BY <1>2 DEF TypeOK, NoPageLost, Present, FilesOnDisk, Crash, Retire, Idle, Writing,
       NoOp, Victims, Candidates, Evictable
  <2>7. PinProtects'
    BY <1>2 DEF TypeOK, PinProtects, Present, Crash, Retire, Idle, Writing, NoOp,
       Victims, Candidates, Evictable
  <2>8. DurableKept'
    BY <1>2 DEF TypeOK, DurableKept, Crash, Retire, Idle, Writing, NoOp, Victims,
       Candidates, Evictable
  <2> QED BY <2>1, <2>2, <2>3, <2>4, <2>5, <2>6, <2>7, <2>8 DEF IInv, GuardsExact
<1>3. ASSUME OperatorCleanup PROVE IInv'
  <2>1. TypeOK'
    BY <1>3 DEF TypeOK, OpType, ClientType, OperatorCleanup, ram, jobs, bytes, guards
  <2>2. Consistent'
    BY <1>3 DEF TypeOK, Consistent, CallConsistent, ReadersConsistent, JobsConsistent,
       DownClean, NoOp, Present, Idle, NoJobs, OperatorCleanup, ram, jobs, bytes, guards
  <2>3. PinsExact'
    BY <1>3, SamePins DEF OperatorCleanup, ram, guards
  <2>4. NoPageLost'
    BY <1>3 DEF TypeOK, NoPageLost, Present, FilesOnDisk, OperatorCleanup, ram, jobs,
       bytes, guards
  <2>5. DurableKept'
    BY <1>3 DEF TypeOK, DurableKept, OperatorCleanup, ram, jobs, bytes, guards
  <2>6. InflightExact' /\ NoLostWaiter' /\ PinProtects'
    BY <1>3 DEF TypeOK, InflightExact, Active, Present, OperatorCleanup, ram, jobs,
       bytes, guards, NoLostWaiter, PinProtects
  <2> QED BY <2>1, <2>2, <2>3, <2>4, <2>5, <2>6 DEF IInv, GuardsExact
<1>4. ASSUME CloseFinish PROVE IInv'
  <2>1. TypeOK'
    <3>1. ASSUME NEW c \in Clients
          PROVE  [client[c] EXCEPT !.pinned = FALSE] \in ClientType
      <4>1. client[c] \in ClientType
        BY DEF TypeOK
      <4> QED BY <4>1 DEF ClientType
    <3>2. client' \in [Clients -> ClientType] /\ op' \in OpType
      BY <1>4, <3>1, Records DEF CloseFinish, Retire
    <3>3. /\ resident' \subseteq Keys /\ backed' \subseteq Keys
          /\ recency' \subseteq Keys \X Keys
          /\ UNCHANGED <<files, corrupt, durable>>
          /\ phase' = "down" /\ cpuBytes' = 0 /\ cpuReserved' = 0 /\ diskBytes' = 0
      BY <1>4 DEF CloseFinish, Retire
    <3>4. /\ catalog' \in [Keys -> Values \cup {None}] /\ fetched' \in [Keys -> Values \cup {None}]
          /\ pins' \in [Keys -> Nat] /\ inflight' \in [Keys -> Nat]
          /\ loads' \in [Keys -> {"idle", "queued", "done"}]
          /\ spills' \in [Keys -> {"idle", "queued", "ok", "failed"}]
      BY <1>4 DEF CloseFinish, Retire
    <3>5. lock' \in BOOLEAN /\ pending' \in BOOLEAN
      BY <1>4, Zenon DEF CloseFinish, TypeOK
    <3> QED BY <3>2, <3>3, <3>4, <3>5 DEF TypeOK
  <2>2. Consistent'
    BY <1>4 DEF TypeOK, Consistent, CallConsistent, ReadersConsistent, JobsConsistent,
       DownClean, NoOp, Present, Idle, NoJobs, CloseFinish, Retire
  <2>3. PinsExact'
    <3>1. \A c \in Clients : client'[c].pinned = FALSE
      BY <1>4 DEF CloseFinish, Idle, TypeOK, ClientType
    <3>2. \A k \in Keys : Pinners(k)' = {}
      BY <3>1 DEF Pinners
    <3> QED BY <1>4, <3>2, FS_EmptySet DEF CloseFinish, Retire, PinsExact
  <2>4. InflightExact'
    BY <1>4 DEF TypeOK, InflightExact, Active, Present, CloseFinish, NoOp, NoJobs,
       Retire, Idle
  <2>5. NoLostWaiter'
    BY <1>4 DEF NoLostWaiter, CloseFinish, NoOp, NoJobs, Retire, Idle
  <2>6. NoPageLost'
    BY <1>4 DEF TypeOK, NoPageLost, Present, FilesOnDisk, CloseFinish, NoOp, NoJobs,
       Retire, Idle
  <2>7. PinProtects'
    BY <1>4 DEF TypeOK, PinProtects, Present, CloseFinish, NoOp, NoJobs, Retire, Idle
  <2>8. DurableKept'
    BY <1>4 DEF TypeOK, DurableKept, CloseFinish, NoOp, NoJobs, Retire, Idle
  <2> QED BY <2>1, <2>2, <2>3, <2>4, <2>5, <2>6, <2>7, <2>8 DEF IInv, GuardsExact
<1>5. ASSUME NEW cancel \in BOOLEAN, Close(cancel) PROVE IInv'
  <2>1. TypeOK'
    BY <1>5 DEF TypeOK, OpType, ClientType, Close, NoOp, ram, jobs, disk, bytes, guards
  <2>2. Consistent'
    BY <1>5 DEF TypeOK, Consistent, CallConsistent, ReadersConsistent, JobsConsistent,
       DownClean, NoOp, Present, Idle, NoJobs, Close, ram, jobs, disk, bytes, guards
  <2>3. PinsExact'
    BY <1>5, SamePins DEF Close, ram, guards
  <2>4. InflightExact' /\ NoLostWaiter' /\ NoPageLost' /\ PinProtects' /\ DurableKept'
    BY <1>5 DEF TypeOK, InflightExact, Active, Present, Close, NoOp, ram, jobs, disk,
       bytes, guards, NoLostWaiter, NoPageLost, FilesOnDisk, PinProtects, DurableKept
  <2> QED BY <2>1, <2>2, <2>3, <2>4 DEF IInv, GuardsExact
<1>6. ASSUME NEW k \in Keys, Damage(k) PROVE IInv'
  <2>1. TypeOK'
    BY <1>6 DEF TypeOK, OpType, ClientType, Damage, ram, jobs, bytes, guards
  <2>2. PinsExact'
    BY <1>6, SamePins DEF Damage, ram, guards
  <2>3. /\ Consistent' /\ InflightExact' /\ NoLostWaiter'
        /\ NoPageLost' /\ PinProtects' /\ DurableKept'
    BY <1>6 DEF TypeOK, Consistent, CallConsistent, ReadersConsistent, JobsConsistent,
       DownClean, NoOp, Present, Idle, NoJobs, Damage, ram, jobs, bytes, guards,
       InflightExact, Active, NoLostWaiter, NoPageLost, FilesOnDisk, PinProtects,
       DurableKept
  <2> QED BY <2>1, <2>2, <2>3 DEF IInv, GuardsExact
<1>7. ASSUME NEW k \in Keys, NEW v \in Values, Put(k, v) PROVE IInv'
  <2>1. TypeOK'
    BY <1>7 DEF TypeOK, OpType, ClientType, Put, Available, NoOp, ram, jobs,
       disk, Present, bytes, guards
  <2>2. Consistent'
    BY <1>7 DEF TypeOK, Consistent, CallConsistent, ReadersConsistent, JobsConsistent,
       DownClean, NoOp, Present, Idle, NoJobs, Put, Available, ram, jobs, disk,
       bytes, guards
  <2>3. PinsExact'
    BY <1>7, SamePins DEF Put, ram, guards
  <2>4. InflightExact' /\ NoLostWaiter' /\ NoPageLost' /\ PinProtects' /\ DurableKept'
    BY <1>7 DEF TypeOK, InflightExact, Active, Present, Put, Available, NoOp,
       ram, jobs, disk, bytes, guards, NoLostWaiter, NoPageLost, FilesOnDisk,
       PinProtects, DurableKept
  <2> QED BY <2>1, <2>2, <2>3, <2>4 DEF IInv, GuardsExact
<1>8. ASSUME NEW k \in Keys, PutAgain(k) PROVE IInv'
  <2>1. TypeOK'
    BY <1>8 DEF PutAgain, Immutable, TypeOK, Touch, Present, bytes, guards, jobs, disk
  <2>2. PinsExact'
    BY <1>8, SamePins DEF PutAgain, Immutable, guards
  <2>3. /\ Consistent' /\ InflightExact' /\ NoLostWaiter'
        /\ NoPageLost' /\ PinProtects' /\ DurableKept'
    BY <1>8 DEF TypeOK, Consistent, CallConsistent, ReadersConsistent, JobsConsistent,
       DownClean, NoOp, Present, Idle, NoJobs, PutAgain, Immutable, Available, BackingVerifies,
       bytes, guards, jobs, disk, InflightExact, Active, NoLostWaiter, NoPageLost,
       FilesOnDisk, PinProtects, DurableKept
  <2> QED BY <2>1, <2>2, <2>3 DEF IInv, GuardsExact
<1>9. ASSUME NEW need \in 1 .. CpuBudget, Evict(need) PROVE IInv'
  <2>1. TypeOK'
    <3>1. need \in Nat
      OBVIOUS
    <3>2. op' = [kind |-> "evict", key |-> None, val |-> None, need |-> need, client |-> None]
      BY <1>9 DEF Evict, NoOp
    <3>3. op' \in OpType
      BY <3>1, <3>2 DEF OpType
    <3> QED BY <1>9, <3>3 DEF Evict, TypeOK, ram, bytes, guards, jobs, disk
  <2>2. Consistent'
    BY <1>9 DEF TypeOK, Consistent, CallConsistent, ReadersConsistent, JobsConsistent,
       DownClean, NoOp, Present, Idle, NoJobs, Evict, Available, ram, jobs, disk, bytes,
       guards
  <2>3. PinsExact'
    BY <1>9, SamePins DEF Evict, ram, guards
  <2>4. InflightExact' /\ NoLostWaiter' /\ NoPageLost' /\ PinProtects' /\ DurableKept'
    BY <1>9 DEF TypeOK, InflightExact, Active, Present, Evict, Available, NoOp, ram,
       jobs, disk, bytes, guards, NoLostWaiter, NoPageLost, FilesOnDisk, PinProtects,
       DurableKept
  <2> QED BY <2>1, <2>2, <2>3, <2>4 DEF IInv, GuardsExact
<1>10. ASSUME EvictOne PROVE IInv'
  <2>a. PICK p \in Keys : p \in Victims /\ Spilled(p) /\ DropResident(p)
    BY <1>10 DEF EvictOne, Victims, Candidates
  <2>b. /\ phase = "open" /\ phase' = phase
        /\ UNCHANGED <<catalog, client, op, loads, fetched, spills, durable>>
    BY <1>10 DEF EvictOne, Available, Consistent, CallConsistent, ReadersConsistent,
       JobsConsistent, DownClean, NoOp, jobs
  <2>c. p \in resident /\ pins[p] = 0 /\ inflight[p] = 0
    BY <2>a, VictimFree
  <2>d. /\ p \in Present /\ files' = [files EXCEPT ![p] = catalog[p]]
        /\ files' \in [Keys -> Values \cup {None}]
        /\ backed' = backed \cup {p} /\ diskBytes' \in Int
    BY <2>a, <2>b, SpilledPage
  <2>e. resident' = resident \ {p}
    BY <2>a DEF DropResident
  <2>1. TypeOK'
    <3>1. cpuBytes' \in Int
      BY <2>a, <2>d DEF DropResident, TypeOK, Present
    <3> QED BY <1>10, <2>b, <2>d, <2>e, <3>1 DEF EvictOne, TypeOK, guards, jobs
  <2>2. Consistent'
    BY <2>b, <2>d, <2>e DEF Consistent, CallConsistent, ReadersConsistent,
       JobsConsistent, DownClean, TypeOK, Present, NoJobs
  <2>3. PinsExact'
    BY <1>10, SamePins DEF EvictOne, guards
  <2>4. InflightExact'
    BY <1>10, <2>b, <2>e DEF EvictOne, guards, InflightExact, Present
  <2>5. NoLostWaiter'
    BY <1>10 DEF NoLostWaiter, EvictOne, Available, Victims, Spilled, DropResident,
       guards, jobs, NoOp, Candidates, BackingVerifies, Evictable
  <2>6. NoPageLost'
    BY <2>b, <2>c, <2>d, <2>e DEF NoPageLost, TypeOK, Present, FilesOnDisk
  <2>7. PinProtects'
    <3>1. \A c \in Clients : client[c].pinned => client[c].key # p
      BY <2>c, NotPinned
    <3> QED BY <2>b, <2>e, <3>1 DEF PinProtects, Present
  <2>8. DurableKept'
    BY <2>b, <2>d DEF DurableKept, TypeOK, Present
  <2> QED BY <2>1, <2>2, <2>3, <2>4, <2>5, <2>6, <2>7, <2>8 DEF IInv, GuardsExact
<1>11. ASSUME NEW k \in Keys, Delete(k) PROVE IInv'
  <2>a. /\ k \in Present /\ pins[k] = 0 /\ inflight[k] = 0 /\ phase = "open" /\ op = NoOp
        /\ catalog' = [catalog EXCEPT ![k] = None]
        /\ resident' = resident \ {k} /\ backed' = backed \ {k}
        /\ durable' = [durable EXCEPT ![k] = None]
        /\ UNCHANGED <<phase, op, client, loads, fetched, spills, pins, inflight>>
    BY <1>11 DEF Delete, Available, guards, jobs
  <2>b. loads[k] = "idle" /\ spills[k] = "idle" /\ fetched[k] = None
    BY <2>a DEF InflightExact, Active, Consistent, CallConsistent, ReadersConsistent,
       JobsConsistent, DownClean, TypeOK
  <2>1. TypeOK'
    <3>1. Size[catalog[k]] \in Nat
      BY <2>a DEF Present, TypeOK
    <3>2. cpuBytes' \in Int /\ diskBytes' \in Int
      BY <1>11, <3>1 DEF Delete, EncodedSize, TypeOK
    <3>3. /\ files' \in [Keys -> Values \cup {None}] /\ corrupt' \subseteq Keys
          /\ recency' \subseteq Keys \X Keys
      BY <1>11 DEF Delete, Unlink, Forget, TypeOK
    <3> QED BY <1>11, <2>a, <3>2, <3>3 DEF Delete, TypeOK
  <2>2. Consistent'
    BY <2>a, <2>b DEF Consistent, CallConsistent, ReadersConsistent, JobsConsistent,
       DownClean, TypeOK, NoOp
  <2>3. PinsExact'
    BY <1>11, SamePins DEF Delete, guards
  <2>4. InflightExact'
    BY <2>a DEF InflightExact, Present, TypeOK
  <2>5. NoLostWaiter'
    BY <1>11 DEF NoLostWaiter, Delete, Available, Present, Unlink, guards, jobs, NoOp
  <2>6. NoPageLost'
    <3>1. files' = [files EXCEPT ![k] = None]
      BY <1>11, <2>a DEF Delete, Unlink, NoPageLost, FilesOnDisk, TypeOK
    <3> QED BY <2>a, <3>1 DEF NoPageLost, TypeOK, Present, FilesOnDisk
  <2>7. PinProtects'
    <3>1. \A c \in Clients : client[c].pinned => client[c].key # k
      BY <2>a, NotPinned
    <3> QED BY <2>a, <3>1 DEF PinProtects, Present, TypeOK
  <2>8. DurableKept'
    BY <1>11, <2>a DEF Delete, Unlink, DurableKept, TypeOK
  <2> QED BY <2>1, <2>2, <2>3, <2>4, <2>5, <2>6, <2>7, <2>8 DEF IInv, GuardsExact
<1>12. ASSUME EvictVictim PROVE IInv'
  <2>a. PICK p \in Keys : p \in Victims /\ Spilled(p) /\ DropResident(p)
    BY <1>12 DEF EvictVictim, Victims, Candidates
  <2>b. /\ phase = "open" /\ phase' = phase
        /\ UNCHANGED <<catalog, client, op, loads, fetched, spills, durable>>
    BY <1>12 DEF EvictVictim, Available, Consistent, CallConsistent, ReadersConsistent,
       JobsConsistent, DownClean, NoOp, jobs
  <2>c. p \in resident /\ pins[p] = 0 /\ inflight[p] = 0
    BY <2>a, VictimFree
  <2>d. /\ p \in Present /\ files' = [files EXCEPT ![p] = catalog[p]]
        /\ files' \in [Keys -> Values \cup {None}]
        /\ backed' = backed \cup {p} /\ diskBytes' \in Int
    BY <2>a, <2>b, SpilledPage
  <2>e. resident' = resident \ {p}
    BY <2>a DEF DropResident
  <2>1. TypeOK'
    <3>1. cpuBytes' \in Int
      BY <2>a, <2>d DEF DropResident, TypeOK, Present
    <3> QED BY <1>12, <2>b, <2>d, <2>e, <3>1 DEF EvictVictim, TypeOK, guards, jobs
  <2>2. Consistent'
    BY <2>b, <2>d, <2>e DEF Consistent, CallConsistent, ReadersConsistent,
       JobsConsistent, DownClean, TypeOK, Present, NoJobs
  <2>3. PinsExact'
    BY <1>12, SamePins DEF EvictVictim, guards
  <2>4. InflightExact'
    BY <1>12, <2>b, <2>e DEF EvictVictim, guards, InflightExact, Present
  <2>5. NoLostWaiter'
    BY <1>12 DEF NoLostWaiter, EvictVictim, NoOp, Victims, Spilled, DropResident,
       guards, jobs, Candidates, BackingVerifies, Evictable
  <2>6. NoPageLost'
    BY <2>b, <2>c, <2>d, <2>e DEF NoPageLost, TypeOK, Present, FilesOnDisk
  <2>7. PinProtects'
    <3>1. \A c \in Clients : client[c].pinned => client[c].key # p
      BY <2>c, NotPinned
    <3> QED BY <2>b, <2>e, <3>1 DEF PinProtects, Present
  <2>8. DurableKept'
    BY <2>b, <2>d DEF DurableKept, TypeOK, Present
  <2> QED BY <2>1, <2>2, <2>3, <2>4, <2>5, <2>6, <2>7, <2>8 DEF IInv, GuardsExact
<1>13. ASSUME NoSpace PROVE IInv'
  <2>a. op.kind \in {"put", "load", "evict"}
    BY <1>13 DEF NoSpace, Consistent, CallConsistent, ReadersConsistent, JobsConsistent,
       DownClean, TypeOK, OpType
  <2>b. op' = NoOp /\ UNCHANGED <<phase, ram, jobs, disk, durable>>
    BY <1>13 DEF NoSpace
  <2>c. \/ client' = client
        \/ /\ op.client \in Clients
           /\ client' = [client EXCEPT ![op.client] = Failed(op.client)]
    BY <1>13 DEF NoSpace, Consistent, CallConsistent, ReadersConsistent, JobsConsistent,
       DownClean
  <2>1. TypeOK'
    <3>1. client' \in [Clients -> ClientType]
      BY <2>c, FailedReader DEF TypeOK
    <3> QED BY <2>b, <3>1, Records DEF TypeOK, ram, bytes, guards, jobs, disk
  <2>2. Consistent'
    <3>1. \A c \in Clients : client'[c] = client[c] \/ client'[c] = Failed(c)
      BY <2>c DEF TypeOK
    <3>2. phase = "open"
      BY <2>a DEF Consistent, CallConsistent, ReadersConsistent, JobsConsistent, DownClean
    <3> QED BY <2>b, <3>1, <3>2, FailedReader
            DEF Consistent, CallConsistent, ReadersConsistent, JobsConsistent,
               DownClean, NoOp, NoJobs, Present, ram, bytes, jobs
  <2>3. PinsExact'
    <3>1. CASE client' = client
      BY <2>b, <3>1, SamePins DEF ram, guards
    <3>2. CASE op.client \in Clients /\ client' = [client EXCEPT ![op.client] = Failed(op.client)]
      BY <2>b, <3>2, FailedReader, OneReader DEF ram, guards
    <3> QED BY <2>c, <3>1, <3>2
  <2>4. InflightExact'
    BY <2>b DEF InflightExact, Present, ram, guards, jobs
  <2>5. NoLostWaiter'
    BY <2>b, <2>c, FailedReader DEF NoLostWaiter, TypeOK, jobs
  <2>6. PinProtects'
    BY <2>b, <2>c, FailedReader DEF PinProtects, TypeOK, Present, ram
  <2>7. NoPageLost' /\ DurableKept'
    BY <1>13 DEF TypeOK, NoPageLost, Present, FilesOnDisk, NoSpace, NoOp, SpaceDenied,
       Failed, ram, jobs, disk, Victims, SpillRaises, Idle, bytes, guards, Candidates,
       BackingVerifies, Evictable, DurableKept
  <2> QED BY <2>1, <2>2, <2>3, <2>4, <2>5, <2>6, <2>7 DEF IInv, GuardsExact
<1>14. ASSUME FinishPut PROVE IInv'
  <2>a. /\ phase = "open" /\ op.key \in Keys \ Present
        /\ op.val \in Values /\ op.need = Size[op.val]
    BY <1>14 DEF FinishPut, Consistent, CallConsistent, ReadersConsistent,
       JobsConsistent, DownClean
  <2>b. /\ catalog' = [catalog EXCEPT ![op.key] = op.val]
        /\ resident' = resident \cup {op.key} /\ op' = NoOp
        /\ UNCHANGED <<phase, backed, files, pins, inflight, loads, fetched, spills, client,
                       durable>>
    BY <1>14 DEF FinishPut, guards, jobs, disk
  <2>c. inflight[op.key] = 0 /\ loads[op.key] = "idle" /\ fetched[op.key] = None
    BY <2>a DEF InflightExact, Active, Consistent, CallConsistent, ReadersConsistent,
       JobsConsistent, DownClean, TypeOK
  <2>1. TypeOK'
    <3>1. cpuBytes' \in Int /\ recency' \subseteq Keys \X Keys
      BY <1>14, <2>a DEF FinishPut, Touch, Present, TypeOK
    <3> QED BY <1>14, <2>a, <2>b, <3>1, Records DEF FinishPut, TypeOK, disk
  <2>2. Consistent'
    BY <2>a, <2>b, <2>c DEF Consistent, CallConsistent, ReadersConsistent,
       JobsConsistent, DownClean, NoOp, TypeOK
  <2>3. PinsExact'
    BY <1>14, SamePins DEF FinishPut, guards
  <2>4. InflightExact'
    BY <2>a, <2>b, <2>c DEF InflightExact, Present, TypeOK
  <2>5. NoLostWaiter'
    BY <1>14 DEF NoLostWaiter, FinishPut, NoOp, guards, jobs, disk, Present
  <2>6. NoPageLost'
    <3>1. op.key \notin backed
      BY <2>a DEF NoPageLost
    <3> QED BY <2>a, <2>b, <3>1 DEF NoPageLost, Present, FilesOnDisk, TypeOK
  <2>7. PinProtects'
    BY <2>a, <2>b DEF PinProtects, Present, TypeOK
  <2>8. DurableKept'
    BY <2>a, <2>b DEF DurableKept, Present, TypeOK
  <2> QED BY <2>1, <2>2, <2>3, <2>4, <2>5, <2>6, <2>7, <2>8 DEF IInv, GuardsExact
<1>15. ASSUME FinishEvict PROVE IInv'
  <2>1. TypeOK'
    BY <1>15, Records DEF FinishEvict, TypeOK, ram, bytes, guards, jobs, disk
  <2>2. Consistent'
    BY <1>15 DEF FinishEvict, Consistent, CallConsistent, ReadersConsistent,
       JobsConsistent, DownClean, NoOp, Present, NoJobs, ram, bytes, jobs
  <2>3. PinsExact'
    BY <1>15, SamePins DEF FinishEvict, ram, guards
  <2>4. InflightExact' /\ NoLostWaiter' /\ NoPageLost' /\ PinProtects' /\ DurableKept'
    BY <1>15 DEF TypeOK, InflightExact, Active, Present, FinishEvict, NoOp, ram, jobs,
       disk, bytes, guards, NoLostWaiter, NoPageLost, FilesOnDisk, PinProtects,
       DurableKept
  <2> QED BY <2>1, <2>2, <2>3, <2>4 DEF IInv, GuardsExact
<1>16. ASSUME FinishSubmit PROVE IInv'
  <2>a. /\ phase = "open" /\ op.key \in Present \ resident
        /\ op.need = Size[catalog[op.key]] /\ op.client \in Clients
        /\ client[op.client].key = op.key /\ loads[op.key] = "idle"
    BY <1>16 DEF FinishSubmit, Consistent, CallConsistent, ReadersConsistent,
       JobsConsistent, DownClean
  <2>b. /\ inflight' = [inflight EXCEPT ![op.key] = @ + 1] /\ op' = NoOp
        /\ loads' = [loads EXCEPT ![op.key] = "queued"]
        /\ client' = [client EXCEPT ![op.client].at = "waiting"]
        /\ UNCHANGED <<phase, catalog, resident, backed, pins, fetched, spills, files, durable>>
    BY <1>16 DEF FinishSubmit, disk
  <2> DEFINE r == [client[op.client] EXCEPT !.at = "waiting"]
  <2>c. /\ r \in ClientType /\ r.at = "waiting" /\ r.val = client[op.client].val
        /\ r.key = client[op.client].key /\ r.pinned = client[op.client].pinned
    BY <2>a DEF TypeOK, ClientType
  <2>d. client' = [client EXCEPT ![op.client] = r]
    BY <2>b
  <2>e. op.key \in Keys
    BY <2>a DEF Present
  <2> HIDE DEF r
  <2>1. TypeOK'
    <3>1. client' \in [Clients -> ClientType]
      BY <2>a, <2>c, <2>d DEF TypeOK
    <3>2. cpuReserved' \in Int
      BY <1>16, <2>a DEF FinishSubmit, Present, TypeOK
    <3> QED BY <1>16, <2>b, <2>e, <3>1, <3>2, Records DEF FinishSubmit, TypeOK, disk
  <2>2. Consistent'
    BY <2>a, <2>b, <2>c, <2>d, <2>e DEF Consistent, CallConsistent, ReadersConsistent,
       JobsConsistent, DownClean, NoOp, NoJobs, Present, TypeOK
  <2>3. PinsExact'
    BY <2>a, <2>b, <2>c, <2>d, OneReader
  <2>4. InflightExact'
    BY <2>a, <2>b, <2>e DEF InflightExact, Active, Present, TypeOK
  <2>5. NoLostWaiter'
    BY <2>a, <2>b, <2>c, <2>d, <2>e DEF NoLostWaiter, TypeOK
  <2>6. PinProtects'
    BY <2>a, <2>b, <2>c, <2>d DEF PinProtects, Present, TypeOK
  <2>7. NoPageLost' /\ DurableKept'
    BY <1>16 DEF TypeOK, NoPageLost, Present, FilesOnDisk, FinishSubmit, NoOp, disk,
       DurableKept
  <2> QED BY <2>1, <2>2, <2>3, <2>4, <2>5, <2>6, <2>7 DEF IInv, GuardsExact
<1>17. ASSUME NEW c \in Clients, NEW k \in Keys, Read(c, k) PROVE IInv'
  <2>1. client[c] = Idle /\ k \in Present /\ Available /\ SubmitLoad(c, k, FALSE)
    BY <1>17 DEF Read
  <2>2. client[c].at = "idle" /\ client[c].pinned = FALSE
    BY <2>1, Records, Zenon
  <2> QED BY <2>1, <2>2, SubmitInv
<1>18. ASSUME NEW c \in Clients, NEW k \in Keys, Pin(c, k) PROVE IInv'
  <2> DEFINE r == [at |-> "entering", key |-> k, pinned |-> TRUE, val |-> None]
  <2>a. /\ phase = "open" /\ op = NoOp /\ client[c] = Idle /\ k \in Present
        /\ pins' = [pins EXCEPT ![k] = @ + 1] /\ client' = [client EXCEPT ![c] = r]
        /\ UNCHANGED <<phase, catalog, resident, backed, inflight, loads, fetched, spills, op>>
    BY <1>18 DEF Pin, Available, jobs
  <2>b. r \in ClientType
    BY DEF ClientType
  <2>c. \A d \in Clients : client'[d] = IF d = c THEN r ELSE client[d]
    BY <2>a DEF TypeOK
  <2>1. TypeOK'
    BY <1>18, <2>a, <2>b DEF Pin, TypeOK, bytes, disk
  <2>2. Consistent'
    <3>1. ReadersConsistent'
      BY <2>a, <2>c DEF ReadersConsistent, Present
    <3> QED BY <1>18, <2>a, <2>c, <3>1 DEF Pin, Consistent, CallConsistent, JobsConsistent,
            DownClean, NoOp, NoJobs, Present, bytes
  <2>3. PinsExact'
    <3>1. Pinners(k)' = Pinners(k) \cup {c} /\ c \notin Pinners(k)
      BY <2>a, <2>c DEF Pinners, Idle
    <3>2. pins'[k] = Cardinality(Pinners(k)')
      <4>1. Cardinality(Pinners(k) \cup {c}) = Cardinality(Pinners(k)) + 1
        BY <3>1, PinCount, FS_AddElement
      <4>2. pins'[k] = pins[k] + 1
        BY <2>a DEF TypeOK
      <4> QED BY <3>1, <4>1, <4>2, PinCount
    <3>3. ASSUME NEW j \in Keys \ {k} PROVE pins'[j] = Cardinality(Pinners(j)')
      <4>1. Pinners(j)' = Pinners(j)
        BY <2>a, <2>c DEF Pinners, Idle
      <4>2. pins'[j] = pins[j]
        BY <2>a DEF TypeOK
      <4> QED BY <4>1, <4>2, PinCount
    <3> QED BY <3>2, <3>3 DEF PinsExact
  <2>4. InflightExact'
    BY <2>a DEF InflightExact, Present
  <2>5. NoLostWaiter'
    BY <2>a, <2>c DEF NoLostWaiter
  <2>6. PinProtects'
    BY <2>a, <2>c DEF PinProtects, Present
  <2>7. NoPageLost' /\ DurableKept'
    BY <1>18 DEF TypeOK, NoPageLost, Present, FilesOnDisk, Pin, Available, Idle, bytes,
       jobs, disk, NoOp, DurableKept
  <2> QED BY <2>1, <2>2, <2>3, <2>4, <2>5, <2>6, <2>7 DEF IInv, GuardsExact
<1>19. ASSUME NEW c \in Clients, PinnedRead(c) PROVE IInv'
  <2>1. /\ client[c].at = "entering"
        /\ Available /\ SubmitLoad(c, client[c].key, TRUE)
    BY <1>19 DEF PinnedRead
  <2>2. client[c].pinned = TRUE
    BY <2>1 DEF Consistent, CallConsistent, ReadersConsistent, JobsConsistent,
       DownClean, TypeOK, ClientType
  <2>3. PICK k \in Present : k = client[c].key
    BY <2>2 DEF PinProtects
  <2>4. SubmitLoad(c, k, TRUE)
    BY <2>1, <2>3
  <2> QED BY <2>1, <2>2, <2>3, <2>4, SubmitInv
<1>20. ASSUME NEW c \in Clients, PinnedReadRefused(c) PROVE IInv'
  <2> DEFINE r == Failed(c)
  <2>a. /\ client[c].at = "entering" /\ op = NoOp /\ client' = [client EXCEPT ![c] = r]
        /\ UNCHANGED <<phase, ram, jobs, disk, op, durable>>
    BY <1>20 DEF PinnedReadRefused
  <2>b. /\ r \in ClientType /\ r.at \in {"idle", "leaving"}
        /\ r.at = "idle" => r = Idle
        /\ r.pinned = client[c].pinned
        /\ client[c].pinned => r.key = client[c].key /\ r.at # "idle"
    BY FailedReader
  <2> HIDE DEF r
  <2>c. \A d \in Clients : client'[d] = IF d = c THEN r ELSE client[d]
    BY <2>a DEF TypeOK
  <2>1. TypeOK'
    BY <2>a, <2>b DEF TypeOK, ram, bytes, guards, jobs, disk
  <2>2. Consistent'
    <3>1. ReadersConsistent'
      BY <2>a, <2>b, <2>c DEF ReadersConsistent, Idle
    <3> QED BY <2>a, <2>b, <2>c, <3>1 DEF Consistent, CallConsistent, JobsConsistent,
            DownClean, NoOp, NoJobs, Present, ram, bytes, jobs
  <2>3. PinsExact'
    BY <2>a, <2>b, OneReader DEF ram, guards
  <2>4. InflightExact'
    BY <2>a DEF InflightExact, Present, ram, guards, jobs
  <2>5. NoLostWaiter'
    BY <2>a, <2>b, <2>c DEF NoLostWaiter, jobs
  <2>6. PinProtects'
    BY <2>a, <2>b, <2>c DEF PinProtects, Present, ram
  <2>7. NoPageLost' /\ DurableKept'
    BY <1>20 DEF TypeOK, NoPageLost, Present, FilesOnDisk, PinnedReadRefused, NoOp,
       Failed, ram, jobs, disk, Idle, bytes, guards, DurableKept
  <2> QED BY <2>1, <2>2, <2>3, <2>4, <2>5, <2>6, <2>7 DEF IInv, GuardsExact
<1>21. ASSUME NEW c \in Clients, Resume(c) PROVE IInv'
  <2> DEFINE r == IF client[c].val = None THEN Failed(c) ELSE [client[c] EXCEPT !.at = "using"]
  <2>a. /\ client[c].at = "settled" /\ client' = [client EXCEPT ![c] = r]
        /\ UNCHANGED <<phase, ram, jobs, disk, op, durable>>
    BY <1>21 DEF Resume
  <2>b. /\ r \in ClientType /\ r.at \in {"idle", "leaving", "using"}
        /\ r.at = "idle" => r = Idle
        /\ r.pinned = client[c].pinned
        /\ client[c].pinned => r.key = client[c].key /\ r.at # "idle"
        /\ r.at = "using" => r.val = client[c].val
    <3>1. CASE client[c].val = None
      BY <3>1, FailedReader
    <3>2. CASE client[c].val # None
      <4>1. r = [client[c] EXCEPT !.at = "using"] /\ client[c] \in ClientType
        BY <3>2 DEF TypeOK
      <4> QED BY <4>1 DEF ClientType
    <3> QED BY <3>1, <3>2
  <2> HIDE DEF r
  <2>c. \A d \in Clients : client'[d] = IF d = c THEN r ELSE client[d]
    BY <2>a DEF TypeOK
  <2>1. TypeOK'
    BY <2>a, <2>b DEF TypeOK, ram, bytes, guards, jobs, disk
  <2>2. Consistent'
    <3>1. CallConsistent'
      <4>1. op.kind = "load" => op.client # c
        BY <2>a DEF Consistent, CallConsistent
      <4> QED BY <2>a, <2>b, <2>c, <4>1 DEF Consistent, CallConsistent, NoOp, Present,
         ram, jobs
    <3>2. ReadersConsistent'
      BY <2>a, <2>b, <2>c DEF ReadersConsistent, Idle
    <3>3. JobsConsistent' /\ DownClean'
      BY <2>a DEF Consistent, JobsConsistent, DownClean, NoJobs, Present, ram, bytes, jobs
    <3> QED BY <3>1, <3>2, <3>3 DEF Consistent
  <2>3. PinsExact'
    BY <2>a, <2>b, OneReader DEF ram, guards
  <2>4. InflightExact'
    BY <2>a DEF InflightExact, Present, ram, guards, jobs
  <2>5. NoLostWaiter'
    BY <2>a, <2>b, <2>c DEF NoLostWaiter, jobs
  <2>6. PinProtects'
    BY <2>a, <2>b, <2>c DEF PinProtects, Present, ram
  <2>7. NoPageLost' /\ DurableKept'
    BY <1>21 DEF TypeOK, NoPageLost, Present, FilesOnDisk, Resume, Failed, ram, jobs,
       disk, Idle, bytes, guards, DurableKept
  <2> QED BY <2>1, <2>2, <2>3, <2>4, <2>5, <2>6, <2>7 DEF IInv, GuardsExact
<1>22. ASSUME NEW c \in Clients, Leave(c) PROVE IInv'
  <2>a. /\ client[c].at \in {"using", "leaving"} /\ client' = [client EXCEPT ![c] = Idle]
        /\ pins' = IF client[c].pinned THEN [pins EXCEPT ![client[c].key] = @ - 1] ELSE pins
        /\ UNCHANGED <<phase, catalog, resident, backed, recency, bytes, inflight, jobs, disk,
                       op, durable>>
    BY <1>22 DEF Leave, HoldsPin
  <2>b. \A d \in Clients : client'[d] = IF d = c THEN Idle ELSE client[d]
    BY <2>a DEF TypeOK
  <2>1. TypeOK'
    <3>1. pins' \in [Keys -> Nat]
      <4>1. CASE ~client[c].pinned
        BY <2>a, <4>1 DEF TypeOK
      <4>2. CASE client[c].pinned
        <5> DEFINE k == client[c].key
        <5>1. k \in Keys /\ c \in Pinners(k)
          BY <4>2 DEF PinProtects, Present, Pinners
        <5>2. pins[k] # 0 /\ pins[k] \in Nat
          BY <5>1, PinCount
        <5> QED BY <2>a, <4>2, <5>1, <5>2 DEF TypeOK
      <4> QED BY <4>1, <4>2
    <3> QED BY <2>a, <3>1, Records DEF TypeOK, bytes, jobs, disk
  <2>2. Consistent'
    <3>1. CallConsistent'
      <4>1. op.kind = "load" => op.client # c
        BY <2>a DEF Consistent, CallConsistent
      <4> QED BY <2>a, <2>b, <4>1 DEF Consistent, CallConsistent, NoOp, Present, jobs
    <3>2. ReadersConsistent'
      BY <2>a, <2>b, Records DEF ReadersConsistent
    <3>3. JobsConsistent' /\ DownClean'
      BY <2>a DEF Consistent, JobsConsistent, DownClean, NoJobs, Present, bytes, jobs
    <3> QED BY <3>1, <3>2, <3>3 DEF Consistent
  <2>3. PinsExact'
    <3>1. CASE ~client[c].pinned
      BY <2>a, <2>b, <3>1, SamePins DEF Idle, TypeOK, ClientType
    <3>2. CASE client[c].pinned
      <4>1. PICK k \in Keys : k = client[c].key
        BY <3>2 DEF PinProtects, Present
      <4>2. c \in Pinners(k)
        BY <3>2, <4>1 DEF Pinners
      <4>3. Pinners(k)' = Pinners(k) \ {c}
        BY <2>b DEF Pinners, Idle
      <4>4. pins'[k] = Cardinality(Pinners(k)')
        <5>1. Cardinality(Pinners(k) \ {c}) = Cardinality(Pinners(k)) - 1
          BY <4>2, PinCount, FS_RemoveElement
        <5>2. pins'[k] = pins[k] - 1
          BY <2>a, <3>2, <4>1 DEF TypeOK
        <5> QED BY <4>3, <5>1, <5>2, PinCount
      <4>5. ASSUME NEW j \in Keys \ {k} PROVE pins'[j] = Cardinality(Pinners(j)')
        <5>1. Pinners(j)' = Pinners(j)
          BY <2>b, <4>1 DEF Pinners, Idle
        <5>2. pins'[j] = pins[j]
          BY <2>a, <3>2, <4>1 DEF TypeOK
        <5> QED BY <5>1, <5>2, PinCount
      <4> QED BY <4>4, <4>5 DEF PinsExact
    <3> QED BY <3>1, <3>2
  <2>4. InflightExact'
    BY <2>a DEF InflightExact, Present, jobs
  <2>5. NoLostWaiter'
    BY <2>a, <2>b DEF NoLostWaiter, Idle, jobs
  <2>6. PinProtects'
    BY <2>a, <2>b DEF PinProtects, Idle, Present
  <2>7. NoPageLost' /\ DurableKept'
    BY <1>22 DEF TypeOK, NoPageLost, Present, FilesOnDisk, Leave, HoldsPin, NoOp, Idle,
       bytes, jobs, disk, DurableKept
  <2> QED BY <2>1, <2>2, <2>3, <2>4, <2>5, <2>6, <2>7 DEF IInv, GuardsExact
<1>23. ASSUME NEW k \in Keys, LoadRead(k) PROVE IInv'
  <2>a. /\ loads[k] = "queued" /\ loads' = [loads EXCEPT ![k] = "done"]
        /\ \/ fetched' = [fetched EXCEPT ![k] = None]
           \/ files[k] = catalog[k] /\ fetched' = [fetched EXCEPT ![k] = files[k]]
        /\ UNCHANGED <<phase, ram, spills, disk, op, client, durable>>
    BY <1>23 DEF LoadRead, BackingVerifies
  <2>1. TypeOK'
    BY <2>a DEF TypeOK, ram, bytes, guards, disk
  <2>2. Consistent'
    BY <2>a DEF Consistent, CallConsistent, ReadersConsistent, JobsConsistent,
       DownClean, NoJobs, Present, TypeOK, ram, bytes
  <2>3. PinsExact'
    BY <1>23, SamePins DEF LoadRead, ram, guards
  <2>4. InflightExact'
    BY <2>a DEF InflightExact, Active, Present, TypeOK, ram, guards
  <2>5. NoLostWaiter'
    BY <2>a DEF NoLostWaiter, Consistent, CallConsistent, ReadersConsistent,
       JobsConsistent, DownClean, TypeOK
  <2>6. NoPageLost' /\ PinProtects' /\ DurableKept'
    BY <1>23 DEF TypeOK, NoPageLost, Present, FilesOnDisk, LoadRead, BackingVerifies,
       ram, disk, bytes, guards, PinProtects, DurableKept
  <2> QED BY <2>1, <2>2, <2>3, <2>4, <2>5, <2>6 DEF IInv, GuardsExact
<1>24. ASSUME NEW k \in Keys, LoadFinish(k) PROVE IInv'
  <2> DEFINE val == IF Stale THEN None ELSE fetched[k]
             got(c) == [client[c] EXCEPT !.at = "settled", !.val = val]
  <2>a. /\ op = NoOp /\ loads[k] = "done" /\ loads' = [loads EXCEPT ![k] = "idle"]
        /\ fetched' = [fetched EXCEPT ![k] = None]
        /\ inflight' = [inflight EXCEPT ![k] = @ - 1]
        /\ resident' = IF val # None THEN resident \cup {k} ELSE resident
        /\ client' = [c \in Clients |-> IF Waiting(c, k) THEN got(c) ELSE client[c]]
        /\ UNCHANGED <<phase, catalog, backed, recency, diskBytes, files, corrupt, pending,
                       lock, pins, spills, op, durable>>
    BY <1>24 DEF LoadFinish, disk
  <2>b. val # None => val = catalog[k]
    BY DEF Consistent, JobsConsistent
  <2>c. val \in Values \cup {None}
    BY DEF TypeOK
  <2>d. inflight[k] > 0 /\ k \in Present /\ phase # "down"
    <3>1. inflight[k] > 0
      <4>1. Active(loads[k]) = 1 /\ Active(spills[k]) \in {0, 1}
        BY <2>a DEF Active
      <4> QED BY <4>1 DEF InflightExact
    <3>2. k \in Present
      BY <3>1 DEF InflightExact
    <3> QED BY <3>1, <3>2 DEF Consistent, DownClean
  <2> HIDE DEF val
  <2>e. ASSUME NEW c \in Clients
        PROVE  /\ got(c) \in ClientType /\ got(c).at = "settled" /\ got(c).val = val
               /\ got(c).key = client[c].key /\ got(c).pinned = client[c].pinned
    <3>1. client[c] \in ClientType
      BY DEF TypeOK
    <3> QED BY <2>c, <3>1 DEF ClientType
  <2> HIDE DEF got
  <2>f. \A c \in Clients : client'[c] = IF Waiting(c, k) THEN got(c) ELSE client[c]
    BY <2>a
  <2>1. TypeOK'
    <3>1. client' \in [Clients -> ClientType]
      BY <2>a, <2>e DEF TypeOK
    <3>2. inflight' \in [Keys -> Nat]
      BY <2>a, <2>d DEF TypeOK
    <3>3. Size[catalog[k]] \in Nat
      BY <2>d DEF TypeOK, Present
    <3>4. /\ cpuBytes' = cpuBytes + Size[catalog[k]] \/ cpuBytes' = cpuBytes
          /\ cpuReserved' = cpuReserved - Size[catalog[k]]
      BY <1>24 DEF LoadFinish
    <3>5. cpuBytes' \in Int /\ cpuReserved' \in Int
      BY <3>3, <3>4 DEF TypeOK
    <3> QED BY <2>a, <3>1, <3>2, <3>5 DEF TypeOK
  <2>2. Consistent'
    BY <2>a, <2>d, <2>e, <2>f DEF Consistent, CallConsistent, ReadersConsistent,
       JobsConsistent, DownClean, Idle, NoOp, Waiting, TypeOK
  <2>3. PinsExact'
    BY <2>a, <2>e, <2>f, SamePins
  <2>4. InflightExact'
    BY <2>a, <2>d DEF InflightExact, Active, Present, TypeOK
  <2>5. NoLostWaiter'
    BY <2>a, <2>e, <2>f DEF NoLostWaiter, Waiting, TypeOK
  <2>6. NoPageLost'
    BY <2>a, <2>d DEF NoPageLost, Present, FilesOnDisk
  <2>7. PinProtects'
    BY <2>a, <2>b, <2>e, <2>f DEF PinProtects, Waiting, Present
  <2>8. DurableKept'
    BY <1>24 DEF TypeOK, DurableKept, LoadFinish, NoOp, Stale, Waiting, disk
  <2> QED BY <2>1, <2>2, <2>3, <2>4, <2>5, <2>6, <2>7, <2>8 DEF IInv, GuardsExact
<1>25. ASSUME NEW k \in Keys, SubmitSpill(k) PROVE IInv'
  <2>1. TypeOK'
    BY <1>25 DEF TypeOK, OpType, ClientType, SubmitSpill, Available, Present, bytes,
       disk, NoOp
  <2>2. Consistent'
    BY <1>25 DEF TypeOK, Consistent, CallConsistent, ReadersConsistent, JobsConsistent,
       DownClean, NoOp, Present, Idle, NoJobs, SubmitSpill, Available, bytes, disk
  <2>3. PinsExact'
    BY <1>25, SamePins DEF SubmitSpill
  <2>4. InflightExact'
    BY <1>25 DEF SubmitSpill, InflightExact, Active, Present, TypeOK
  <2>5. NoLostWaiter' /\ NoPageLost' /\ PinProtects' /\ DurableKept'
    BY <1>25 DEF TypeOK, NoLostWaiter, SubmitSpill, Available, Present, bytes, disk,
       NoOp, NoPageLost, FilesOnDisk, PinProtects, DurableKept
  <2> QED BY <2>1, <2>2, <2>3, <2>4, <2>5 DEF IInv, GuardsExact
<1>26. ASSUME NEW k \in Keys, SpillRun(k) PROVE IInv'
  <2>a. /\ op = NoOp /\ spills[k] = "queued"
        /\ UNCHANGED <<phase, catalog, resident, recency, cpuBytes, cpuReserved, guards, loads,
                       fetched, corrupt, pending, lock, op, client, durable>>
    BY <1>26 DEF SpillRun
  <2>b. phase # "down"
    BY <2>a DEF Consistent, CallConsistent, ReadersConsistent, JobsConsistent,
       DownClean, NoJobs
  <2>c. \/ /\ spills' = [spills EXCEPT ![k] = "failed"]
           /\ UNCHANGED <<files, backed, diskBytes>>
        \/ /\ spills' = [spills EXCEPT ![k] = "ok"] /\ k \in Present
           /\ files' = [files EXCEPT ![k] = catalog[k]] /\ backed' = backed \cup {k}
           /\ diskBytes' \in Int
    BY <1>26, <2>b, SpilledPage DEF SpillRun
  <2>1. TypeOK'
    <3>1. files' \in [Keys -> Values \cup {None}]
      BY <2>c DEF TypeOK
    <3> QED BY <2>a, <2>c, <3>1 DEF TypeOK, guards
  <2>2. Consistent'
    BY <2>a, <2>b, <2>c DEF Consistent, CallConsistent, ReadersConsistent,
       JobsConsistent, DownClean, NoOp, Present, TypeOK
  <2>3. PinsExact'
    BY <1>26, SamePins DEF SpillRun, guards
  <2>4. InflightExact'
    BY <2>a, <2>c DEF InflightExact, Active, Present, TypeOK, guards
  <2>5. NoPageLost'
    BY <2>a, <2>c DEF NoPageLost, Present, FilesOnDisk, TypeOK
  <2>6. DurableKept'
    BY <2>a, <2>b, <2>c DEF DurableKept, Present, TypeOK
  <2>7. NoLostWaiter' /\ PinProtects'
    BY <1>26 DEF TypeOK, NoLostWaiter, SpillRun, NoOp, Stale, Spilled, SpillFails,
       guards, BackingVerifies, SpillRaises, PinProtects, Present
  <2> QED BY <2>1, <2>2, <2>3, <2>4, <2>5, <2>6, <2>7 DEF IInv, GuardsExact
<1>27. ASSUME NEW k \in Keys, SpillFinish(k) PROVE IInv'
  <2>a. /\ op = NoOp /\ spills[k] \in {"ok", "failed"}
        /\ spills' = [spills EXCEPT ![k] = "idle"] /\ inflight' = [inflight EXCEPT ![k] = @ - 1]
        /\ durable' = IF spills[k] = "ok" THEN [durable EXCEPT ![k] = catalog[k]] ELSE durable
        /\ UNCHANGED <<phase, catalog, resident, backed, recency, bytes, pins, loads, fetched,
                       disk, op, client>>
    BY <1>27 DEF SpillFinish, Acknowledged
  <2>b. inflight[k] > 0 /\ phase # "down"
    BY <2>a DEF InflightExact, Active, Consistent, CallConsistent, ReadersConsistent,
       JobsConsistent, DownClean, NoJobs, TypeOK
  <2>1. TypeOK'
    <3>1. inflight' \in [Keys -> Nat]
      BY <2>a, <2>b DEF TypeOK
    <3> QED BY <2>a, <3>1 DEF TypeOK, bytes, disk
  <2>2. Consistent'
    BY <2>a, <2>b DEF Consistent, CallConsistent, ReadersConsistent, JobsConsistent,
       DownClean, NoOp, Present, TypeOK
  <2>3. PinsExact'
    BY <1>27, SamePins DEF SpillFinish
  <2>4. InflightExact'
    BY <2>a, <2>b DEF InflightExact, Active, Present, TypeOK
  <2>5. DurableKept'
    <3>1. spills[k] = "ok" => files[k] = catalog[k] /\ catalog[k] # None
      BY <2>b DEF Consistent, CallConsistent, ReadersConsistent, JobsConsistent,
         DownClean, NoPageLost, Present, TypeOK
    <3> QED BY <2>a, <3>1 DEF DurableKept, TypeOK, disk
  <2>6. NoLostWaiter' /\ NoPageLost' /\ PinProtects'
    BY <1>27 DEF TypeOK, NoLostWaiter, SpillFinish, NoOp, Acknowledged, bytes, disk,
       NoPageLost, Present, FilesOnDisk, PinProtects
  <2> QED BY <2>1, <2>2, <2>3, <2>4, <2>5, <2>6 DEF IInv, GuardsExact
<1>28. ASSUME UNCHANGED vars PROVE IInv'
  <2>1. TypeOK' /\ Consistent' /\ InflightExact' /\ NoLostWaiter'
    BY <1>28 DEF TypeOK, Consistent, CallConsistent, ReadersConsistent, JobsConsistent,
       DownClean,
       InflightExact, NoLostWaiter, NoJobs, Present,
       vars, ram, bytes, guards, jobs, disk
  <2>2. PinsExact'
    BY <1>28, SamePins DEF vars, ram, guards
  <2>3. NoPageLost' /\ PinProtects' /\ DurableKept'
    BY <1>28 DEF NoPageLost, PinProtects, DurableKept, Present, FilesOnDisk, vars, ram, disk
  <2> QED BY <2>1, <2>2, <2>3 DEF IInv, GuardsExact
<1> QED
  BY <1>1, <1>2, <1>3, <1>4, <1>5, <1>6, <1>7, <1>8, <1>9, <1>10, <1>11, <1>12, <1>13,
     <1>14, <1>15, <1>16, <1>17, <1>18, <1>19, <1>20, <1>21, <1>22, <1>23, <1>24, <1>25,
     <1>26, <1>27, <1>28 DEF Next, Mutex, Worker, ClientStep

-----------------------------------------------------------------------------
(* The budgets                                                              *)

\* The RAM tier: what is resident, and what the loads in flight have reserved.
CpuExact ==
    /\ cpuBytes = Bytes(resident, PayloadLen(catalog))
    /\ cpuReserved = Bytes(Loading, PayloadLen(catalog))
    /\ cpuBytes + cpuReserved =< CpuBudget

\* The disk tier: what is in the directory.
DiskExact ==
    /\ phase # "down" => diskBytes = DiskUse
    /\ diskBytes =< DiskBudget /\ DiskUse =< DiskBudget

LEMMA AccountingParts == Accounting <=> CpuExact /\ DiskExact
BY DEF Accounting, CountersExact, Bounded, CpuExact, DiskExact

\* Fewer keys take no more bytes.
LEMMA BytesFewer ==
    ASSUME NEW S \in SUBSET Keys, NEW T \in SUBSET S, NEW len \in [Keys -> Nat]
    PROVE  Bytes(T, len) =< Bytes(S, len)
<1>1. Cells(T, len) \in SUBSET Cells(S, len) /\ IsFiniteSet(Cells(S, len))
  BY CellsFinite DEF Cells
<1> QED BY <1>1, FS_Subset DEF Bytes

\* What the lengths of a page are.
LEMMA PageLen ==
    ASSUME NEW val \in [Keys -> Values \cup {None}], NEW k \in Keys
    PROVE  /\ val[k] # None => PayloadLen(val)[k] = Size[val[k]]
           /\ val[k] # None => FileLen(val)[k] = Header + Size[val[k]]
           /\ \A w \in [Keys -> Values \cup {None}] :
                 w[k] = val[k]
                 => PayloadLen(w)[k] = PayloadLen(val)[k] /\ FileLen(w)[k] = FileLen(val)[k]
BY DEF PayloadLen, FileLen

\* The counts are natural numbers.
LEMMA CountTypes ==
    ASSUME TypeOK
    PROVE  /\ \A S \in SUBSET Keys : Bytes(S, PayloadLen(catalog)) \in Nat
           /\ DiskUse \in Nat
           /\ PayloadLen(catalog) \in [Keys -> Nat] /\ FileLen(files) \in [Keys -> Nat]
           /\ Loading \in SUBSET Keys /\ resident \in SUBSET Keys
           /\ FilesOnDisk \in SUBSET Keys
<1>1. PayloadLen(catalog) \in [Keys -> Nat] /\ FileLen(files) \in [Keys -> Nat]
  BY LenType DEF TypeOK
<1>2. Loading \in SUBSET Keys /\ resident \in SUBSET Keys /\ FilesOnDisk \in SUBSET Keys
  BY DEF TypeOK, Loading, FilesOnDisk
<1> QED BY <1>1, <1>2, BytesType DEF DiskUse

\* A step that moves no page into or out of RAM and ends and starts no load.
LEMMA CpuQuiet ==
    ASSUME CpuExact, UNCHANGED <<catalog, resident, cpuBytes, cpuReserved>>,
           \A k \in Keys : loads'[k] = "idle" <=> loads[k] = "idle"
    PROVE  CpuExact'
<1>1. Loading' = Loading
  BY DEF Loading
<1> QED BY <1>1 DEF CpuExact, Bytes, Cells, PayloadLen

\* An eviction gives back what the page takes.
LEMMA CpuDropped ==
    ASSUME TypeOK, CpuExact, NEW k \in resident, k \in Present, DropResident(k),
           UNCHANGED <<catalog, cpuReserved, loads>>
    PROVE  CpuExact'
<1> DEFINE len == PayloadLen(catalog)
<1>1. /\ len \in [Keys -> Nat] /\ resident \in SUBSET Keys /\ k \in Keys
      /\ len[k] = Size[catalog[k]] /\ Size[catalog[k]] \in Nat
  BY CountTypes, PageLen DEF TypeOK, Present
<1>2. Bytes(resident \ {k}, len) = Bytes(resident, len) - len[k]
  <2> HIDE DEF len
  <2> QED BY <1>1, BytesRemove
<1>3. Loading' = Loading /\ PayloadLen(catalog)' = len
  BY DEF Loading, PayloadLen
<1>4. cpuBytes' = Bytes(resident', len)
  BY <1>1, <1>2 DEF DropResident, CpuExact
<1>5. cpuReserved' = Bytes(Loading, len) /\ cpuReserved' = cpuReserved
  BY DEF CpuExact
<1>6. cpuBytes' + cpuReserved' =< CpuBudget
  <2>1. cpuBytes \in Int /\ cpuReserved \in Int /\ CpuBudget \in Int
    BY DEF TypeOK
  <2>2. cpuBytes' = cpuBytes - Size[catalog[k]] /\ cpuBytes + cpuReserved =< CpuBudget
    BY DEF DropResident, CpuExact
  <2> QED BY <1>1, <1>5, <2>1, <2>2
<1> HIDE DEF len
<1>7. /\ cpuBytes' = Bytes(resident', PayloadLen(catalog)')
      /\ cpuReserved' = Bytes(Loading', PayloadLen(catalog)')
  BY <1>3, <1>4, <1>5
<1> QED BY <1>6, <1>7 DEF CpuExact, Bytes, Cells

\* A retired store has neither pages nor loads.
LEMMA CpuRetired ==
    ASSUME Retire PROVE CpuExact'
<1>1. Loading' = {} /\ resident' = {} /\ cpuBytes' = 0 /\ cpuReserved' = 0
      /\ catalog' = [k \in Keys |-> None]
  BY DEF Retire, Loading
<1>2. PayloadLen(catalog') \in [Keys -> Nat]
  BY <1>1, LenType
<1>3. Bytes({}, PayloadLen(catalog')) = 0
  BY <1>2, BytesType
<1>4. Bytes(resident, PayloadLen(catalog))' = 0 /\ Bytes(Loading, PayloadLen(catalog))' = 0
  BY <1>1, <1>3 DEF Bytes, Cells, PayloadLen
<1> QED BY <1>1, <1>4 DEF CpuExact

\* A step that touches no file.
LEMMA DiskQuiet ==
    ASSUME DiskExact, UNCHANGED <<files, diskBytes>>, phase' # "down" => phase # "down"
    PROVE  DiskExact'
BY DEF DiskExact, DiskUse, FilesOnDisk, Bytes, Cells, FileLen, PayloadLen

\* A file more takes its own bytes.
LEMMA DiskAdded ==
    ASSUME TypeOK, NEW k \in Keys, files[k] = None, NEW v \in Values
    PROVE  LET new == [files EXCEPT ![k] = v]
           IN Bytes({j \in Keys : new[j] # None}, FileLen(new)) = DiskUse + Header + Size[v]
<1> DEFINE new == [files EXCEPT ![k] = v]
           S == {j \in Keys : new[j] # None}
<1>1. /\ new \in [Keys -> Values \cup {None}] /\ new[k] = v
      /\ \A j \in Keys : j # k => new[j] = files[j]
  BY DEF TypeOK
<1>2. FilesOnDisk \in SUBSET Keys /\ k \notin FilesOnDisk /\ S = FilesOnDisk \cup {k}
  <2>1. \A j \in Keys : new[j] # None <=> j = k \/ files[j] # None
    BY <1>1
  <2> HIDE DEF new
  <2> QED BY <2>1 DEF FilesOnDisk
<1> HIDE DEF new, S
<1>3. FileLen(new) \in [Keys -> Nat] /\ FileLen(new)[k] = Header + Size[v]
  <2>1. new[k] # None
    BY <1>1
  <2> QED BY <1>1, <2>1, LenType, PageLen
<1>4. Bytes(FilesOnDisk \cup {k}, FileLen(new)) = Bytes(FilesOnDisk, FileLen(new)) + FileLen(new)[k]
  BY <1>2, <1>3, BytesAdd
<1>5. \A j \in FilesOnDisk : FileLen(new)[j] = FileLen(files)[j]
  BY <1>1, <1>2, PageLen DEF TypeOK
<1>6. Bytes(FilesOnDisk, FileLen(new)) = Bytes(FilesOnDisk, FileLen(files))
  BY <1>2, <1>5, BytesSame
<1>7. Bytes(FilesOnDisk, FileLen(files)) \in Nat /\ Size[v] \in Nat
  BY CountTypes DEF DiskUse
<1>8. Bytes(S, FileLen(new)) = Bytes(FilesOnDisk, FileLen(files)) + Header + Size[v]
  BY <1>2, <1>3, <1>4, <1>6, <1>7
<1> QED BY <1>8 DEF DiskUse, S, new


\* A page that is published takes a file more, or none that was not there.
LEMMA DiskSpilled ==
    ASSUME TypeOK, NoPageLost, DiskExact, phase # "down", phase' = phase,
           NEW k \in Keys, Spilled(k)
    PROVE  DiskExact'
<1>1. CASE UNCHANGED <<files, diskBytes>>
  BY <1>1, DiskQuiet
<1>2. CASE /\ k \in resident \ backed /\ DiskFits(k)
           /\ files' = [files EXCEPT ![k] = catalog[k]]
           /\ diskBytes' = diskBytes + EncodedSize(k)
  <2>1. /\ files[k] = None /\ catalog[k] \in Values
    BY <1>2 DEF NoPageLost, FilesOnDisk, Present, TypeOK
  <2>2. DiskUse' = DiskUse + Header + Size[catalog[k]]
    <3>1. Bytes({j \in Keys : files'[j] # None}, FileLen(files'))
            = DiskUse + Header + Size[catalog[k]]
      BY <1>2, <2>1, DiskAdded
    <3> QED BY <3>1 DEF DiskUse, FilesOnDisk, Bytes, Cells, FileLen, PayloadLen
  <2>3. diskBytes = DiskUse /\ DiskUse \in Nat /\ Size[catalog[k]] \in Nat
    BY <2>1, CountTypes DEF DiskExact
  <2> QED BY <1>2, <2>2, <2>3 DEF DiskExact, DiskFits, EncodedSize
<1> QED BY <1>1, <1>2 DEF Spilled

\* A restart finds the files that are there.
LEMMA DiskRetired ==
    ASSUME DiskExact, Retire, UNCHANGED files
    PROVE  DiskExact'
<1>1. phase' = "down" /\ diskBytes' = 0 /\ DiskUse' = DiskUse
  BY DEF Retire, DiskUse, FilesOnDisk, Bytes, Cells, FileLen, PayloadLen
<1> QED BY <1>1 DEF DiskExact

\* A file less gives its own bytes back.
LEMMA DiskRemoved ==
    ASSUME TypeOK, NEW k \in Keys, files[k] # None
    PROVE  LET new == [files EXCEPT ![k] = None]
           IN Bytes({j \in Keys : new[j] # None}, FileLen(new))
                = DiskUse - (Header + Size[files[k]])
<1> DEFINE new == [files EXCEPT ![k] = None]
           S == {j \in Keys : new[j] # None}
<1>1. /\ new \in [Keys -> Values \cup {None}] /\ new[k] = None
      /\ \A j \in Keys : j # k => new[j] = files[j]
      /\ \A j \in Keys : new[j] # None <=> j # k /\ files[j] # None
  BY DEF TypeOK
<1> HIDE DEF new
<1>2. FilesOnDisk \in SUBSET Keys /\ k \in FilesOnDisk /\ S = FilesOnDisk \ {k}
  BY <1>1 DEF FilesOnDisk
<1> HIDE DEF S
<1>3. FileLen(files) \in [Keys -> Nat] /\ FileLen(files)[k] = Header + Size[files[k]]
  BY LenType, PageLen DEF TypeOK
<1>4. Bytes(FilesOnDisk \ {k}, FileLen(files))
       = Bytes(FilesOnDisk, FileLen(files)) - FileLen(files)[k]
  BY <1>2, <1>3, BytesRemove
<1>5. \A j \in S : FileLen(new)[j] = FileLen(files)[j]
  BY <1>1, <1>2, PageLen DEF TypeOK
<1>6. Bytes(S, FileLen(new)) = Bytes(S, FileLen(files))
  <2>1. S \in SUBSET Keys
    BY <1>2
  <2> QED BY <1>5, <2>1, BytesSame
<1>7. Bytes(S, FileLen(new)) = Bytes(FilesOnDisk, FileLen(files)) - (Header + Size[files[k]])
  BY <1>2, <1>3, <1>4, <1>6
<1> QED BY <1>7 DEF DiskUse, S, new

\* A page whose value changes while it is neither resident nor loading.
LEMMA CpuElsewhere ==
    ASSUME TypeOK, NEW k \in Keys, NEW new \in [Keys -> Values \cup {None}],
           \A j \in Keys : j # k => new[j] = catalog[j],
           NEW S \in SUBSET Keys, k \notin S
    PROVE  Bytes(S, PayloadLen(new)) = Bytes(S, PayloadLen(catalog))
<1>1. \A j \in S : PayloadLen(new)[j] = PayloadLen(catalog)[j]
  BY PageLen DEF TypeOK
<1> QED BY <1>1, BytesSame

\* The directory is what the constructor found.
LEMMA OpenBytes == ASSUME IInv, CpuExact, DiskExact, Open PROVE CpuExact' /\ DiskExact'
<1>1. /\ phase = "down" /\ phase' = "open" /\ diskBytes' = DiskUse /\ DiskUse =< DiskBudget
      /\ catalog' = files /\ UNCHANGED <<resident, cpuBytes, cpuReserved, loads, files>>
  BY DEF Open, Restorable, jobs
<1>2. /\ resident = {} /\ cpuBytes = 0 /\ cpuReserved = 0 /\ Loading = {}
  BY <1>1 DEF IInv, Consistent, DownClean, NoJobs, Loading
<1>3. PayloadLen(catalog') \in [Keys -> Nat]
  BY <1>1, LenType DEF IInv, TypeOK
<1>4. Bytes({}, PayloadLen(catalog')) = 0
  BY <1>3, BytesType
<1>5. Bytes(resident, PayloadLen(catalog))' = 0 /\ Bytes(Loading, PayloadLen(catalog))' = 0
  <2>1. resident' = {} /\ Loading' = {}
    BY <1>1, <1>2 DEF Loading
  <2> QED BY <1>4, <2>1 DEF Bytes, Cells, PayloadLen
<1>6. CpuExact'
  BY <1>1, <1>2, <1>5 DEF CpuExact
<1>7. DiskUse' = DiskUse
  BY <1>1 DEF DiskUse, FilesOnDisk, Bytes, Cells, FileLen, PayloadLen
<1> QED BY <1>1, <1>6, <1>7 DEF DiskExact

\* A crash inside _write_page may leave a file that no catalog knows, of a page
\* that fitted.
LEMMA CrashBytes == ASSUME IInv, CpuExact, DiskExact, Crash PROVE CpuExact' /\ DiskExact'
<1>1. Retire /\ phase # "down"
  BY DEF Crash
<1>2. CpuExact'
  BY <1>1, CpuRetired
<1>3. CASE UNCHANGED files
  BY <1>1, <1>2, <1>3, DiskRetired
<1>4. ASSUME NEW k \in Keys, Writing(k), files' = [files EXCEPT ![k] = catalog[k]]
      PROVE  DiskExact'
  <2>1. TypeOK /\ k \in resident \ backed /\ DiskFits(k) /\ files[k] = None /\ catalog[k] \in Values
    BY <1>1, <1>4 DEF IInv, Writing, NoPageLost, FilesOnDisk, Present, TypeOK
  <2>2. Bytes({j \in Keys : files'[j] # None}, FileLen(files'))
          = DiskUse + Header + Size[catalog[k]]
    BY <1>4, <2>1, DiskAdded
  <2>3. DiskUse' = DiskUse + Header + Size[catalog[k]]
    BY <2>2 DEF DiskUse, FilesOnDisk, Bytes, Cells, FileLen, PayloadLen
  <2>4. diskBytes = DiskUse /\ DiskUse \in Nat /\ Size[catalog[k]] \in Nat
    BY <1>1, <2>1, CountTypes DEF DiskExact
  <2>5. phase' = "down" /\ diskBytes' = 0
    BY <1>1 DEF Retire
  <2> QED BY <2>1, <2>3, <2>4, <2>5 DEF DiskExact, DiskFits, EncodedSize
<1> QED BY <1>2, <1>3, <1>4 DEF Crash

\* Files that an operator removes only make room.
LEMMA CleanupBytes ==
    ASSUME IInv, CpuExact, DiskExact, OperatorCleanup PROVE CpuExact' /\ DiskExact'
<1>1. CpuExact'
  BY CpuQuiet DEF OperatorCleanup, ram, bytes, jobs
<1> DEFINE new == [k \in Keys |-> IF k \in corrupt THEN None ELSE files[k]]
           S == {k \in Keys : new[k] # None}
<1>2. /\ phase = "down" /\ phase' = "down" /\ diskBytes' = diskBytes /\ files' = new
  BY DEF OperatorCleanup, ram, bytes
<1>3. /\ TypeOK /\ new \in [Keys -> Values \cup {None}]
      /\ \A k \in Keys : new[k] # None => new[k] = files[k]
  BY DEF IInv, TypeOK
<1> HIDE DEF new
<1>4. S \in SUBSET FilesOnDisk /\ FilesOnDisk \in SUBSET Keys
  BY <1>3 DEF FilesOnDisk
<1>5. \A k \in S : FileLen(new)[k] = FileLen(files)[k]
  BY <1>3, PageLen DEF TypeOK
<1> HIDE DEF S
<1>6. S \in SUBSET Keys
  BY <1>4
<1>7. Bytes(S, FileLen(new)) = Bytes(S, FileLen(files))
  BY <1>5, <1>6, BytesSame
<1>8. Bytes(S, FileLen(files)) =< DiskUse
  BY <1>3, <1>4, BytesFewer, CountTypes DEF DiskUse
<1>9. DiskUse' = Bytes(S, FileLen(new))
  BY <1>2 DEF DiskUse, FilesOnDisk, Bytes, Cells, FileLen, PayloadLen, S
<1>10. Bytes(S, FileLen(files)) \in Nat /\ DiskUse \in Nat
  BY <1>3, <1>6, LenType, BytesType, CountTypes DEF TypeOK
<1> QED BY <1>1, <1>2, <1>7, <1>8, <1>9, <1>10 DEF DiskExact

\* A page that is deleted is neither pinned nor in flight.
LEMMA DeleteBytes ==
    ASSUME IInv, CpuExact, DiskExact, NEW k \in Keys, Delete(k) PROVE CpuExact' /\ DiskExact'
<1> DEFINE new == [catalog EXCEPT ![k] = None]
           len == PayloadLen(catalog)
<1>1. /\ TypeOK /\ phase' = phase /\ phase = "open" /\ k \in Present
      /\ catalog' = new /\ resident' = resident \ {k}
      /\ cpuBytes' = IF k \in resident THEN cpuBytes - Size[catalog[k]] ELSE cpuBytes
      /\ UNCHANGED <<cpuReserved, loads>>
  BY DEF Delete, IInv, jobs, Available
<1>2. k \notin Loading /\ Loading' = Loading
  BY <1>1 DEF Delete, Loading, IInv, GuardsExact, InflightExact, Active, TypeOK
<1>3. new \in [Keys -> Values \cup {None}] /\ \A j \in Keys : j # k => new[j] = catalog[j]
  BY <1>1 DEF TypeOK
<1>4. /\ len \in [Keys -> Nat] /\ Loading \in SUBSET Keys /\ resident \in SUBSET Keys
      /\ len[k] = Size[catalog[k]] /\ Size[catalog[k]] \in Nat
  BY <1>1, CountTypes, PageLen DEF TypeOK, Present
<1> HIDE DEF new, len
<1>5. Bytes(Loading, PayloadLen(new)) = Bytes(Loading, len)
  BY <1>1, <1>2, <1>3, <1>4, CpuElsewhere DEF len
<1>6. Bytes(resident \ {k}, PayloadLen(new)) = Bytes(resident \ {k}, len)
  <2>1. resident \ {k} \in SUBSET Keys /\ k \notin resident \ {k}
    BY <1>4
  <2> QED BY <1>1, <1>3, <2>1, CpuElsewhere DEF len
<1>7. cpuBytes' = Bytes(resident \ {k}, len)
  <2>1. CASE k \in resident
    <3>1. Bytes(resident \ {k}, len) = Bytes(resident, len) - len[k]
      BY <1>4, <2>1, BytesRemove
    <3> QED BY <1>1, <1>4, <2>1, <3>1 DEF CpuExact, len
  <2>2. CASE k \notin resident
    <3>1. resident \ {k} = resident
      BY <2>2
    <3> QED BY <1>1, <2>2, <3>1 DEF CpuExact, len
  <2> QED BY <2>1, <2>2
<1>8. cpuBytes' =< cpuBytes /\ cpuBytes' \in Int /\ cpuBytes \in Int /\ cpuReserved \in Int
  BY <1>1, <1>4 DEF TypeOK
<1>9. CpuExact'
  <2>1. cpuBytes' = Bytes(resident, PayloadLen(catalog))'
    BY <1>1, <1>6, <1>7 DEF Bytes, Cells, PayloadLen
  <2>2. cpuReserved' = Bytes(Loading, PayloadLen(catalog))'
    <3>1. cpuReserved = Bytes(Loading, PayloadLen(new))
      BY <1>5 DEF CpuExact, len
    <3> QED BY <1>1, <1>2, <3>1 DEF Bytes, Cells, PayloadLen
  <2>3. cpuBytes' + cpuReserved' =< CpuBudget
    BY <1>1, <1>8 DEF CpuExact
  <2> QED BY <2>1, <2>2, <2>3 DEF CpuExact
<1>10. CASE k \in backed
  <2>1. /\ files' = [files EXCEPT ![k] = None] /\ diskBytes' = diskBytes - EncodedSize(k)
        /\ files[k] = catalog[k] /\ files[k] # None
    BY <1>1, <1>10 DEF Delete, Unlink, IInv, NoPageLost, Present
  <2>2. Bytes({j \in Keys : files'[j] # None}, FileLen(files'))
          = DiskUse - (Header + Size[files[k]])
    BY <1>1, <2>1, DiskRemoved
  <2>3. DiskUse' = DiskUse - (Header + Size[files[k]])
    BY <2>2 DEF DiskUse, FilesOnDisk, Bytes, Cells, FileLen, PayloadLen
  <2>4. DiskUse \in Nat /\ diskBytes = DiskUse
    BY <1>1, CountTypes DEF DiskExact
  <2> QED BY <1>1, <1>4, <1>9, <2>1, <2>3, <2>4 DEF DiskExact, EncodedSize
<1>11. CASE k \notin backed
  <2>1. UNCHANGED <<files, diskBytes>>
    BY <1>11 DEF Delete
  <2> QED BY <1>1, <1>9, <2>1, DiskQuiet
<1> QED BY <1>10, <1>11


\* A page that is put takes what _make_cpu_space made free for it.
LEMMA PutBytes == ASSUME IInv, CpuExact, DiskExact, FinishPut PROVE CpuExact' /\ DiskExact'
<1> DEFINE k == op.key
           new == [catalog EXCEPT ![k] = op.val]
           len == PayloadLen(new)
<1>1. /\ TypeOK /\ k \in Keys /\ op.val \in Values /\ op.need = Size[op.val]
      /\ k \notin resident /\ k \notin Loading /\ phase' = phase
      /\ catalog' = new /\ resident' = resident \cup {k}
      /\ cpuBytes' = cpuBytes + op.need /\ cpuBytes + cpuReserved + op.need =< CpuBudget
      /\ UNCHANGED <<cpuReserved, loads, files, diskBytes>>
  <2>1. /\ TypeOK /\ phase # "down" /\ k \in Keys \ Present
        /\ op.val \in Values /\ op.need = Size[op.val]
    BY DEF FinishPut, IInv, Consistent, CallConsistent
  <2>2. k \notin resident
    BY <2>1 DEF IInv, NoPageLost
  <2>3. k \notin Loading
    BY <2>1 DEF IInv, GuardsExact, InflightExact, Active, Loading, TypeOK
  <2> QED BY <2>1, <2>2, <2>3 DEF FinishPut, CpuFits, jobs, disk
<1>2. /\ new \in [Keys -> Values \cup {None}] /\ new[k] = op.val /\ new[k] # None
      /\ \A j \in Keys : j # k => new[j] = catalog[j]
  BY <1>1 DEF TypeOK
<1> HIDE DEF new, k
<1>3. /\ len \in [Keys -> Nat] /\ len[k] = op.need /\ op.need \in Nat
      /\ Loading \in SUBSET Keys /\ resident \in SUBSET Keys
  BY <1>1, <1>2, LenType, PageLen, CountTypes
<1> HIDE DEF len
<1>4. /\ Bytes(resident, len) = Bytes(resident, PayloadLen(catalog))
      /\ Bytes(Loading, len) = Bytes(Loading, PayloadLen(catalog))
  BY <1>1, <1>2, <1>3, CpuElsewhere DEF len
<1>5. Bytes(resident \cup {k}, len) = Bytes(resident, len) + len[k]
  BY <1>1, <1>3, BytesAdd
<1>6. Loading' = Loading
  BY <1>1 DEF Loading
<1>7. cpuBytes' = Bytes(resident, PayloadLen(catalog))'
  <2>1. cpuBytes' = Bytes(resident \cup {k}, len)
    BY <1>1, <1>3, <1>4, <1>5 DEF CpuExact
  <2> QED BY <1>1, <2>1 DEF Bytes, Cells, PayloadLen, len
<1>8. cpuReserved' = Bytes(Loading, PayloadLen(catalog))'
  <2>1. cpuReserved' = Bytes(Loading, len)
    BY <1>1, <1>4 DEF CpuExact
  <2> QED BY <1>1, <1>6, <2>1 DEF Bytes, Cells, PayloadLen, len
<1>9. cpuBytes' + cpuReserved' =< CpuBudget
  <2>1. cpuBytes \in Int /\ cpuReserved \in Int
    BY <1>1 DEF TypeOK
  <2> QED BY <1>1, <1>3, <2>1
<1> QED BY <1>1, <1>7, <1>8, <1>9, DiskQuiet DEF CpuExact

\* A load that is queued has its space reserved.
LEMMA SubmitBytes == ASSUME IInv, CpuExact, DiskExact, FinishSubmit PROVE CpuExact' /\ DiskExact'
<1> DEFINE k == op.key
           len == PayloadLen(catalog)
<1>1. /\ TypeOK /\ k \in Keys /\ k \in Present /\ op.need = Size[catalog[k]]
      /\ loads[k] = "idle" /\ loads' = [loads EXCEPT ![k] = "queued"] /\ phase' = phase
      /\ cpuReserved' = cpuReserved + op.need /\ cpuBytes + cpuReserved + op.need =< CpuBudget
      /\ UNCHANGED <<catalog, resident, cpuBytes, files, diskBytes>>
  <2>1. TypeOK /\ k \in Present \ resident /\ loads[k] = "idle" /\ op.need = Size[catalog[k]]
    BY DEF FinishSubmit, IInv, Consistent, CallConsistent
  <2> QED BY <2>1 DEF FinishSubmit, CpuFits, disk, Present
<1>2. k \notin Loading /\ Loading' = Loading \cup {k}
  BY <1>1 DEF Loading, TypeOK
<1> HIDE DEF k
<1>3. /\ len \in [Keys -> Nat] /\ len[k] = op.need /\ op.need \in Nat
      /\ Loading \in SUBSET Keys /\ resident \in SUBSET Keys
  BY <1>1, PageLen, CountTypes DEF TypeOK, Present
<1> HIDE DEF len
<1>4. Bytes(Loading \cup {k}, len) = Bytes(Loading, len) + len[k]
  BY <1>1, <1>2, <1>3, BytesAdd
<1>5. cpuBytes' = Bytes(resident, PayloadLen(catalog))'
  BY <1>1 DEF CpuExact, Bytes, Cells, PayloadLen
<1>6. cpuReserved' = Bytes(Loading, PayloadLen(catalog))'
  <2>1. cpuReserved' = Bytes(Loading \cup {k}, len)
    BY <1>1, <1>3, <1>4 DEF CpuExact, len
  <2> QED BY <1>1, <1>2, <2>1 DEF Bytes, Cells, PayloadLen, len
<1>7. cpuBytes' + cpuReserved' =< CpuBudget
  <2>1. cpuBytes \in Int /\ cpuReserved \in Int
    BY <1>1 DEF TypeOK
  <2> QED BY <1>1, <1>3, <2>1
<1> QED BY <1>1, <1>5, <1>6, <1>7, DiskQuiet DEF CpuExact

\* A load that ends takes what it had reserved, or gives it back.
LEMMA LoadBytes ==
    ASSUME IInv, CpuExact, DiskExact, NEW k \in Keys, LoadFinish(k) PROVE CpuExact' /\ DiskExact'
<1> DEFINE len == PayloadLen(catalog)
           size == Size[catalog[k]]
<1>1. /\ TypeOK /\ loads[k] = "done" /\ loads' = [loads EXCEPT ![k] = "idle"] /\ phase' = phase
      /\ cpuReserved' = cpuReserved - size
      /\ \/ resident' = resident \cup {k} /\ cpuBytes' = cpuBytes + size
         \/ UNCHANGED <<resident, cpuBytes>>
      /\ UNCHANGED <<catalog, files, diskBytes>>
  BY DEF LoadFinish, IInv, disk
<1>2. k \in Loading /\ Loading' = Loading \ {k}
  BY <1>1 DEF Loading, TypeOK
<1>3. k \notin resident /\ k \in Present
  BY <1>1 DEF IInv, GuardsExact, InflightExact, Active, TypeOK
<1>4. /\ len \in [Keys -> Nat] /\ len[k] = size /\ size \in Nat
      /\ Loading \in SUBSET Keys /\ resident \in SUBSET Keys
  BY <1>1, <1>3, PageLen, CountTypes DEF TypeOK, Present
<1> HIDE DEF len, size
<1>5. /\ Bytes(Loading \ {k}, len) = Bytes(Loading, len) - len[k]
      /\ Bytes(resident \cup {k}, len) = Bytes(resident, len) + len[k]
  <2>1. k \in Keys \ resident
    BY <1>3
  <2> QED BY <1>2, <1>4, <2>1, BytesAdd, BytesRemove
<1>6. cpuBytes' = Bytes(resident, PayloadLen(catalog))'
  <2>1. cpuBytes' = Bytes(resident', len)
    BY <1>1, <1>4, <1>5 DEF CpuExact, len
  <2> QED BY <1>1, <2>1 DEF Bytes, Cells, PayloadLen, len
<1>7. cpuReserved' = Bytes(Loading, PayloadLen(catalog))'
  <2>1. cpuReserved' = Bytes(Loading \ {k}, len)
    BY <1>1, <1>4, <1>5 DEF CpuExact, len
  <2> QED BY <1>1, <1>2, <2>1 DEF Bytes, Cells, PayloadLen, len
<1>8. cpuBytes' + cpuReserved' =< CpuBudget
  <2>1. cpuBytes \in Int /\ cpuReserved \in Int
    BY <1>1 DEF TypeOK
  <2> QED BY <1>1, <1>4, <2>1 DEF CpuExact
<1> QED BY <1>1, <1>6, <1>7, <1>8, DiskQuiet DEF CpuExact

\* A page that is evicted is in its file first.
LEMMA EvictBytes ==
    ASSUME IInv, CpuExact, DiskExact, EvictOne \/ EvictVictim PROVE CpuExact' /\ DiskExact'
<1>1. PICK k \in Victims : Spilled(k) /\ DropResident(k)
  BY DEF EvictOne, EvictVictim
<1>2. TypeOK /\ NoPageLost /\ phase # "down" /\ phase' = phase
  <2>1. op # NoOp => phase # "down"
    BY DEF IInv, Consistent, CallConsistent
  <2> QED BY <2>1 DEF EvictOne, EvictVictim, Available, IInv
<1>3. k \in resident /\ k \in Keys /\ k \in Present
  BY <1>2, VictimFree DEF NoPageLost
<1>4. UNCHANGED <<catalog, cpuReserved, loads>>
  BY DEF EvictOne, EvictVictim, jobs
<1>5. CpuExact'
  BY <1>1, <1>2, <1>3, <1>4, CpuDropped
<1>6. DiskExact'
  BY <1>1, <1>2, <1>3, DiskSpilled
<1> QED BY <1>5, <1>6

\* A worker's spill writes the page, or fails.
LEMMA SpillBytes ==
    ASSUME IInv, CpuExact, DiskExact, NEW k \in Keys, SpillRun(k) PROVE CpuExact' /\ DiskExact'
<1>1. TypeOK /\ NoPageLost /\ phase # "down" /\ phase' = phase
  BY DEF SpillRun, IInv, Consistent, DownClean, NoJobs
<1>2. UNCHANGED <<catalog, resident, cpuBytes, cpuReserved, loads>>
  BY DEF SpillRun
<1>3. CpuExact'
  BY <1>2, CpuQuiet
<1>4. CASE Spilled(k)
  BY <1>1, <1>3, <1>4, DiskSpilled
<1>5. CASE UNCHANGED <<files, backed, diskBytes>>
  BY <1>1, <1>3, <1>5, DiskQuiet
<1> QED BY <1>4, <1>5 DEF SpillRun

\* An orderly end leaves the directory as it is.
LEMMA CloseBytes == ASSUME IInv, CpuExact, DiskExact, CloseFinish PROVE CpuExact' /\ DiskExact'
BY CpuRetired, DiskRetired DEF CloseFinish

\* A step that moves no payload and no file.
LEMMA QuietBytes ==
    ASSUME CpuExact, DiskExact, UNCHANGED <<catalog, resident, bytes, files>>,
           \A k \in Keys : loads'[k] = "idle" <=> loads[k] = "idle",
           phase' # "down" => phase # "down"
    PROVE  CpuExact' /\ DiskExact'
BY CpuQuiet, DiskQuiet DEF bytes

\* Neither do a reader's steps.
LEMMA ReaderBytes ==
    ASSUME IInv, CpuExact, DiskExact, NEW c \in Clients, ClientStep(c)
    PROVE  CpuExact' /\ DiskExact'
<1>1. UNCHANGED <<phase, catalog, resident, bytes, loads, files>>
  <2>1. ASSUME NEW k \in Keys, Read(c, k)
       PROVE  UNCHANGED <<phase, catalog, resident, bytes, loads, files>>
    BY <2>1 DEF Read, SubmitLoad, jobs, disk
  <2>2. ASSUME NEW k \in Keys, Pin(c, k)
       PROVE  UNCHANGED <<phase, catalog, resident, bytes, loads, files>>
    BY <2>2 DEF Pin, jobs, disk
  <2>3. ASSUME PinnedRead(c) PROVE UNCHANGED <<phase, catalog, resident, bytes, loads, files>>
    BY <2>3 DEF PinnedRead, SubmitLoad, jobs, disk
  <2>4. ASSUME PinnedReadRefused(c) \/ Resume(c)
        PROVE  UNCHANGED <<phase, catalog, resident, bytes, loads, files>>
    BY <2>4 DEF PinnedReadRefused, Resume, ram, jobs, disk
  <2>5. ASSUME Leave(c) PROVE UNCHANGED <<phase, catalog, resident, bytes, loads, files>>
    BY <2>5 DEF Leave, jobs, disk
  <2> QED BY <2>1, <2>2, <2>3, <2>4, <2>5 DEF ClientStep
<1> QED BY <1>1, QuietBytes

\* Every step keeps both tiers exact and within their budgets.
LEMMA AccountingStep == IInv /\ Accounting /\ [Next]_vars => Accounting'
<1> SUFFICES ASSUME IInv, CpuExact, DiskExact, [Next]_vars PROVE CpuExact' /\ DiskExact'
  BY AccountingParts DEF Accounting, CountersExact, Bounded, CpuExact, DiskExact
<1>1. CASE \/ \E cancel \in BOOLEAN : Close(cancel)
           \/ \E k \in Keys : Damage(k) \/ PutAgain(k) \/ SubmitSpill(k) \/ SpillFinish(k)
           \/ \E k \in Keys, v \in Values : Put(k, v)
           \/ \E need \in 1 .. CpuBudget : Evict(need)
           \/ NoSpace \/ FinishEvict \/ UNCHANGED vars
  <2>1. UNCHANGED <<catalog, resident, bytes, files, loads>>
    BY <1>1 DEF Close, Damage, PutAgain, SubmitSpill, SpillFinish, Put, Evict, NoSpace,
       FinishEvict, Immutable, vars, ram, jobs, disk
  <2>2. phase' # "down" => phase # "down"
    BY <1>1 DEF Close, Damage, PutAgain, SubmitSpill, SpillFinish, Put, Evict, NoSpace,
       FinishEvict, vars
  <2> QED BY <2>1, <2>2, QuietBytes
<1>2. ASSUME NEW k \in Keys, LoadRead(k) PROVE CpuExact' /\ DiskExact'
  <2>1. /\ UNCHANGED <<phase, catalog, resident, bytes, files>>
        /\ loads[k] = "queued" /\ loads' = [loads EXCEPT ![k] = "done"]
    BY <1>2 DEF LoadRead, ram, disk
  <2>2. \A j \in Keys : loads'[j] = "idle" <=> loads[j] = "idle"
    BY <2>1 DEF IInv, TypeOK
  <2> QED BY <2>1, <2>2, QuietBytes
<1>3. CASE \/ Open \/ Crash \/ OperatorCleanup \/ CloseFinish \/ EvictOne \/ EvictVictim
           \/ FinishPut \/ FinishSubmit
  BY <1>3, OpenBytes, CrashBytes, CleanupBytes, CloseBytes, EvictBytes, PutBytes, SubmitBytes
<1>4. CASE \/ \E k \in Keys : Delete(k) \/ LoadFinish(k) \/ SpillRun(k)
           \/ \E c \in Clients : ClientStep(c)
  BY <1>4, DeleteBytes, LoadBytes, SpillBytes, ReaderBytes
<1> QED BY <1>1, <1>2, <1>3, <1>4 DEF Next, Worker, Mutex

\* An empty store takes nothing.
LEMMA AccountingInit == Init => Accounting
<1> SUFFICES ASSUME Init PROVE Accounting
  OBVIOUS
<1>1. /\ phase = "down" /\ cpuBytes = 0 /\ cpuReserved = 0 /\ diskBytes = 0
      /\ resident = {} /\ Loading = {} /\ FilesOnDisk = {}
      /\ PayloadLen(catalog) \in [Keys -> Nat] /\ FileLen(files) \in [Keys -> Nat]
  <2>1. catalog \in [Keys -> Values \cup {None}] /\ files \in [Keys -> Values \cup {None}]
    BY DEF Init
  <2> QED BY <2>1, LenType DEF Init, Loading, FilesOnDisk
<1>2. DiskUse = 0 /\ Bytes({}, PayloadLen(catalog)) = 0
  BY <1>1, BytesType DEF DiskUse
<1> QED BY <1>1, <1>2 DEF Accounting, CountersExact, Bounded

-----------------------------------------------------------------------------
(* The store implements the abstract catalog                                *)

\* What the store's state means to a caller.
Content == IF phase = "down" THEN files ELSE catalog
Safe == {k \in Keys : durable[k] # None}

\* A step that a caller cannot see.
LEMMA Unseen ==
    ASSUME UNCHANGED durable, Content' = Content
    PROVE  UNCHANGED Catalog!vars
BY DEF Catalog!vars, Content

\* The constructor makes its catalog of the files.
LEMMA OpenUnseen == ASSUME Open PROVE UNCHANGED Catalog!vars
<1>1. phase = "down" /\ phase' = "open" /\ catalog' = files /\ UNCHANGED durable
  BY DEF Open
<1> QED BY <1>1, Unseen DEF Content

\* A process that ends keeps the pages that have files, with every page that was
\* acknowledged among them.
LEMMA EndRestarts ==
    ASSUME IInv, phase # "down", phase' = "down", UNCHANGED durable,
           files' \in [Keys -> Values \cup {None}],
           \A k \in Keys : files'[k] # files[k] => files'[k] = catalog[k] /\ files[k] = None
    PROVE  \E kept \in SUBSET Keys : Catalog!Restart(kept)
<1> DEFINE kept == {k \in Keys : files'[k] # None}
<1>1. Safe \subseteq kept
  <2> SUFFICES ASSUME NEW k \in Keys, durable[k] # None PROVE files'[k] # None
    BY DEF Safe
  <2>1. files[k] = durable[k]
    BY DEF IInv, DurableKept
  <2> QED BY <2>1
<1>2. \A k \in Keys : files[k] # None => files[k] = catalog[k]
  BY DEF IInv, NoPageLost, FilesOnDisk
<1>3. \A k \in Keys : files'[k] = IF k \in kept THEN catalog[k] ELSE None
  BY <1>2
<1>4. files' = [k \in Keys |-> IF k \in kept THEN catalog[k] ELSE None]
  BY <1>3
<1>5. Catalog!Restart(kept)
  BY <1>1, <1>4 DEF Catalog!Restart, Safe
<1> QED BY <1>5

LEMMA CrashRestarts == ASSUME IInv, Crash PROVE \E kept \in SUBSET Keys : Catalog!Restart(kept)
<1>1. phase # "down" /\ phase' = "down" /\ UNCHANGED durable
  BY DEF Crash, Retire
<1>2. CASE UNCHANGED files
  BY <1>1, <1>2, EndRestarts DEF IInv, TypeOK
<1>3. ASSUME NEW k \in Keys, Writing(k), files' = [files EXCEPT ![k] = catalog[k]]
      PROVE  \E kept \in SUBSET Keys : Catalog!Restart(kept)
  <2>1. files \in [Keys -> Values \cup {None}] /\ catalog[k] \in Values \cup {None}
    BY DEF IInv, TypeOK
  <2>2. files[k] = None
    BY <1>1, <1>3 DEF Writing, IInv, NoPageLost, FilesOnDisk
  <2>3. /\ files' \in [Keys -> Values \cup {None}]
        /\ \A j \in Keys : files'[j] = IF j = k THEN catalog[k] ELSE files[j]
    BY <1>3, <2>1
  <2>4. \A j \in Keys : files'[j] # files[j] => files'[j] = catalog[j] /\ files[j] = None
    BY <2>2, <2>3
  <2> QED BY <1>1, <2>3, <2>4, EndRestarts
<1> QED BY <1>2, <1>3 DEF Crash

LEMMA CloseRestarts ==
    ASSUME IInv, CloseFinish PROVE \E kept \in SUBSET Keys : Catalog!Restart(kept)
<1>1. phase # "down" /\ phase' = "down" /\ UNCHANGED <<durable, files>>
  BY DEF CloseFinish, Retire
<1> QED BY <1>1, EndRestarts DEF IInv, TypeOK

\* An operator's cleanup takes what no longer verifies out of both.
LEMMA CleanupRepairs ==
    ASSUME IInv, OperatorCleanup PROVE \E lost \in SUBSET Keys : Catalog!Repair(lost)
<1>1. corrupt \in SUBSET Keys /\ durable \in [Keys -> Values \cup {None}]
  BY DEF IInv, TypeOK
<1>2. PICK lost \in SUBSET Keys : lost = corrupt
  BY <1>1
<1>3. /\ phase = "down" /\ phase' = "down"
      /\ files' = [k \in Keys |-> IF k \in lost THEN None ELSE files[k]]
      /\ durable' = [k \in Keys |-> IF k \in lost THEN None ELSE durable[k]]
  BY <1>2 DEF OperatorCleanup
<1>4. {k \in Keys : durable'[k] # None} = {k \in Keys : durable[k] # None} \ lost
  BY <1>3
<1>5. Catalog!Repair(lost)
  BY <1>3, <1>4 DEF Catalog!Repair
<1> QED BY <1>5

LEMMA DeleteDeletes == ASSUME IInv, NEW k \in Keys, Delete(k) PROVE Catalog!Delete(k)
<1>1. /\ phase = "open" /\ phase' = "open" /\ catalog[k] # None
      /\ catalog' = [catalog EXCEPT ![k] = None] /\ durable' = [durable EXCEPT ![k] = None]
      /\ durable \in [Keys -> Values \cup {None}]
  BY DEF Delete, Available, Present, IInv, TypeOK
<1>2. {j \in Keys : durable'[j] # None} = {j \in Keys : durable[j] # None} \ {k}
  BY <1>1
<1> QED BY <1>1, <1>2 DEF Catalog!Delete, Catalog!Stored

LEMMA PutPuts == ASSUME IInv, FinishPut PROVE \E k \in Keys, v \in Values : Catalog!Put(k, v)
<1>1. phase = "open" /\ op.key \in Keys /\ op.key \notin Present /\ op.val \in Values
  BY DEF FinishPut, IInv, Consistent, CallConsistent
<1>2. phase' = phase /\ catalog' = [catalog EXCEPT ![op.key] = op.val] /\ UNCHANGED durable
  BY DEF FinishPut
<1>3. Catalog!Put(op.key, op.val)
  BY <1>1, <1>2 DEF Catalog!Put, Present
<1> QED BY <1>1, <1>3

\* The end of a spill acknowledges the page, or says nothing.
LEMMA SpillAcknowledges ==
    ASSUME IInv, NEW k \in Keys, SpillFinish(k)
    PROVE  Catalog!Acknowledge(k) \/ UNCHANGED Catalog!vars
<1>1. /\ phase' = phase /\ UNCHANGED <<catalog, files>>
      /\ durable' = IF Acknowledged(k) THEN [durable EXCEPT ![k] = catalog[k]] ELSE durable
      /\ durable \in [Keys -> Values \cup {None}]
  BY DEF SpillFinish, disk, IInv, TypeOK
<1>2. phase # "down"
  BY DEF SpillFinish, IInv, Consistent, DownClean, NoJobs
<1>3. CASE Acknowledged(k)
  <2>1. catalog[k] # None
    <3>1. k \in backed
      BY <1>3 DEF Acknowledged, IInv, Consistent, JobsConsistent
    <3> QED BY <1>2, <3>1 DEF IInv, NoPageLost, Present
  <2>2. {j \in Keys : durable'[j] # None} = {j \in Keys : durable[j] # None} \cup {k}
    BY <1>1, <1>3, <2>1
  <2> QED BY <1>1, <1>2, <2>1, <2>2 DEF Catalog!Acknowledge, Catalog!Stored
<1>4. CASE ~Acknowledged(k)
  BY <1>1, <1>4, Unseen DEF Content
<1> QED BY <1>3, <1>4

\* Whatever moves pages between the tiers, or a reader, is unseen.
LEMMA TiersUnseen ==
    ASSUME IInv, UNCHANGED <<catalog, durable>>,
           \/ phase # "down" /\ phase' # "down"
           \/ UNCHANGED <<phase, files>>
    PROVE  UNCHANGED Catalog!vars
BY Unseen DEF Content

\* Every step of the store is a step of the catalog, or unseen.
LEMMA StepImplements == IInv /\ [Next]_vars => [Catalog!Next]_Catalog!vars
<1> SUFFICES ASSUME IInv, [Next]_vars PROVE Catalog!Next \/ UNCHANGED Catalog!vars
  OBVIOUS
<1>1. CASE Open
  BY <1>1, OpenUnseen
<1>2. CASE Crash \/ CloseFinish \/ OperatorCleanup
  BY <1>2, CrashRestarts, CloseRestarts, CleanupRepairs DEF Catalog!Next
<1>3. CASE FinishPut \/ \E k \in Keys : Delete(k) \/ SpillFinish(k)
  BY <1>3, PutPuts, DeleteDeletes, SpillAcknowledges DEF Catalog!Next
<1>4. CASE \/ \E cancel \in BOOLEAN : Close(cancel)
           \/ \E k \in Keys : Damage(k) \/ PutAgain(k) \/ SubmitSpill(k)
           \/ \E k \in Keys : LoadRead(k) \/ LoadFinish(k)
           \/ \E k \in Keys, v \in Values : Put(k, v)
           \/ \E need \in 1 .. CpuBudget : Evict(need)
           \/ NoSpace \/ FinishEvict \/ FinishSubmit
  <2>1. UNCHANGED <<catalog, durable>>
    BY <1>4 DEF Close, Damage, PutAgain, SubmitSpill, LoadRead, LoadFinish, Put, Evict, NoSpace,
       FinishEvict, FinishSubmit, Immutable, ram
  <2>2. \/ phase # "down" /\ phase' # "down"
        \/ UNCHANGED <<phase, files>>
    BY <1>4 DEF Close, Damage, PutAgain, SubmitSpill, LoadRead, LoadFinish, Put, Evict, NoSpace,
       FinishEvict, FinishSubmit, disk
  <2> QED BY <2>1, <2>2, TiersUnseen
<1>5. CASE EvictOne \/ EvictVictim \/ \E k \in Keys : SpillRun(k)
  <2>1. UNCHANGED <<catalog, durable, phase>>
    BY <1>5 DEF EvictOne, EvictVictim, SpillRun
  <2>2. phase # "down"
    BY <1>5 DEF EvictOne, EvictVictim, SpillRun, Available, IInv, Consistent, CallConsistent,
       DownClean, NoJobs
  <2> QED BY <2>1, <2>2, TiersUnseen
<1>6. ASSUME NEW c \in Clients, ClientStep(c) PROVE UNCHANGED Catalog!vars
  <2>1. ASSUME NEW k \in Keys, Read(c, k) PROVE UNCHANGED <<catalog, durable, phase, files>>
    BY <2>1 DEF Read, SubmitLoad, disk
  <2>2. ASSUME NEW k \in Keys, Pin(c, k) PROVE UNCHANGED <<catalog, durable, phase, files>>
    BY <2>2 DEF Pin, disk
  <2>3. ASSUME PinnedRead(c) PROVE UNCHANGED <<catalog, durable, phase, files>>
    BY <2>3 DEF PinnedRead, SubmitLoad, disk
  <2>4. ASSUME PinnedReadRefused(c) \/ Resume(c) PROVE UNCHANGED <<catalog, durable, phase, files>>
    BY <2>4 DEF PinnedReadRefused, Resume, ram, disk
  <2>5. ASSUME Leave(c) PROVE UNCHANGED <<catalog, durable, phase, files>>
    BY <2>5 DEF Leave, disk
  <2>6. UNCHANGED <<catalog, durable, phase, files>>
    BY <1>6, <2>1, <2>2, <2>3, <2>4, <2>5 DEF ClientStep
  <2> QED BY <2>6, TiersUnseen
<1>7. CASE UNCHANGED vars
  <2>1. UNCHANGED <<catalog, durable, phase, files>>
    BY <1>7 DEF vars, ram, disk
  <2> QED BY <2>1, TiersUnseen
<1> QED BY <1>1, <1>2, <1>3, <1>4, <1>5, <1>6, <1>7 DEF Next, Worker, Mutex

\* An empty store is an empty catalog.
LEMMA InitImplements == Init => Catalog!Init
<1> SUFFICES ASSUME Init PROVE Catalog!Init
  OBVIOUS
<1>1. phase = "down" /\ files = [k \in Keys |-> None] /\ durable = [k \in Keys |-> None]
  BY DEF Init
<1> QED BY <1>1 DEF Catalog!Init

-----------------------------------------------------------------------------
(* The theorems                                                              *)

THEOREM Invariance == Spec => []IInv
BY InitInv, StepInv, PTL DEF Spec

\* Every variable keeps its type: no count of pins or jobs goes below zero.
THEOREM StoreTypeOK == Spec => []TypeOK
<1>1. IInv => TypeOK
  BY DEF IInv
<1> QED BY <1>1, Invariance, PTL

\* The store never loses a catalogued page: in RAM or in a file of its value.
THEOREM StoreNoPageLost == Spec => []NoPageLost
<1>1. IInv => NoPageLost
  BY DEF IInv
<1> QED BY <1>1, Invariance, PTL

\* A pinned page is neither deleted nor evicted under its reader.
THEOREM StorePinProtects == Spec => []PinProtects
<1>1. IInv => PinProtects
  BY DEF IInv
<1> QED BY <1>1, Invariance, PTL

\* pins and inflight are exactly the pins held and the jobs running.
THEOREM StoreGuardsExact == Spec => []GuardsExact
<1>1. IInv => GuardsExact
  BY DEF IInv
<1> QED BY <1>1, Invariance, PTL

\* An acknowledged spill survives every crash, restart and eviction.
THEOREM StoreDurableKept == Spec => []DurableKept
<1>1. IInv => DurableKept
  BY DEF IInv
<1> QED BY <1>1, Invariance, PTL

\* Whatever holds the mutex, whatever runs without it: the parts agree.
THEOREM StoreConsistent == Spec => []Consistent
<1>1. IInv => Consistent
  BY DEF IInv
<1> QED BY <1>1, Invariance, PTL

\* The three counters are the bytes that they claim to count, and the payloads in
\* RAM with the reserved space, and the files, stay within the budgets
\* (storage.py:_make_cpu_space, submit_load, _spill_sync, delete): for any keys,
\* sizes, readers, orders of jobs, failures and restarts.
THEOREM StoreAccounting == Spec => []Accounting
BY AccountingInit, AccountingStep, Invariance, PTL DEF Spec

\* The store is a catalog of immutable values whose acknowledged ones survive
\* (storage.py:TieredPageStore): eviction, loads, pins, spills, failures and budgets
\* are unseen, whatever the keys, the sizes and the readers.
THEOREM StoreImplementsCatalog == Spec => ImplementsCatalog
<1>1. Init => Catalog!Init
  BY InitImplements
<1>2. IInv /\ [Next]_vars => [Catalog!Next]_Catalog!vars
  BY StepImplements
<1> QED BY <1>1, <1>2, Invariance, PTL DEF Spec, ImplementsCatalog, Catalog!Spec
=============================================================================
