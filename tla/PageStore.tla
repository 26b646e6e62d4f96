------------------------------ MODULE PageStore ------------------------------
(***************************************************************************)
(* TieredPageStore of storage.py: immutable pages in a RAM tier and a disk *)
(* tier under two byte budgets, with asynchronous loads and spills.        *)
(*                                                                         *)
(* A step that holds the store's mutex is one action, except the eviction  *)
(* loop of _make_cpu_space: it holds the mutex too, but every victim is a  *)
(* step of its own (`op' is the call that holds the mutex meanwhile), for  *)
(* a disk read of a worker, damage to a file or a crash can fall between   *)
(* two victims, and a failing victim leaves the earlier ones evicted.      *)
(*                                                                         *)
(* A Value stands for a payload together with its selected_count; the      *)
(* uuid generation of a page is left out, as the store never has two       *)
(* generations of a key.                                                   *)
(*                                                                         *)
(* A definition named ...Fault is the one after it with a plausible        *)
(* mistake; no specification uses it.  Replacing the definition by it must *)
(* break the property PROJECT.json names.                                  *)
(***************************************************************************)
EXTENDS Integers, FiniteSets

CONSTANTS
    Keys, Values, Clients,
    None,           \* no value, no page, no call
    Size,           \* [Values -> Nat]: len(payload)
    Selected,       \* [Values -> Nat]: selected_count
    Header,         \* len(_encode_header(page))
    CpuBudget, DiskBudget

ASSUME NoneAssumption == None \notin Values \cup Keys \cup Clients
ASSUME SizeAssumption == /\ Size \in [Values -> Nat]
                         /\ Selected \in [Values -> Nat]
ASSUME FiniteAssumption == IsFiniteSet(Keys) /\ IsFiniteSet(Clients)
ASSUME BudgetAssumption == CpuBudget \in Nat /\ DiskBudget \in Nat /\ Header \in Nat

VARIABLES
    phase,          \* "down", "open", "closing" (_closing), "cancelled" (_closed, epoch moved)
    lock,           \* .writer.lock exists
    pending,        \* a .pending-* file exists after a crash
    files,          \* [Keys -> value in the published .page file, or None]
    corrupt,        \* keys whose .page file no longer verifies
    catalog,        \* _pages: [Keys -> the page's immutable value, or None]
    resident,       \* keys with page.payload is not None
    backed,         \* keys with page.path is not None
    recency,        \* pairs <<p, q>>: p.last_access < q.last_access
    cpuBytes, cpuReserved, diskBytes,
    pins,           \* page.pins
    inflight,       \* page.inflight
    loads,          \* _loads: the job of each key
    fetched,        \* what the job of each key read from disk, None when it failed
    spills,         \* _spills: the job of each key
    op,             \* the call holding the mutex inside _make_cpu_space
    client,         \* the threads that read pages
    durable         \* history: the value a finished spill acknowledged, or None

bytes == <<cpuBytes, cpuReserved, diskBytes>>
guards == <<pins, inflight>>
ram == <<catalog, resident, backed, recency, bytes, guards>>
jobs == <<loads, fetched, spills>>
disk == <<files, corrupt, pending, lock>>
vars == <<phase, ram, jobs, disk, op, client, durable>>

Present == {k \in Keys : catalog[k] # None}
EncodedSize(k) == Header + Size[catalog[k]]

NoOp == [kind |-> "none", key |-> None, val |-> None, need |-> 0, client |-> None]
Idle == [at |-> "idle", key |-> None, pinned |-> FALSE, val |-> None]

\* The mutex is free and _check_open passes.
Available == phase = "open" /\ op = NoOp

-----------------------------------------------------------------------------
(* Recency: _next_tick() given to one page makes it the most recent.        *)

Touch(r, k) == {p \in r : p[1] # k} \cup {<<q, k>> : q \in Present \ {k}}
Forget(r, k) == {p \in r : k \notin {p[1], p[2]}}

-----------------------------------------------------------------------------
(* _candidates and _spill_sync                                              *)

EvictableFault(k) == k \in resident /\ inflight[k] = 0
Evictable(k) == k \in resident /\ pins[k] = 0 /\ inflight[k] = 0
Candidates == {k \in Keys : Evictable(k) /\ k # op.key}

\* The sort key of _candidates: unselected pages first, then the most
\* selected, then the least recently used.
Rank(k) == LET n == Selected[catalog[k]] IN IF n > 0 THEN <<1, -n>> ELSE <<0, 0>>
Before(p, q) ==
    \/ Rank(p)[1] < Rank(q)[1]
    \/ Rank(p)[1] = Rank(q)[1] /\ Rank(p)[2] < Rank(q)[2]
    \/ Rank(p) = Rank(q) /\ <<p, q>> \in recency

Victims == {p \in Candidates : \A q \in Candidates \ {p} : Before(p, q)}

CpuFitsFault(need) == cpuBytes + need =< CpuBudget
CpuFits(need) == cpuBytes + cpuReserved + need =< CpuBudget
DiskFits(k) == diskBytes + EncodedSize(k) =< DiskBudget
BackingVerifies(k) == files[k] = catalog[k] /\ k \notin corrupt

SpilledFault(k) == UNCHANGED <<files, backed, diskBytes>>

\* _spill_sync returns: the backing copy verifies, or the page was written.
Spilled(k) ==
    \/ /\ k \in backed
       /\ BackingVerifies(k)
       /\ UNCHANGED <<files, backed, diskBytes>>
    \/ /\ k \in resident \ backed
       /\ DiskFits(k)
       /\ files' = [files EXCEPT ![k] = catalog[k]]
       /\ backed' = backed \cup {k}
       /\ diskBytes' = diskBytes + EncodedSize(k)

\* _spill_sync raises.  An unbacked page can always fail: on the disk budget
\* or, after the temporary file is removed again, on an I/O error.
SpillRaises(k) == IF k \in backed THEN ~BackingVerifies(k) ELSE TRUE

-----------------------------------------------------------------------------
(* __init__, close, crashes and what happens to the directory meanwhile     *)

FilesOnDisk == {k \in Keys : files[k] # None}

\* The bytes that the keys of S take, len[k] each: as many as there are cells.
Cells(S, len) == UNION {{k} \X (1 .. len[k]) : k \in S}
Bytes(S, len) == Cardinality(Cells(S, len))

PayloadLen(val) == [k \in Keys |-> IF val[k] = None THEN 0 ELSE Size[val[k]]]
FileLen(val) == [k \in Keys |-> Header + PayloadLen(val)[k]]
DiskUse == Bytes(FilesOnDisk, FileLen(files))

\* Every order that the sorted file names can give the keys of S.
TotalOrders(S) ==
    {r \in SUBSET (S \X S) :
        /\ \A p \in S : <<p, p>> \notin r
        /\ \A p, q \in S : p # q => (<<p, q>> \in r <=> <<q, p>> \notin r)
        /\ \A p, q, s \in S : <<p, q>> \in r /\ <<q, s>> \in r => <<p, s>> \in r}

Init ==
    /\ phase = "down" /\ lock = FALSE /\ pending = FALSE
    /\ files = [k \in Keys |-> None] /\ corrupt = {}
    /\ catalog = [k \in Keys |-> None]
    /\ resident = {} /\ backed = {} /\ recency = {}
    /\ cpuBytes = 0 /\ cpuReserved = 0 /\ diskBytes = 0
    /\ pins = [k \in Keys |-> 0] /\ inflight = [k \in Keys |-> 0]
    /\ fetched = [k \in Keys |-> None]
    /\ loads = [k \in Keys |-> "idle"] /\ spills = [k \in Keys |-> "idle"]
    /\ op = NoOp
    /\ client = [c \in Clients |-> Idle]
    /\ durable = [k \in Keys |-> None]

\* The constructor; when a check fails it raises and removes its own lock.
Restorable == ~pending /\ corrupt = {} /\ DiskUse =< DiskBudget

Open ==
    /\ phase = "down" /\ ~lock
    /\ Restorable
    /\ phase' = "open" /\ lock' = TRUE
    /\ catalog' = files
    /\ backed' = FilesOnDisk
    /\ recency' \in TotalOrders(FilesOnDisk)
    /\ diskBytes' = DiskUse
    /\ UNCHANGED <<resident, cpuBytes, cpuReserved, guards, jobs, files, corrupt, pending,
                   op, client, durable>>

\* The object is gone, with everything it kept in memory.
Retire ==
    /\ phase' = "down"
    /\ catalog' = [k \in Keys |-> None]
    /\ resident' = {} /\ backed' = {} /\ recency' = {}
    /\ cpuBytes' = 0 /\ cpuReserved' = 0 /\ diskBytes' = 0
    /\ pins' = [k \in Keys |-> 0] /\ inflight' = [k \in Keys |-> 0]
    /\ fetched' = [k \in Keys |-> None]
    /\ loads' = [k \in Keys |-> "idle"] /\ spills' = [k \in Keys |-> "idle"]
    /\ op' = NoOp

\* The call that holds the mutex, or a spill worker, is inside _write_page.
Writing(k) == /\ k \in resident \ backed
              /\ DiskFits(k)
              /\ \/ k \in Victims /\ IF op = NoOp THEN phase = "open" ELSE ~CpuFits(op.need)
                 \/ op = NoOp /\ spills[k] = "queued" /\ phase \in {"open", "closing"}

\* The process dies.  In _write_page it leaves the temporary file or, after
\* os.replace, a published file that no catalog recorded.
Crash ==
    /\ phase # "down"
    /\ Retire
    /\ client' = [c \in Clients |-> Idle]
    /\ \/ UNCHANGED <<files, pending>>
       \/ /\ \E k \in Keys : Writing(k)
          /\ pending' = TRUE
          /\ UNCHANGED files
       \/ \E k \in Keys : /\ Writing(k)
                          /\ files' = [files EXCEPT ![k] = catalog[k]]
                          /\ UNCHANGED pending
    /\ UNCHANGED <<lock, corrupt, durable>>

\* External: the explicit cleanup of a stale lock, of unfinished writes and of
\* files that do not verify, which the constructor's errors ask for.
OperatorCleanup ==
    /\ phase = "down"
    /\ lock \/ pending \/ corrupt # {}
    /\ lock' = FALSE /\ pending' = FALSE /\ corrupt' = {}
    /\ files' = [k \in Keys |-> IF k \in corrupt THEN None ELSE files[k]]
    /\ durable' = [k \in Keys |-> IF k \in corrupt THEN None ELSE durable[k]]
    /\ UNCHANGED <<phase, ram, jobs, op, client>>

\* External: a published file is damaged.
Damage(k) == /\ files[k] # None /\ k \notin corrupt
             /\ corrupt' = corrupt \cup {k}
             /\ UNCHANGED <<phase, ram, jobs, files, pending, lock, op, client, durable>>

\* close(cancel_pending): its first critical section.
Close(cancel) ==
    /\ op = NoOp
    /\ IF cancel THEN phase \in {"open", "closing"} ELSE phase = "open"
    /\ phase' = IF cancel THEN "cancelled" ELSE "closing"
    /\ UNCHANGED <<ram, jobs, disk, op, client, durable>>

NoJobs == \A k \in Keys : loads[k] = "idle" /\ spills[k] = "idle"

\* close: the executor has drained, the lock is released.  A reader keeps the
\* bytes it was given; its pin belonged to the retired object.
CloseFinish ==
    /\ phase \in {"closing", "cancelled"} /\ op = NoOp
    /\ NoJobs
    /\ Retire
    /\ lock' = FALSE
    /\ client' = [c \in Clients |-> IF client[c].at \in {"settled", "using"}
                                    THEN [client[c] EXCEPT !.pinned = FALSE]
                                    ELSE Idle]
    /\ UNCHANGED <<files, corrupt, pending, durable>>

-----------------------------------------------------------------------------
(* put, evict and delete                                                    *)


Put(k, v) ==
    /\ Available
    /\ k \notin Present
    /\ Size[v] =< CpuBudget
    /\ op' = [NoOp EXCEPT !.kind = "put", !.key = k, !.val = v, !.need = Size[v]]
    /\ UNCHANGED <<phase, ram, jobs, disk, client, durable>>

Immutable(k) == UNCHANGED catalog

\* put of a key that is there: the same data is a touch, provided the copy the
\* store would serve verifies; other data raises and changes nothing.
PutAgain(k) ==
    /\ Available
    /\ k \in Present
    /\ k \in resident \/ (k \in backed /\ BackingVerifies(k))
    /\ Immutable(k)
    /\ recency' = Touch(recency, k)
    /\ UNCHANGED <<phase, resident, backed, bytes, guards, jobs, disk, op, client, durable>>

\* evict(required_bytes) with required_bytes > 0
Evict(need) ==
    /\ Available
    /\ op' = [NoOp EXCEPT !.kind = "evict", !.need = need]
    /\ UNCHANGED <<phase, ram, jobs, disk, client, durable>>

\* Publication precedes resident removal, including for clean pages.
DropResident(k) == /\ resident' = resident \ {k}
                   /\ cpuBytes' = cpuBytes - Size[catalog[k]]

\* evict(0): exactly one page
EvictOne ==
    /\ Available
    /\ \E k \in Victims : Spilled(k) /\ DropResident(k)
    /\ UNCHANGED <<phase, catalog, recency, cpuReserved, guards, jobs, corrupt, pending,
                   lock, op, client, durable>>

UnlinkFault(k) == UNCHANGED <<files, corrupt>>
Unlink(k) == /\ files' = [files EXCEPT ![k] = None]
             /\ corrupt' = corrupt \ {k}

Delete(k) ==
    /\ Available
    /\ k \in Present
    /\ pins[k] = 0 /\ inflight[k] = 0
    /\ catalog' = [catalog EXCEPT ![k] = None]
    /\ IF k \in backed
       THEN /\ Unlink(k)
            /\ diskBytes' = diskBytes - EncodedSize(k)
       ELSE UNCHANGED <<files, corrupt, diskBytes>>
    /\ cpuBytes' = IF k \in resident THEN cpuBytes - Size[catalog[k]] ELSE cpuBytes
    /\ resident' = resident \ {k}
    /\ backed' = backed \ {k}
    /\ recency' = Forget(recency, k)
    /\ durable' = [durable EXCEPT ![k] = None]
    /\ UNCHANGED <<phase, cpuReserved, guards, jobs, pending, lock, op, client>>

-----------------------------------------------------------------------------
(* _make_cpu_space: one victim per step, until the call fits or raises      *)

EvictVictim ==
    /\ op # NoOp
    /\ ~CpuFits(op.need)
    /\ \E k \in Victims : Spilled(k) /\ DropResident(k)
    /\ UNCHANGED <<phase, catalog, recency, cpuReserved, guards, jobs, corrupt, pending,
                   lock, op, client, durable>>

FailedFault(c) == Idle

\* A reader whose read raised: a pin it holds is still to be dropped.
Failed(c) == IF client[c].pinned THEN [client[c] EXCEPT !.at = "leaving", !.val = None]
             ELSE Idle

\* Every candidate is gone, or the next victim could not be spilled.
SpaceDeniedFault == Victims = {}
SpaceDenied == Victims = {} \/ \E k \in Victims : SpillRaises(k)

NoSpace ==
    /\ op # NoOp
    /\ ~CpuFits(op.need)
    /\ SpaceDenied
    /\ op' = NoOp
    /\ client' = IF op.kind = "load" THEN [client EXCEPT ![op.client] = Failed(op.client)]
                 ELSE client
    /\ UNCHANGED <<phase, ram, jobs, disk, durable>>

FinishPut ==
    /\ op.kind = "put"
    /\ CpuFits(op.need)
    /\ catalog' = [catalog EXCEPT ![op.key] = op.val]
    /\ resident' = resident \cup {op.key}
    /\ cpuBytes' = cpuBytes + op.need
    /\ recency' = Touch(recency, op.key)
    /\ op' = NoOp
    /\ UNCHANGED <<phase, backed, cpuReserved, diskBytes, guards, jobs, disk, client,
                   durable>>

FinishEvict ==
    /\ op.kind = "evict"
    /\ CpuFits(op.need)
    /\ op' = NoOp
    /\ UNCHANGED <<phase, ram, jobs, disk, client, durable>>

\* submit_load once the space is reserved: the job is queued.
FinishSubmit ==
    /\ op.kind = "load"
    /\ CpuFits(op.need)
    /\ cpuReserved' = cpuReserved + op.need
    /\ inflight' = [inflight EXCEPT ![op.key] = @ + 1]
    /\ loads' = [loads EXCEPT ![op.key] = "queued"]
    /\ client' = [client EXCEPT ![op.client].at = "waiting"]
    /\ op' = NoOp
    /\ UNCHANGED <<phase, catalog, resident, backed, recency, cpuBytes, diskBytes, pins,
                   fetched, spills, disk, durable>>

-----------------------------------------------------------------------------
(* submit_load, read and pin, by the reading threads                        *)

\* submit_load(k) by c up to its first early return, or up to _make_cpu_space.
SubmitLoad(c, k, pinned) ==
    /\ recency' = Touch(recency, k)
    /\ LET me(at, v) == [client EXCEPT ![c] = [at |-> at, key |-> k, pinned |-> pinned,
                                               val |-> v]]
       IN CASE k \in resident ->
                 client' = me("using", catalog[k]) /\ UNCHANGED op
            [] k \notin resident /\ loads[k] # "idle" ->
                 client' = me("waiting", None) /\ UNCHANGED op
            [] k \notin resident /\ loads[k] = "idle" /\ Size[catalog[k]] > CpuBudget ->
                 client' = (IF pinned THEN me("leaving", None) ELSE client) /\ UNCHANGED op
            [] OTHER ->
                 /\ op' = [kind |-> "load", key |-> k, val |-> None,
                           need |-> Size[catalog[k]], client |-> c]
                 /\ client' = me("calling", None)
    /\ UNCHANGED <<phase, catalog, resident, backed, bytes, guards, jobs, disk, durable>>

\* read(k) without a pin
Read(c, k) == /\ Available
              /\ client[c] = Idle
              /\ k \in Present
              /\ SubmitLoad(c, k, FALSE)

\* pin(k): the count is raised in a critical section of its own ...
Pin(c, k) ==
    /\ Available
    /\ client[c] = Idle
    /\ k \in Present
    /\ pins' = [pins EXCEPT ![k] = @ + 1]
    /\ client' = [client EXCEPT ![c] = [at |-> "entering", key |-> k, pinned |-> TRUE,
                                        val |-> None]]
    /\ UNCHANGED <<phase, catalog, resident, backed, recency, bytes, inflight, jobs, disk,
                   op, durable>>

\* ... and then the page is read, unless the store was closed in between.
PinnedRead(c) == /\ Available
                 /\ client[c].at = "entering"
                 /\ SubmitLoad(c, client[c].key, TRUE)

PinnedReadRefused(c) ==
    /\ phase \in {"closing", "cancelled"} /\ op = NoOp
    /\ client[c].at = "entering"
    /\ client' = [client EXCEPT ![c] = Failed(c)]
    /\ UNCHANGED <<phase, ram, jobs, disk, op, durable>>

\* future.result() returns or raises in the reading thread.
Resume(c) ==
    /\ client[c].at = "settled"
    /\ client' = [client EXCEPT ![c] = IF @.val = None THEN Failed(c)
                                       ELSE [@ EXCEPT !.at = "using"]]
    /\ UNCHANGED <<phase, ram, jobs, disk, op, durable>>

HoldsPin(c) == client[c].pinned

\* The reader is done with the payload; pin's finally clause drops the pin.
Leave(c) ==
    /\ client[c].at \in {"using", "leaving"}
    /\ HoldsPin(c) => op = NoOp
    /\ pins' = IF HoldsPin(c) THEN [pins EXCEPT ![client[c].key] = @ - 1] ELSE pins
    /\ client' = [client EXCEPT ![c] = Idle]
    /\ UNCHANGED <<phase, catalog, resident, backed, recency, bytes, inflight, jobs, disk,
                   op, durable>>

-----------------------------------------------------------------------------
(* The worker's half of a load: the disk is read without the mutex          *)

LoadRead(k) ==
    /\ loads[k] = "queued"
    /\ loads' = [loads EXCEPT ![k] = "done"]
    /\ fetched' = [fetched EXCEPT ![k] = IF k \in backed /\ BackingVerifies(k)
                                         THEN files[k] ELSE None]
    /\ UNCHANGED <<phase, ram, spills, disk, op, client, durable>>

\* StaleCompletionError: the store was retired while the disk was read.  The
\* code's other test, that the page is still the catalog's, cannot fail: a page
\* with a job in flight is never deleted.
Stale == phase = "cancelled"

Waiting(c, k) == client[c].at = "waiting" /\ client[c].key = k

\* The future is set after the mutex is released; its waiters resume later.
LoadFinish(k) ==
    /\ op = NoOp
    /\ loads[k] = "done"
    /\ LET val == IF Stale THEN None ELSE fetched[k]
       IN /\ IF val # None THEN /\ resident' = resident \cup {k}
                                /\ cpuBytes' = cpuBytes + Size[catalog[k]]
             ELSE UNCHANGED <<resident, cpuBytes>>
          /\ client' = [c \in Clients |->
                IF Waiting(c, k) THEN [client[c] EXCEPT !.at = "settled", !.val = val]
                ELSE client[c]]
    /\ cpuReserved' = cpuReserved - Size[catalog[k]]
    /\ inflight' = [inflight EXCEPT ![k] = @ - 1]
    /\ loads' = [loads EXCEPT ![k] = "idle"]
    /\ fetched' = [fetched EXCEPT ![k] = None]
    /\ UNCHANGED <<phase, catalog, backed, recency, diskBytes, pins, spills, disk, op,
                   durable>>

-----------------------------------------------------------------------------
(* submit_spill: two critical sections of the worker                        *)

SubmitSpill(k) ==
    /\ Available
    /\ k \in Present
    /\ spills[k] = "idle"
    /\ spills' = [spills EXCEPT ![k] = "queued"]
    /\ inflight' = [inflight EXCEPT ![k] = @ + 1]
    /\ UNCHANGED <<phase, catalog, resident, backed, recency, bytes, pins, loads, fetched,
                   disk, op, client, durable>>

SpillFails(k) == Stale \/ SpillRaises(k)

SpillRun(k) ==
    /\ op = NoOp
    /\ spills[k] = "queued"
    /\ \/ /\ ~Stale /\ Spilled(k)
          /\ spills' = [spills EXCEPT ![k] = "ok"]
       \/ /\ SpillFails(k)
          /\ spills' = [spills EXCEPT ![k] = "failed"]
          /\ UNCHANGED <<files, backed, diskBytes>>
    /\ UNCHANGED <<phase, catalog, resident, recency, cpuBytes, cpuReserved, guards, loads,
                   fetched, corrupt, pending, lock, op, client, durable>>

AcknowledgedFault(k) == TRUE
Acknowledged(k) == spills[k] = "ok"

SpillFinish(k) ==
    /\ op = NoOp
    /\ spills[k] \in {"ok", "failed"}
    /\ spills' = [spills EXCEPT ![k] = "idle"]
    /\ inflight' = [inflight EXCEPT ![k] = @ - 1]
    /\ durable' = IF Acknowledged(k) THEN [durable EXCEPT ![k] = catalog[k]] ELSE durable
    /\ UNCHANGED <<phase, catalog, resident, backed, recency, bytes, pins, loads, fetched,
                   disk, op, client>>

-----------------------------------------------------------------------------
Worker(k) == LoadRead(k) \/ LoadFinish(k) \/ SpillRun(k) \/ SpillFinish(k)
Mutex == EvictVictim \/ NoSpace \/ FinishPut \/ FinishEvict \/ FinishSubmit

ClientStep(c) == \/ \E k \in Keys : Read(c, k) \/ Pin(c, k)
                 \/ PinnedRead(c) \/ PinnedReadRefused(c) \/ Resume(c) \/ Leave(c)

Next ==
    \/ Open \/ Crash \/ OperatorCleanup \/ CloseFinish
    \/ \E cancel \in BOOLEAN : Close(cancel)
    \/ \E k \in Keys : Damage(k) \/ PutAgain(k) \/ Delete(k) \/ SubmitSpill(k)
    \/ \E k \in Keys, v \in Values : Put(k, v)
    \/ \E need \in 1 .. CpuBudget : Evict(need)
    \/ EvictOne
    \/ \E c \in Clients : ClientStep(c)
    \/ \E k \in Keys : Worker(k)
    \/ Mutex

\* A thread that holds the mutex runs on, the executor's workers run queued
\* jobs, and close returns once they are drained.  Nothing else is promised.
Fairness == /\ WF_vars(Mutex)
            /\ \A k \in Keys : WF_vars(Worker(k))
            /\ WF_vars(CloseFinish)

Spec == Init /\ [][Next]_vars
FairSpec == Spec /\ Fairness

-----------------------------------------------------------------------------
(* Properties *)

ClientType == [at : {"idle", "calling", "entering", "waiting", "settled", "using", "leaving"},
               key : Keys \cup {None}, pinned : BOOLEAN, val : Values \cup {None}]
OpType == [kind : {"none", "put", "load", "evict"}, key : Keys \cup {None},
           val : Values \cup {None}, need : Nat, client : Clients \cup {None}]

\* Every variable of the store stays in its type.
TypeOK ==
    /\ phase \in {"down", "open", "closing", "cancelled"}
    /\ lock \in BOOLEAN /\ pending \in BOOLEAN
    /\ files \in [Keys -> Values \cup {None}] /\ corrupt \subseteq Keys
    /\ catalog \in [Keys -> Values \cup {None}]
    /\ resident \subseteq Keys /\ backed \subseteq Keys
    /\ recency \subseteq Keys \X Keys
    /\ cpuBytes \in Int /\ cpuReserved \in Int /\ diskBytes \in Int
    /\ pins \in [Keys -> Nat] /\ inflight \in [Keys -> Nat]
    /\ loads \in [Keys -> {"idle", "queued", "done"}]
    /\ fetched \in [Keys -> Values \cup {None}]
    /\ spills \in [Keys -> {"idle", "queued", "ok", "failed"}]
    /\ op \in OpType
    /\ client \in [Clients -> ClientType]
    /\ durable \in [Keys -> Values \cup {None}]

\* "Bounded": payloads in RAM together with the space reserved for loads in
\* flight never exceed cpu_budget_bytes, and the page files on disk, whatever
\* the counter says, never exceed disk_budget_bytes.
Bounded == /\ cpuBytes + cpuReserved =< CpuBudget
           /\ diskBytes =< DiskBudget
           /\ DiskUse =< DiskBudget

Loading == {k \in Keys : loads[k] # "idle"}

\* The three counters are what they claim to count, after any mix of failed
\* writes, failed loads, stale completions, partial evictions and restarts.
CountersExact ==
    /\ cpuBytes = Bytes(resident, PayloadLen(catalog))
    /\ cpuReserved = Bytes(Loading, PayloadLen(catalog))
    /\ phase # "down" => diskBytes = DiskUse

\* What the store believes it holds is what it holds, and both stay within the
\* budgets: loads, puts and spills in flight together never pass them.
Accounting == CountersExact /\ Bounded

\* A catalogued page always has a copy: in RAM, or in a file that holds its
\* value; the open store knows every file in its directory.
NoPageLost ==
    phase # "down" =>
        /\ Present = resident \cup backed
        /\ backed = FilesOnDisk
        /\ \A k \in backed : files[k] = catalog[k]

\* While a pin is held the page is neither deleted nor, once read, evicted,
\* and what the reader holds is the page's value.
PinProtects ==
    \A c \in Clients :
        client[c].pinned =>
            /\ client[c].key \in Present
            /\ client[c].at \in {"settled", "using"} /\ client[c].val # None =>
                   client[c].key \in resident /\ client[c].val = catalog[client[c].key]

Active(job) == IF job = "idle" THEN 0 ELSE 1
Pinners(k) == {c \in Clients : client[c].pinned /\ client[c].key = k}

PinsExact == \A k \in Keys : pins[k] = Cardinality(Pinners(k))

InflightExact ==
    \A k \in Keys : /\ inflight[k] = Active(loads[k]) + Active(spills[k])
                    /\ inflight[k] > 0 => k \in Present
                    /\ loads[k] # "idle" => k \notin resident

NoLostWaiter == \A c \in Clients : client[c].at = "waiting" => loads[client[c].key] # "idle"

\* pins and inflight count their holders exactly (a leaked count would make a
\* page unevictable for ever), jobs only run for catalogued pages, a load only
\* for a page without a payload, and no reader waits on a load that has ended.
GuardsExact == PinsExact /\ InflightExact /\ NoLostWaiter

CallConsistent ==
    /\ op.kind = "none" => op = NoOp
    /\ op.kind # "none" => phase = "open"
    /\ op.kind = "put" => /\ op.key \in Keys \ Present
                          /\ op.val \in Values /\ op.need = Size[op.val]
    /\ op.kind = "load" => /\ op.key \in Present \ resident /\ loads[op.key] = "idle"
                           /\ op.need = Size[catalog[op.key]]
                           /\ op.client \in Clients
                           /\ client[op.client].at = "calling"
                           /\ client[op.client].key = op.key

ReadersConsistent ==
    \A c \in Clients :
        /\ client[c].at = "idle" => client[c] = Idle
        /\ client[c].at \in {"entering", "waiting"} => client[c].key \in Keys
        /\ client[c].at = "entering" => client[c].pinned
        /\ client[c].pinned => phase # "down" /\ client[c].at # "idle"

JobsConsistent ==
    \A k \in Keys :
        /\ fetched[k] # None => loads[k] = "done" /\ fetched[k] = catalog[k]
        /\ spills[k] = "ok" => k \in backed

DownClean ==
    phase = "down" => /\ op = NoOp
                      /\ Present = {} /\ resident = {} /\ backed = {}
                      /\ cpuBytes = 0 /\ cpuReserved = 0 /\ diskBytes = 0
                      /\ NoJobs

\* What the parts of the store owe each other between critical sections: the
\* call inside _make_cpu_space still finds the page state it started from, a job
\* carries the page's own value, and nothing outlives the object.  Together with
\* the properties around it this is inductive.
Consistent == CallConsistent /\ ReadersConsistent /\ JobsConsistent /\ DownClean

\* An acknowledged spill is on disk, across every crash and restart, and the
\* running store serves that value.
DurableKept ==
    \A k \in Keys : durable[k] # None =>
        /\ files[k] = durable[k]
        /\ phase # "down" => catalog[k] = durable[k]

\* A close returns, whatever was queued when it was called, and a call that has to
\* make room ends: neither keeps the mutex for ever.
CallsEnd ==
    /\ phase \in {"closing", "cancelled"} ~> phase = "down"
    /\ op # NoOp ~> op = NoOp

\* The store implements the abstract catalog: its content is the running
\* object's catalog, or what is on disk while no process runs.
Catalog == INSTANCE PageCatalog WITH
    content <- IF phase = "down" THEN files ELSE catalog,
    safe <- {k \in Keys : durable[k] # None}
ImplementsCatalog == Catalog!Spec
=============================================================================
