---------------------------- MODULE OfflineProofs ----------------------------
(***************************************************************************)
(* What the two offline programs guarantee.                                *)
(*                                                                         *)
(* AssetDownload, for any files, selections and number of processes, with  *)
(* runs that fail or are killed between any two steps: what stands at a    *)
(* final name is the official file.  The argument: only the process that   *)
(* has the lock has threads, and only a thread that found no file at the   *)
(* final name writes to the .part file, so the two names are never one     *)
(* file while it is written.                                               *)
(*                                                                         *)
(* Pretraining, for any number of steps, rows and runs, with edits of the  *)
(* inputs and crashes between any two steps: what can be resumed or mounted*)
(* is what an uninterrupted run makes, and reports are true.  The argument:*)
(* the model in memory is exact for the progress in memory, and a          *)
(* checkpoint is whole only after the model and the progress were written. *)
(***************************************************************************)
EXTENDS Offline, Sequences, TLAPS

-----------------------------------------------------------------------------
(* AssetDownload                                                            *)

Stages == {"down", "owner", "claim", "claimed", "lock", "manifest", "resolved", "work"}
Threads == [at : {"look", "try", "body", "verify", "link", "unlink", "done", "failed"},
            attempt : Nat]
Files == Selections \cup {None, Truncated}

TypeOK ==
    /\ owner \in Files /\ manifest \in Files
    /\ holder \in Processes \cup {None}
    /\ part \in [Items -> Bytes \cup {None}] /\ target \in [Items -> Bytes \cup {None}]
    /\ linked \subseteq Items
    /\ process \in [Processes -> [at : Stages, selection : Selections \cup {None},
                                  verifyOnly : BOOLEAN]]
    /\ worker \in [Processes -> [Items -> Threads]]
    /\ attested \subseteq Selections

\* Who has claimed the directory, and whom the list of files is for.
Claiming ==
    /\ \A p \in Processes : process[p].at # "down" => process[p].selection \in Selections
    /\ \A p \in Processes : process[p].at = "claimed" => owner = Truncated
    /\ \A p, q \in Processes : process[p].at = "claimed" /\ process[q].at = "claimed" => p = q
    /\ \A p \in Processes : process[p].at \in {"lock", "manifest", "resolved", "work"} =>
                               owner = process[p].selection
    /\ manifest \notin {None, Truncated} => manifest = owner

\* Only the process that has the lock works, and only it has threads.
Holding ==
    /\ \A p \in Processes : process[p].at \in {"manifest", "resolved", "work"} => holder = p
    /\ \A p \in Processes : process[p].at # "work" => worker[p] = NoThreads

FileOK(f, bytes, published, both) ==
    /\ published # None => Official(f, published)
    /\ both => published # None /\ bytes = published

ThreadOK(f, stage, bytes, published) ==
    /\ stage \in {"try", "body", "verify", "link"} => published = None
    /\ stage = "link" => bytes # None /\ Official(f, bytes)
    /\ stage \in {"unlink", "done"} => published # None

\* Each file, and what the threads know of it.
Publishing ==
    /\ \A f \in Items : FileOK(f, part[f], target[f], f \in linked)
    /\ \A p \in Processes, f \in Items : ThreadOK(f, worker[p][f].at, part[f], target[f])
    /\ \A selection \in attested : \A f \in Chosen[selection] : target[f] # None

IInv == TypeOK /\ Claiming /\ Holding /\ Publishing

\* Threads that have not begun are threads.
LEMMA WaitingThread == Waiting \in Threads /\ NoThreads \in [Items -> Threads]
BY DEF Waiting, NoThreads, Threads

\* A process that ends leaves the rest as it was.
LEMMA EndsKeeps ==
    ASSUME IInv, NEW p \in Processes, Ends(p), UNCHANGED <<owner, disk>>,
           attested' \subseteq Selections,
           \A selection \in attested' : \A f \in Chosen[selection] : target[f] # None,
           \/ manifest' = manifest
           \/ manifest' = owner /\ owner \in Selections
    PROVE  IInv'
<1>1. /\ process' = [process EXCEPT ![p] = Down]
      /\ worker' = [worker EXCEPT ![p] = NoThreads]
      /\ holder' = IF holder = p THEN None ELSE holder
      /\ UNCHANGED <<part, target, linked>>
  BY DEF Ends, disk
<1>2. TypeOK'
  <2>1. Down \in [at : Stages, selection : Selections \cup {None}, verifyOnly : BOOLEAN]
    BY DEF Down, Stages
  <2>2. worker' \in [Processes -> [Items -> Threads]]
    BY <1>1, WaitingThread DEF IInv, TypeOK
  <2>3. process' \in [Processes -> [at : Stages, selection : Selections \cup {None},
                                    verifyOnly : BOOLEAN]]
    BY <1>1, <2>1 DEF IInv, TypeOK
  <2>4. /\ owner' \in Files /\ manifest' \in Files /\ holder' \in Processes \cup {None}
        /\ attested' \subseteq Selections
    BY <1>1 DEF IInv, TypeOK, Files
  <2> QED BY <1>1, <2>2, <2>3, <2>4 DEF IInv, TypeOK
<1>3. \A q \in Processes :
        /\ q # p => process'[q] = process[q] /\ worker'[q] = worker[q]
        /\ process'[p].at = "down" /\ worker'[p] = NoThreads
  BY <1>1 DEF IInv, TypeOK, Down
<1>4. Claiming'
  BY <1>1, <1>3 DEF IInv, Claiming
<1>5. Holding'
  BY <1>1, <1>3 DEF IInv, Holding
<1>6. Publishing'
  <2>1. \A f \in Items : worker'[p][f].at = "look"
    BY <1>3 DEF NoThreads, Waiting
  <2>2. \A q \in Processes, f \in Items : ThreadOK(f, worker'[q][f].at, part'[f], target'[f])
    BY <1>1, <1>3, <2>1 DEF IInv, Publishing, ThreadOK
  <2> QED BY <1>1, <2>2 DEF IInv, Publishing
<1> QED BY <1>2, <1>4, <1>5, <1>6 DEF IInv

\* The same for one that reports nothing.
LEMMA EndsPlainly ==
    ASSUME IInv, NEW p \in Processes, Ends(p), UNCHANGED <<owner, disk, attested>>,
           \/ manifest' = manifest
           \/ manifest' = owner /\ owner \in Selections
    PROVE  IInv'
<1>1. /\ attested' \subseteq Selections
      /\ \A selection \in attested' : \A f \in Chosen[selection] : target[f] # None
  BY DEF IInv, TypeOK, Publishing
<1> QED BY <1>1, EndsKeeps

\* A process that goes on, before it has threads.
LEMMA GoesKeeps ==
    ASSUME IInv, NEW p \in Processes, NEW next \in Stages, next \notin {"down", "claimed"},
           Goes(p, next), process[p].at \notin {"down", "work"},
           UNCHANGED <<owner, disk, attested>>,
           \/ manifest' = manifest
           \/ manifest' = Truncated
           \/ manifest' = owner /\ owner \in Selections,
           next \in {"lock", "manifest", "resolved", "work"} => owner = process[p].selection,
           next \in {"manifest", "resolved", "work"} => holder = p
    PROVE  IInv'
<1>1. /\ process' = [process EXCEPT ![p].at = next]
      /\ UNCHANGED <<holder, worker, part, target, linked, attested, owner>>
  BY DEF Goes, disk
<1>2. TypeOK'
  <2>1. process' \in [Processes -> [at : Stages, selection : Selections \cup {None},
                                    verifyOnly : BOOLEAN]]
    BY <1>1 DEF IInv, TypeOK
  <2>2. manifest' \in Files
    BY DEF IInv, TypeOK, Files
  <2> QED BY <1>1, <2>1, <2>2 DEF IInv, TypeOK
<1>3. /\ process'[p].at = next /\ process'[p].selection = process[p].selection
      /\ \A q \in Processes : q # p => process'[q] = process[q]
  BY <1>1 DEF IInv, TypeOK
<1>4. Claiming'
  BY <1>1, <1>3 DEF IInv, Claiming
<1>5. Holding'
  BY <1>1, <1>3 DEF IInv, Holding
<1>6. Publishing'
  BY <1>1 DEF IInv, Publishing
<1> QED BY <1>2, <1>4, <1>5, <1>6 DEF IInv

-----------------------------------------------------------------------------
(* The steps of a process                                                   *)

\* A run starts with a selection, and owns nothing yet.
LEMMA StartKeeps ==
    ASSUME IInv, NEW p \in Processes, NEW selection \in Selections,
           NEW verifyOnly \in BOOLEAN, Start(p, selection, verifyOnly)
    PROVE  IInv'
<1> DEFINE started == [at |-> "owner", selection |-> selection, verifyOnly |-> verifyOnly]
<1>1. /\ process' = [process EXCEPT ![p] = started] /\ process[p].at = "down"
      /\ UNCHANGED <<owner, manifest, holder, part, target, linked, worker, attested>>
  BY DEF Start, disk, Down
<1>2. started.at = "owner" /\ started.selection = selection
      /\ started \in [at : Stages, selection : Selections \cup {None}, verifyOnly : BOOLEAN]
  BY DEF Stages
<1> HIDE DEF started
<1>3. TypeOK'
  <2>1. process' \in [Processes -> [at : Stages, selection : Selections \cup {None},
                                    verifyOnly : BOOLEAN]]
    BY <1>1, <1>2 DEF IInv, TypeOK
  <2> QED BY <1>1, <2>1 DEF IInv, TypeOK
<1>4. /\ process'[p].at = "owner" /\ process'[p].selection = selection
      /\ \A q \in Processes : q # p => process'[q] = process[q]
  BY <1>1, <1>2 DEF IInv, TypeOK
<1>5. Claiming'
  BY <1>1, <1>4 DEF IInv, Claiming
<1>6. Holding'
  BY <1>1, <1>4 DEF IInv, Holding
<1>7. Publishing'
  BY <1>1 DEF IInv, Publishing
<1> QED BY <1>3, <1>5, <1>6, <1>7 DEF IInv

\* A directory that has an owner keeps it.
LEMMA OwnerKeeps ==
    ASSUME IInv, NEW p \in Processes, Owner(p) PROVE IInv'
<1>1. process[p].at = "owner" /\ UNCHANGED <<owner, manifest, disk, attested>>
  BY DEF Owner
<1>2. CASE Goes(p, "lock") /\ owner = process[p].selection
  <2>1. "lock" \in Stages
    BY DEF Stages
  <2>2. "lock" \notin {"manifest", "resolved", "work"} /\ process[p].at \notin {"down", "work"}
    BY <1>1
  <2>3. UNCHANGED <<owner, disk, attested>> /\ manifest' = manifest
    BY <1>1
  <2> QED BY <1>1, <1>2, <2>1, <2>2, <2>3, GoesKeeps
<1>3. CASE Goes(p, "claim")
  <2>1. "claim" \in Stages
    BY DEF Stages
  <2>2. /\ "claim" \notin {"lock", "manifest", "resolved", "work"}
        /\ process[p].at \notin {"down", "work"}
    BY <1>1
  <2> QED BY <1>1, <1>3, <2>1, <2>2, GoesKeeps
<1>4. CASE Ends(p)
  <2>1. UNCHANGED <<owner, disk, attested>> /\ manifest' = manifest
    BY <1>1
  <2> QED BY <1>4, <2>1, EndsPlainly
<1>5. \/ Goes(p, "lock") /\ owner = process[p].selection
      \/ Goes(p, "claim")
      \/ Ends(p)
  <2>1. CASE owner = process[p].selection
    BY <2>1 DEF Owner
  <2>2. CASE owner # process[p].selection /\ owner = None /\ ~process[p].verifyOnly
    BY <2>2 DEF Owner
  <2>3. CASE owner # process[p].selection /\ ~(owner = None /\ ~process[p].verifyOnly)
    BY <2>3 DEF Owner
  <2> QED BY <2>1, <2>2, <2>3
<1> QED BY <1>2, <1>3, <1>4, <1>5

\* The first of several runs creates the file of the owner; nobody is past it.
LEMMA ClaimKeeps ==
    ASSUME IInv, NEW p \in Processes, Claim(p) PROVE IInv'
<1>1. /\ process[p].at = "claim"
      /\ UNCHANGED <<manifest, part, target, linked, attested>>
  BY DEF Claim, disk
<1>2. CASE owner = None
  <2>1. /\ owner' = Truncated /\ process' = [process EXCEPT ![p].at = "claimed"]
        /\ UNCHANGED <<holder, worker>>
    BY <1>2 DEF Claim, Goes
  <2>2. TypeOK'
    <3>1. process' \in [Processes -> [at : Stages, selection : Selections \cup {None},
                                      verifyOnly : BOOLEAN]]
      BY <2>1 DEF IInv, TypeOK, Stages
    <3>2. owner' \in Files
      BY <2>1 DEF Files
    <3> QED BY <1>1, <2>1, <3>1, <3>2 DEF IInv, TypeOK
  <2>3. /\ process'[p].at = "claimed" /\ process'[p].selection = process[p].selection
        /\ \A q \in Processes : q # p => process'[q] = process[q]
    BY <2>1 DEF IInv, TypeOK
  <2>4. Claiming'
    <3>1. \A q \in Processes : process[q].at \notin {"claimed", "lock", "manifest", "resolved", "work"}
      BY <1>2, NoneAssumption DEF IInv, Claiming
    <3>2. manifest \in {None, Truncated}
      BY <1>2 DEF IInv, Claiming
    <3> QED BY <1>1, <2>1, <2>3, <3>1, <3>2 DEF IInv, Claiming
  <2>5. Holding'
    BY <1>1, <2>1, <2>3 DEF IInv, Holding
  <2>6. Publishing'
    BY <1>1, <2>1 DEF IInv, Publishing
  <2> QED BY <2>2, <2>4, <2>5, <2>6 DEF IInv
<1>3. CASE owner # None
  <2>1. Ends(p) /\ UNCHANGED <<owner, disk, attested>> /\ manifest' = manifest
    BY <1>3 DEF Claim
  <2> QED BY <2>1, EndsPlainly
<1> QED BY <1>2, <1>3

\* It alone writes the owner.
LEMMA ClaimedKeeps ==
    ASSUME IInv, NEW p \in Processes, Claimed(p) PROVE IInv'
<1>1. /\ process[p].at = "claimed" /\ owner' = process[p].selection
      /\ process' = [process EXCEPT ![p].at = "lock"]
      /\ UNCHANGED <<manifest, holder, worker, part, target, linked, attested>>
  BY DEF Claimed, Goes, disk
<1>2. process[p].selection \in Selections /\ owner = Truncated
  BY <1>1 DEF IInv, Claiming
<1>3. TypeOK'
  <2>1. process' \in [Processes -> [at : Stages, selection : Selections \cup {None},
                                    verifyOnly : BOOLEAN]]
    BY <1>1 DEF IInv, TypeOK, Stages
  <2>2. owner' \in Files
    BY <1>1, <1>2 DEF Files
  <2> QED BY <1>1, <2>1, <2>2 DEF IInv, TypeOK
<1>4. /\ process'[p].at = "lock" /\ process'[p].selection = process[p].selection
      /\ \A q \in Processes : q # p => process'[q] = process[q]
  BY <1>1 DEF IInv, TypeOK
<1>5. Claiming'
  <2>1. \A q \in Processes : process[q].at \notin {"lock", "manifest", "resolved", "work"}
    BY <1>2, NoneAssumption DEF IInv, Claiming
  <2>2. \A q \in Processes : process[q].at = "claimed" => q = p
    BY <1>1 DEF IInv, Claiming
  <2>3. manifest \in {None, Truncated}
    BY <1>2 DEF IInv, Claiming
  <2> QED BY <1>1, <1>4, <2>1, <2>2, <2>3 DEF IInv, Claiming
<1>6. Holding'
  BY <1>1, <1>4 DEF IInv, Holding
<1>7. Publishing'
  BY <1>1 DEF IInv, Publishing
<1> QED BY <1>3, <1>5, <1>6, <1>7 DEF IInv

\* The lock is for one process.
LEMMA LockKeeps ==
    ASSUME IInv, NEW p \in Processes, Lock(p) PROVE IInv'
<1>1. process[p].at = "lock" /\ UNCHANGED <<owner, disk, attested>> /\ manifest' = manifest
  BY DEF Lock
<1>2. CASE Free
  <2>1. /\ holder = None /\ holder' = p /\ process' = [process EXCEPT ![p].at = "manifest"]
        /\ UNCHANGED <<owner, manifest, worker, part, target, linked, attested>>
    BY <1>1, <1>2 DEF Lock, Free, disk
  <2>2. TypeOK'
    <3>1. process' \in [Processes -> [at : Stages, selection : Selections \cup {None},
                                      verifyOnly : BOOLEAN]]
      BY <2>1 DEF IInv, TypeOK, Stages
    <3> QED BY <2>1, <3>1 DEF IInv, TypeOK
  <2>3. /\ process'[p].at = "manifest" /\ process'[p].selection = process[p].selection
        /\ \A q \in Processes : q # p => process'[q] = process[q]
    BY <2>1 DEF IInv, TypeOK
  <2>4. Claiming'
    BY <1>1, <2>1, <2>3 DEF IInv, Claiming
  <2>5. Holding'
    <3>1. \A q \in Processes : process[q].at \notin {"manifest", "resolved", "work"}
      BY <2>1, NoneAssumption DEF IInv, Holding
    <3> QED BY <1>1, <2>1, <2>3, <3>1 DEF IInv, Holding
  <2>6. Publishing'
    BY <2>1 DEF IInv, Publishing
  <2> QED BY <2>2, <2>4, <2>5, <2>6 DEF IInv
<1>3. CASE ~Free
  <2>1. Ends(p)
    BY <1>3 DEF Lock
  <2> QED BY <1>1, <2>1, EndsPlainly
<1> QED BY <1>2, <1>3

\* The list of files is taken, or its file is created.
LEMMA ManifestKeeps ==
    ASSUME IInv, NEW p \in Processes, Manifest(p) PROVE IInv'
<1>1. process[p].at = "manifest" /\ UNCHANGED <<owner, disk, attested>>
  BY DEF Manifest
<1>2. /\ holder = p /\ owner = process[p].selection
      /\ process[p].at \notin {"down", "work"}
  BY <1>1 DEF IInv, Holding, Claiming
<1>3. CASE Goes(p, "work") /\ UNCHANGED manifest
  <2>1. "work" \in Stages
    BY DEF Stages
  <2>2. "work" \notin {"down", "claimed"} /\ manifest' = manifest
    BY <1>3
  <2> QED BY <1>1, <1>2, <1>3, <2>1, <2>2, GoesKeeps
<1>4. CASE Goes(p, "resolved") /\ manifest' = Truncated
  <2>1. "resolved" \in Stages
    BY DEF Stages
  <2>2. "resolved" \notin {"down", "claimed"}
    OBVIOUS
  <2> QED BY <1>1, <1>2, <1>4, <2>1, <2>2, GoesKeeps
<1>5. CASE Ends(p) /\ UNCHANGED manifest
  BY <1>1, <1>5, EndsPlainly
<1>6. \/ Goes(p, "work") /\ UNCHANGED manifest
      \/ Goes(p, "resolved") /\ manifest' = Truncated
      \/ Ends(p) /\ UNCHANGED manifest
  BY Zenon DEF Manifest
<1> QED BY <1>3, <1>4, <1>5, <1>6

\* The list of files is that of the owner.
LEMMA ResolvedKeeps ==
    ASSUME IInv, NEW p \in Processes, Resolved(p) PROVE IInv'
<1>1. process[p].at = "resolved" /\ UNCHANGED <<owner, disk, attested>>
  BY DEF Resolved
<1>2. /\ holder = p /\ owner = process[p].selection /\ owner \in Selections
      /\ process[p].at \notin {"down", "work"}
  BY <1>1 DEF IInv, Holding, Claiming
<1>3. manifest' = owner
  BY <1>2 DEF Resolved
<1>4. CASE Goes(p, "work")
  <2>1. "work" \in Stages
    BY DEF Stages
  <2>2. "work" \notin {"down", "claimed"}
    OBVIOUS
  <2> QED BY <1>1, <1>2, <1>3, <1>4, <2>1, <2>2, GoesKeeps
<1>5. CASE Ends(p)
  BY <1>1, <1>2, <1>3, <1>5, EndsPlainly
<1> QED BY <1>4, <1>5 DEF Resolved

\* A report covers what all threads have finished.
LEMMA JoinedKeeps ==
    ASSUME IInv, NEW p \in Processes, Joined(p) PROVE IInv'
<1>1. process[p].at = "work" /\ Ends(p) /\ UNCHANGED <<owner, disk>> /\ manifest' = manifest
  BY DEF Joined
<1>2. CASE Attests(p)
  <2>1. Failed(p) = {} /\ attested' = attested \cup {process[p].selection}
    BY <1>2 DEF Joined, Attests
  <2>2. process[p].selection \in Selections
    BY <1>1 DEF IInv, Claiming
  <2>3. \A f \in Mine(p) : f \in Done(p)
    BY <2>1 DEF Joined
  <2>4. ASSUME NEW f \in Chosen[process[p].selection] PROVE target[f] # None
    <3>1. f \in Items
      BY <2>2, ChosenAssumption
    <3>2. worker[p][f].at = "done"
      BY <2>3 DEF Mine, Done
    <3> QED BY <3>1, <3>2 DEF IInv, Publishing, ThreadOK
  <2>5. attested' \subseteq Selections
    BY <2>1, <2>2 DEF IInv, TypeOK
  <2>6. \A selection \in attested' : \A f \in Chosen[selection] : target[f] # None
    BY <2>1, <2>4 DEF IInv, Publishing
  <2> QED BY <1>1, <2>5, <2>6, EndsKeeps
<1>3. CASE ~Attests(p)
  <2>1. attested' = attested
    BY <1>3 DEF Joined
  <2> QED BY <1>1, <2>1, EndsPlainly
<1> QED BY <1>2, <1>3

\* A process that is killed between two steps loses its threads and its lock.
LEMMA KillKeeps ==
    ASSUME IInv, NEW p \in Processes, Kill(p) PROVE IInv'
<1>1. Ends(p) /\ UNCHANGED <<owner, disk, attested>> /\ manifest' = manifest
  BY DEF Kill
<1> QED BY <1>1, EndsPlainly

-----------------------------------------------------------------------------
(* The steps of a thread                                                    *)

\* A step of one thread on its file: what it leaves there is all that matters.
LEMMA FileStep ==
    ASSUME IInv, NEW p \in Processes, NEW f \in Items,
           process[p].at = "work", Others,
           NEW thread \in Threads, worker' = [worker EXCEPT ![p][f] = thread],
           NEW bytes \in Bytes \cup {None}, part' = [part EXCEPT ![f] = bytes],
           NEW published \in Bytes \cup {None}, target' = [target EXCEPT ![f] = published],
           linked' \subseteq Items, \A g \in Items : g # f => (g \in linked' <=> g \in linked),
           FileOK(f, bytes, published, f \in linked'),
           ThreadOK(f, thread.at, bytes, published),
           target[f] # None => published # None
    PROVE  IInv'
<1>1. UNCHANGED <<owner, manifest, holder, process, attested>>
  BY DEF Others
<1>2. TypeOK'
  <2>1. worker' \in [Processes -> [Items -> Threads]]
    BY DEF IInv, TypeOK
  <2>2. part' \in [Items -> Bytes \cup {None}] /\ target' \in [Items -> Bytes \cup {None}]
    BY DEF IInv, TypeOK
  <2> QED BY <1>1, <2>1, <2>2 DEF IInv, TypeOK
<1>3. Claiming'
  BY <1>1 DEF IInv, Claiming
<1>4. /\ \A q \in Processes : q # p => worker'[q] = worker[q]
      /\ \A g \in Items : g # f => worker'[p][g] = worker[p][g]
      /\ worker'[p][f] = thread
  BY DEF IInv, TypeOK
<1>5. /\ \A g \in Items : g # f => part'[g] = part[g] /\ target'[g] = target[g]
      /\ part'[f] = bytes /\ target'[f] = published
  BY DEF IInv, TypeOK
<1>6. Holding'
  BY <1>1, <1>4 DEF IInv, Holding
<1>7. Publishing'
  <2>1. ASSUME NEW g \in Items PROVE FileOK(g, part'[g], target'[g], g \in linked')
    <3>1. CASE g = f
      BY <1>5, <3>1
    <3>2. CASE g # f
      BY <1>5, <3>2 DEF IInv, Publishing, FileOK
    <3> QED BY <3>1, <3>2
  <2>2. ASSUME NEW q \in Processes, NEW g \in Items
        PROVE  ThreadOK(g, worker'[q][g].at, part'[g], target'[g])
    <3>1. CASE q = p /\ g = f
      BY <1>4, <1>5, <3>1
    <3>2. CASE q = p /\ g # f
      BY <1>4, <1>5, <3>2 DEF IInv, Publishing
    <3>3. CASE q # p
      <4>1. process[q].at # "work"
        BY <3>3 DEF IInv, Holding
      <4>2. worker'[q][g].at = "look"
        BY <1>4, <3>3, <4>1 DEF IInv, Holding, NoThreads, Waiting
      <4> QED BY <4>2 DEF ThreadOK
    <3> QED BY <3>1, <3>2, <3>3
  <2>3. ASSUME NEW selection \in attested', NEW g \in Chosen[selection]
        PROVE  target'[g] # None
    <3>1. selection \in attested /\ g \in Items
      BY <1>1, ChosenAssumption DEF IInv, TypeOK
    <3>2. target[g] # None
      BY <3>1 DEF IInv, Publishing
    <3> QED BY <1>5, <3>1, <3>2
  <2> QED BY <2>1, <2>2, <2>3 DEF Publishing
<1> QED BY <1>2, <1>3, <1>6, <1>7 DEF IInv

\* What a step of a thread starts from.
LEMMA FileFacts ==
    ASSUME IInv, NEW p \in Processes, NEW f \in Items
    PROVE  /\ part[f] \in Bytes \cup {None} /\ target[f] \in Bytes \cup {None}
           /\ part = [part EXCEPT ![f] = part[f]] /\ target = [target EXCEPT ![f] = target[f]]
           /\ linked \subseteq Items /\ worker[p][f] \in Threads
           /\ FileOK(f, part[f], target[f], f \in linked)
           /\ ThreadOK(f, worker[p][f].at, part[f], target[f])
<1>1. /\ part \in [Items -> Bytes \cup {None}] /\ target \in [Items -> Bytes \cup {None}]
      /\ worker \in [Processes -> [Items -> Threads]] /\ linked \subseteq Items
  BY DEF IInv, TypeOK
<1>2. /\ FileOK(f, part[f], target[f], f \in linked)
      /\ ThreadOK(f, worker[p][f].at, part[f], target[f])
  BY DEF IInv, Publishing
<1>3. part = [part EXCEPT ![f] = part[f]] /\ target = [target EXCEPT ![f] = target[f]]
  BY <1>1
<1>4. part[f] \in Bytes \cup {None} /\ target[f] \in Bytes \cup {None} /\ worker[p][f] \in Threads
  BY <1>1
<1> QED BY <1>1, <1>2, <1>3, <1>4

\* A step that moves a thread and leaves the files alone.
LEMMA ThreadStep ==
    ASSUME IInv, NEW p \in Processes, NEW f \in Items,
           process[p].at = "work", Others, UNCHANGED disk,
           NEW thread \in Threads, worker' = [worker EXCEPT ![p][f] = thread],
           ThreadOK(f, thread.at, part[f], target[f])
    PROVE  IInv'
<1>1. UNCHANGED <<part, target, linked>>
  BY DEF disk
<1>2. /\ part[f] \in Bytes \cup {None} /\ target[f] \in Bytes \cup {None}
      /\ part' = [part EXCEPT ![f] = part[f]] /\ target' = [target EXCEPT ![f] = target[f]]
      /\ linked' \subseteq Items /\ \A g \in Items : g # f => (g \in linked' <=> g \in linked)
      /\ FileOK(f, part[f], target[f], f \in linked')
  BY <1>1, FileFacts
<1> QED BY <1>2, FileStep

\* A thread that moves to a stage is a thread of that stage.
LEMMA StageIsThread ==
    ASSUME NEW next \in {"look", "try", "body", "verify", "link", "unlink", "done", "failed"}
    PROVE  /\ [Waiting EXCEPT !.at = next] \in Threads
           /\ [Waiting EXCEPT !.at = next].at = next
BY DEF Waiting, Threads

\* A transient error costs an attempt; after the last one the thread has failed.
LEMMA RetriesThread ==
    ASSUME IInv, NEW p \in Processes, NEW f \in Items, Retries(p, f)
    PROVE  \E thread \in Threads : /\ worker' = [worker EXCEPT ![p][f] = thread]
                                   /\ thread.at \in {"try", "failed"}
<1>1. worker \in [Processes -> [Items -> Threads]] /\ worker[p][f] \in Threads
  BY DEF IInv, TypeOK
<1>2. worker[p][f].attempt + 1 \in Nat
  BY <1>1 DEF Threads
<1>3. CASE worker[p][f].attempt + 1 < Attempts
  <2> DEFINE thread == [at |-> "try", attempt |-> worker[p][f].attempt + 1]
  <2>1. thread \in Threads /\ thread.at = "try"
    BY <1>2 DEF Threads
  <2>2. worker' = [worker EXCEPT ![p][f] = thread]
    BY <1>1, <1>3 DEF Retries
  <2> HIDE DEF thread
  <2> QED BY <2>1, <2>2
<1>4. CASE ~(worker[p][f].attempt + 1 < Attempts)
  <2> DEFINE thread == [Waiting EXCEPT !.at = "failed"]
  <2>1. thread \in Threads /\ thread.at = "failed"
    BY StageIsThread
  <2>2. worker' = [worker EXCEPT ![p][f] = thread]
    BY <1>1, <1>4 DEF Retries
  <2> HIDE DEF thread
  <2> QED BY <2>1, <2>2
<1> QED BY <1>3, <1>4

\* A thread that goes to a stage at which it need know no more than before.
LEMMA MoveKeeps ==
    ASSUME IInv, NEW p \in Processes, NEW f \in Items,
           process[p].at = "work", Others, UNCHANGED disk,
           NEW next \in {"look", "try", "body", "verify", "link", "unlink", "done", "failed"},
           Thread(p, f, next), ThreadOK(f, next, part[f], target[f])
    PROVE  IInv'
<1> DEFINE thread == [Waiting EXCEPT !.at = next]
<1>1. thread \in Threads /\ thread.at = next
  BY StageIsThread
<1>2. worker' = [worker EXCEPT ![p][f] = thread]
  BY DEF Thread
<1>3. ThreadOK(f, thread.at, part[f], target[f])
  BY <1>1
<1> HIDE DEF thread
<1> QED BY <1>1, <1>2, <1>3, ThreadStep

\* Only a thread that finds nothing at the final name goes on.
LEMMA LookKeeps ==
    ASSUME IInv, NEW p \in Processes, NEW f \in Items, Look(p, f) PROVE IInv'
<1>1. process[p].at = "work" /\ Others /\ UNCHANGED disk
  BY DEF Look, Working
<1>2. CASE target[f] # None
  <2>1. \E next \in {"done", "failed"} : Thread(p, f, next)
    BY <1>2 DEF Look
  <2>2. PICK next \in {"done", "failed"} : Thread(p, f, next)
    BY <2>1
  <2>3. ThreadOK(f, next, part[f], target[f])
    BY <1>2 DEF ThreadOK
  <2> QED BY <1>1, <2>2, <2>3, MoveKeeps
<1>3. CASE target[f] = None
  <2>1. \E next \in {"try", "failed"} : Thread(p, f, next)
    BY <1>3 DEF Look
  <2>2. PICK next \in {"try", "failed"} : Thread(p, f, next)
    BY <2>1
  <2>3. ThreadOK(f, next, part[f], target[f])
    BY <1>3 DEF ThreadOK
  <2> QED BY <1>1, <2>2, <2>3, MoveKeeps
<1> QED BY <1>2, <1>3

\* A request opens the .part file, which is not the published one.
LEMMA TryKeeps ==
    ASSUME IInv, NEW p \in Processes, NEW f \in Items, Try(p, f) PROVE IInv'
<1>1. process[p].at = "work" /\ Others /\ UNCHANGED <<target, linked>>
  BY DEF Try, Working
<1>2. target[f] = None /\ f \notin linked
  BY FileFacts DEF Try, Working, ThreadOK, FileOK
<1>3. CASE UNCHANGED part /\ (Thread(p, f, "failed") \/ Thread(p, f, "verify"))
  <2>1. UNCHANGED disk
    BY <1>1, <1>3 DEF disk
  <2>2. PICK next \in {"failed", "verify"} : Thread(p, f, next)
    BY <1>3
  <2>3. ThreadOK(f, next, part[f], target[f])
    BY <1>2 DEF ThreadOK
  <2> QED BY <1>1, <2>1, <2>2, <2>3, MoveKeeps
<1>4. CASE Retries(p, f) /\ UNCHANGED part
  <2>1. UNCHANGED disk
    BY <1>1, <1>4 DEF disk
  <2>2. PICK thread \in Threads : /\ worker' = [worker EXCEPT ![p][f] = thread]
                                  /\ thread.at \in {"try", "failed"}
    BY <1>4, RetriesThread
  <2>3. ThreadOK(f, thread.at, part[f], target[f])
    BY <1>2, <2>2 DEF ThreadOK
  <2> QED BY <1>1, <2>1, <2>2, <2>3, ThreadStep
<1>5. CASE /\ worker' = [worker EXCEPT ![p][f].at = "body"]
           /\ part' = IF part[f] = None
                      THEN [part EXCEPT ![f] = [length |-> 0, good |-> TRUE]] ELSE part
  <2>1. PICK thread : thread = [worker[p][f] EXCEPT !.at = "body"]
    OBVIOUS
  <2>2. thread \in Threads /\ thread.at = "body" /\ worker' = [worker EXCEPT ![p][f] = thread]
    <3>1. /\ worker \in [Processes -> [Items -> Threads]]
          /\ worker[p][f] \in Threads
      BY DEF IInv, TypeOK
    <3>2. thread \in Threads /\ thread.at = "body"
      BY <2>1, <3>1 DEF Threads
    <3>3. worker' = [worker EXCEPT ![p][f] = thread]
      BY <1>5, <2>1, <3>1
    <3> QED BY <3>2, <3>3
  <2>3. \E bytes \in Bytes \cup {None} : part' = [part EXCEPT ![f] = bytes]
    <3>1. CASE part[f] = None
      <4>1. [length |-> 0, good |-> TRUE] \in Bytes
        BY DEF Bytes
      <4> QED BY <1>5, <3>1, <4>1
    <3>2. CASE part[f] # None
      BY <1>5, <3>2, FileFacts
    <3> QED BY <3>1, <3>2
  <2>4. PICK bytes \in Bytes \cup {None} : part' = [part EXCEPT ![f] = bytes]
    BY <2>3
  <2>5. /\ target' = [target EXCEPT ![f] = target[f]] /\ linked' \subseteq Items
        /\ target[f] \in Bytes \cup {None}
        /\ \A g \in Items : g # f => (g \in linked' <=> g \in linked)
    BY <1>1, FileFacts
  <2>6. FileOK(f, bytes, target[f], f \in linked') /\ ThreadOK(f, thread.at, bytes, target[f])
    BY <1>1, <1>2, <2>2 DEF FileOK, ThreadOK
  <2> QED BY <1>1, <2>2, <2>4, <2>5, <2>6, FileStep
<1> QED BY <1>3, <1>4, <1>5 DEF Try

\* So a chunk goes to the .part file only.
LEMMA ChunkKeeps ==
    ASSUME IInv, NEW p \in Processes, NEW f \in Items, NEW good \in BOOLEAN,
           Chunk(p, f, good)
    PROVE  IInv'
<1>1. process[p].at = "work" /\ Others /\ worker[p][f].at = "body"
  BY DEF Chunk, Working
<1>2. target[f] = None /\ f \notin linked
  BY <1>1, FileFacts DEF ThreadOK, FileOK
<1>3. CASE Held(f) + 1 > Limit[f]
  <2>1. Thread(p, f, "failed") /\ UNCHANGED disk
    BY <1>3 DEF Chunk
  <2>2. ThreadOK(f, "failed", part[f], target[f])
    BY DEF ThreadOK
  <2> QED BY <1>1, <2>1, <2>2, MoveKeeps
<1>4. CASE ~(Held(f) + 1 > Limit[f])
  <2>1. PICK longer : longer = [length |-> Held(f) + 1, good |-> part[f].good /\ good]
    OBVIOUS
  <2>2. part' = [part EXCEPT ![f] = longer] /\ UNCHANGED <<target, linked, worker>>
    BY <1>2, <1>4, <2>1 DEF Chunk
  <2>3. longer \in Bytes
    <3>1. Held(f) \in Nat
      BY FileFacts DEF Held, Bytes
    <3>2. (part[f].good /\ good) \in BOOLEAN
      BY Zenon
    <3> QED BY <2>1, <3>1, <3>2 DEF Bytes
  <2>4. /\ target' = [target EXCEPT ![f] = target[f]] /\ linked' \subseteq Items
        /\ target[f] \in Bytes \cup {None}
        /\ \A g \in Items : g # f => (g \in linked' <=> g \in linked)
        /\ worker[p][f] \in Threads
    BY <2>2, FileFacts
  <2>5. worker' = [worker EXCEPT ![p][f] = worker[p][f]]
    BY <2>2 DEF IInv, TypeOK
  <2>6. /\ FileOK(f, longer, target[f], f \in linked')
        /\ ThreadOK(f, worker[p][f].at, longer, target[f])
    BY <1>1, <1>2, <2>2 DEF FileOK, ThreadOK
  <2>7. /\ longer \in Bytes \cup {None} /\ part' = [part EXCEPT ![f] = longer]
        /\ target[f] # None => target[f] # None
    BY <2>2, <2>3
  <2> QED BY <1>1, <2>4, <2>5, <2>6, <2>7, FileStep
<1> QED BY <1>3, <1>4

\* A body that ended is verified or asked for again.
LEMMA BodyKeeps ==
    ASSUME IInv, NEW p \in Processes, NEW f \in Items, Body(p, f) PROVE IInv'
<1>1. process[p].at = "work" /\ Others /\ UNCHANGED disk /\ worker[p][f].at = "body"
  BY DEF Body, Working
<1>2. target[f] = None
  BY <1>1, FileFacts DEF ThreadOK
<1>3. CASE Thread(p, f, "verify") \/ Thread(p, f, "failed")
  <2>1. PICK next \in {"verify", "failed"} : Thread(p, f, next)
    BY <1>3
  <2>2. ThreadOK(f, next, part[f], target[f])
    BY <1>2 DEF ThreadOK
  <2> QED BY <1>1, <2>1, <2>2, MoveKeeps
<1>4. CASE Retries(p, f)
  <2>1. PICK thread \in Threads : /\ worker' = [worker EXCEPT ![p][f] = thread]
                                  /\ thread.at \in {"try", "failed"}
    BY <1>4, RetriesThread
  <2>2. ThreadOK(f, thread.at, part[f], target[f])
    BY <1>2, <2>1 DEF ThreadOK
  <2> QED BY <1>1, <2>1, <2>2, ThreadStep
<1> QED BY <1>3, <1>4 DEF Body

\* Only an official .part file is linked.
LEMMA VerifyKeeps ==
    ASSUME IInv, NEW p \in Processes, NEW f \in Items, Verify(p, f) PROVE IInv'
<1>1. process[p].at = "work" /\ Others /\ UNCHANGED disk /\ worker[p][f].at = "verify"
  BY DEF Verify, Working
<1>2. target[f] = None
  BY <1>1, FileFacts DEF ThreadOK
<1>3. CASE Verifies(f)
  <2>1. Thread(p, f, "link")
    BY <1>3 DEF Verify
  <2>2. ThreadOK(f, "link", part[f], target[f])
    BY <1>2, <1>3 DEF Verifies, ThreadOK
  <2> QED BY <1>1, <2>1, <2>2, MoveKeeps
<1>4. CASE ~Verifies(f)
  <2>1. Thread(p, f, "failed")
    BY <1>4 DEF Verify
  <2>2. ThreadOK(f, "failed", part[f], target[f])
    BY DEF ThreadOK
  <2> QED BY <1>1, <2>1, <2>2, MoveKeeps
<1> QED BY <1>3, <1>4

\* What is published is the .part file that was verified.
LEMMA LinkKeeps ==
    ASSUME IInv, NEW p \in Processes, NEW f \in Items, Link(p, f) PROVE IInv'
<1>1. process[p].at = "work" /\ Others /\ UNCHANGED part /\ worker[p][f].at = "link"
  BY DEF Link, Working
<1>2. target[f] = None /\ part[f] # None /\ Official(f, part[f])
  BY <1>1, FileFacts DEF ThreadOK
<1>3. /\ target' = [target EXCEPT ![f] = part[f]] /\ linked' = linked \cup {f}
      /\ Thread(p, f, "unlink")
  BY <1>2 DEF Link
<1> DEFINE thread == [Waiting EXCEPT !.at = "unlink"]
<1>4. thread \in Threads /\ thread.at = "unlink" /\ worker' = [worker EXCEPT ![p][f] = thread]
  BY <1>3, StageIsThread DEF Thread
<1> HIDE DEF thread
<1>5. /\ part' = [part EXCEPT ![f] = part[f]] /\ part[f] \in Bytes \cup {None}
      /\ linked' \subseteq Items
      /\ \A g \in Items : g # f => (g \in linked' <=> g \in linked)
  BY <1>1, <1>3, FileFacts
<1>6. FileOK(f, part[f], part[f], f \in linked') /\ ThreadOK(f, thread.at, part[f], part[f])
  BY <1>2, <1>4 DEF FileOK, ThreadOK
<1> QED BY <1>1, <1>2, <1>3, <1>4, <1>5, <1>6, FileStep

\* The final name keeps the file.
LEMMA UnlinkKeeps ==
    ASSUME IInv, NEW p \in Processes, NEW f \in Items, Unlink(p, f) PROVE IInv'
<1>1. /\ process[p].at = "work" /\ Others /\ UNCHANGED target /\ worker[p][f].at = "unlink"
      /\ part' = [part EXCEPT ![f] = None] /\ linked' = linked \ {f} /\ Thread(p, f, "done")
  BY DEF Unlink, Working
<1>2. target[f] # None /\ Official(f, target[f])
  BY <1>1, FileFacts DEF ThreadOK, FileOK
<1> DEFINE thread == [Waiting EXCEPT !.at = "done"]
<1>3. thread \in Threads /\ thread.at = "done" /\ worker' = [worker EXCEPT ![p][f] = thread]
  BY <1>1, StageIsThread DEF Thread
<1> HIDE DEF thread
<1>4. /\ target' = [target EXCEPT ![f] = target[f]] /\ target[f] \in Bytes \cup {None}
      /\ linked' \subseteq Items
      /\ \A g \in Items : g # f => (g \in linked' <=> g \in linked)
  BY <1>1, FileFacts
<1>5. FileOK(f, None, target[f], f \in linked') /\ ThreadOK(f, thread.at, None, target[f])
  BY <1>1, <1>2, <1>3 DEF FileOK, ThreadOK
<1> QED BY <1>1, <1>3, <1>4, <1>5, FileStep

-----------------------------------------------------------------------------
(* The theorems                                                             *)

\* The directory starts empty.
LEMMA InitKeeps == ASSUME Init PROVE IInv
<1>1. TypeOK
  <2>1. Down \in [at : Stages, selection : Selections \cup {None}, verifyOnly : BOOLEAN]
    BY DEF Down, Stages
  <2>2. process \in [Processes -> [at : Stages, selection : Selections \cup {None},
                                   verifyOnly : BOOLEAN]]
    BY <2>1 DEF Init
  <2>3. worker \in [Processes -> [Items -> Threads]]
    BY WaitingThread DEF Init
  <2> QED BY <2>2, <2>3 DEF Init, TypeOK, Files
<1>2. Claiming
  BY DEF Init, Claiming, Down
<1>3. Holding
  BY DEF Init, Holding, Down
<1>4. Publishing
  BY DEF Init, Publishing, FileOK, ThreadOK, NoThreads, Waiting
<1> QED BY <1>1, <1>2, <1>3, <1>4 DEF IInv

\* Every step keeps the invariant.
LEMMA NextKeeps == ASSUME IInv, [Next]_vars PROVE IInv'
<1>1. CASE UNCHANGED vars
  <2>1. UNCHANGED <<owner, manifest, holder, part, target, linked, process, worker, attested>>
    BY <1>1 DEF vars, disk
  <2>2. TypeOK' /\ Claiming'
    BY <2>1 DEF IInv, TypeOK, Claiming
  <2>3. Holding' /\ Publishing'
    BY <2>1 DEF IInv, Holding, Publishing
  <2> QED BY <2>2, <2>3 DEF IInv
<1>2. CASE Next
  <2> SUFFICES ASSUME NEW p \in Processes,
                      \/ \E selection \in Selections, verifyOnly \in BOOLEAN :
                            Start(p, selection, verifyOnly)
                      \/ Step(p)
                      \/ Kill(p)
               PROVE  IInv'
    BY <1>2 DEF Next
  <2>1. CASE Step(p)
    BY <2>1, OwnerKeeps, ClaimKeeps, ClaimedKeeps, LockKeeps, ManifestKeeps, ResolvedKeeps,
       JoinedKeeps, LookKeeps, TryKeeps, ChunkKeeps, BodyKeeps, VerifyKeeps, LinkKeeps,
       UnlinkKeeps DEF Step
  <2>2. CASE ~Step(p)
    BY <2>2, StartKeeps, KillKeeps
  <2> QED BY <2>1, <2>2
<1> QED BY <1>1, <1>2

\* The lock, the threads and the two names of each file fit together.
THEOREM DownloadConsistent == Spec => []IInv
<1>1. Init => IInv
  BY InitKeeps
<1>2. IInv /\ [Next]_vars => IInv'
  BY NextKeeps
<1> QED BY <1>1, <1>2, PTL DEF Spec

\* What stands at a final name is the official file (download_paper_assets.py:
\* download), and a report covers only files that are there, for any files, selections
\* and processes, whatever the server sends and wherever a process is killed.
THEOREM DownloadPublishedOfficial == Spec => []PublishedOfficial
<1>1. IInv => PublishedOfficial
  BY DEF IInv, Claiming, Publishing, FileOK, PublishedOfficial
<1> QED BY <1>1, DownloadConsistent, PTL

-----------------------------------------------------------------------------
(* Pretraining                                                              *)

Running == {"train"} \cup Training!Saving \cup Training!Closing

\* m and p are a model of n updates and its progress.
Steady(m, p, n) == Len(m) = n /\ p = [step |-> n, cursor |-> n * Accum]

\* What a run has read.
Started ==
    /\ at # "idle" => run \in Training!Runs /\ config \in Configs /\ final \in 1 .. MaxSteps
    /\ at \in {"idle"} \cup Training!Reading => Steady(model, progress, 0)
    /\ at \in {"resume"} \cup Running /\ run \notin slipped =>
          loaded = base /\ indexed = sha /\ (from # None => from[1] \notin slipped)

\* What a run has trained, and how far its checkpoint is written.
Trained ==
    /\ at \in Running =>
          /\ Steady(model, progress, progress.step)
          /\ progress.step =< final
          /\ run \notin slipped =>
                Training!Uninterrupted(model, progress.step, config, base, sha)
    /\ at \in Training!Saving => progress.step > 0
    /\ at = "state" => checkpoint[Training!Here].model = model
    /\ at \in {"export", "weights"} => Training!Completes

\* What the directories hold.
Kept ==
    /\ \A c \in Training!Runs \X (1 .. MaxSteps) :
          checkpoint[c].at = "whole" =>
              LET k == checkpoint[c]
              IN /\ Steady(k.model, k.progress, c[2])
                 /\ c[1] \notin slipped =>
                       Training!Uninterrupted(k.model, c[2], k.identity.config,
                                              k.identity.base, k.identity.sha)
    /\ \A r \in Training!Runs :
          adapter[r].at = "whole" =>
              /\ Len(adapter[r].model) = MaxSteps
              /\ r \notin slipped =>
                    \E c \in Configs, v, version \in Training!Versions :
                        Training!Uninterrupted(adapter[r].model, MaxSteps, c, v, version)

\* How far the present run has come with its adapter and its report.
Reported ==
    /\ \A r \in Training!Runs : r > run => adapter[r].at = "none" /\ report[r] = "none"
    /\ at # "idle" => report[run] = "none"
    /\ at \in Training!Reading \cup Training!Saving \cup {"train", "check", "export"} =>
          adapter[run].at = "none"
    /\ at = "report" => adapter[run].at = IF Training!Completes THEN "whole" ELSE "none"

\* The inductive invariant of Pretraining.
TrainingInv == Training!TypeOK /\ Started /\ Trained /\ Kept /\ Reported /\ Training!ReportTruthful

-----------------------------------------------------------------------------
(* Facts                                                                    *)

LEMMA Numbers ==
    /\ MaxSteps \in Nat /\ MaxSteps > 0 /\ Accum \in Nat /\ Accum > 0
    /\ CheckpointEvery \in Nat /\ CheckpointEvery > 0 /\ Rows \in Nat /\ Rows > 0
    /\ MaxRuns \in Nat /\ MaxEdits \in Nat
BY TrainingAssumption DEF Training!Assumptions

\* The positions of the k-th update are positions of the whole training.
LEMMA Cursor ==
    ASSUME NEW n \in 0 .. MaxSteps - 1
    PROVE  /\ n * Accum \in Nat
           /\ (n + 1) * Accum = n * Accum + Accum
           /\ (n + 1) * Accum \in 0 .. MaxSteps * Accum
           /\ \A i \in 1 .. Accum : n * Accum + i - 1 \in 0 .. MaxSteps * Accum - 1
<1> DEFINE d == MaxSteps - n - 1
<1>1. d \in Nat /\ n \in Nat /\ MaxSteps = n + 1 + d
  BY Numbers
<1> HIDE DEF d
<1>2. n * Accum \in Nat /\ d * Accum \in Nat
  BY <1>1, Numbers
<1>3. (n + 1) * Accum = n * Accum + Accum
  BY <1>1, Numbers
<1>4. MaxSteps * Accum = n * Accum + Accum + d * Accum
  BY <1>1, Numbers
<1> QED BY <1>2, <1>3, <1>4, Numbers

\* Every position names a row of the corpus.
LEMMA Sampled ==
    ASSUME NEW p \in 0 .. MaxSteps * Accum - 1
    PROVE  Order[p \div Rows][(p % Rows) + 1] \in 0 .. Rows - 1
<1>1. p \in Nat
  BY Numbers
<1>2. Order[p \div Rows] \in [1 .. Rows -> 0 .. Rows - 1]
  BY TrainingAssumption DEF Training!Assumptions
<1>3. (p % Rows) + 1 \in 1 .. Rows
  BY <1>1, Numbers
<1> QED BY <1>2, <1>3

LEMMA RowType ==
    ASSUME NEW index \in 0 .. Rows - 1, NEW version \in Training!Versions
    PROVE  Training!Row(index, version) \in (0 .. Rows - 1) \X Training!Versions
BY DEF Training!Row, Training!Versions

\* What nothing was trained of.
LEMMA Nothing ==
    /\ Steady(<<>>, Training!NoProgress, 0)
    /\ <<>> \in Seq(Training!Updates) /\ Training!NoProgress \in Training!Progress
    /\ Training!NoIdentity \in Training!Identities
<1>1. 0 * Accum = 0 /\ 0 \in 0 .. MaxSteps * Accum /\ 0 \in 0 .. MaxSteps
  BY Numbers
<1> QED BY <1>1 DEF Steady, Training!NoProgress, Training!NoIdentity, Training!Progress,
   Training!Identities, Training!Versions

LEMMA Nil ==
    ASSUME NEW c, NEW b, NEW v, NEW m, NEW p, Steady(m, p, 0)
    PROVE  p.step = 0 /\ Training!Uninterrupted(m, 0, c, b, v)
<1>1. \A k \in 1 .. 0 : FALSE
  OBVIOUS
<1> QED BY <1>1 DEF Steady, Training!Uninterrupted

LEMMA TheIdentity ==
    ASSUME Training!TypeOK
    PROVE  Training!Identity \in Training!Identities
BY DEF Training!TypeOK, Training!Identity, Training!Identities

-----------------------------------------------------------------------------
(* The steps                                                                *)

LEMMA RunEndsKeeps ==
    ASSUME TrainingInv, at # "idle", Training!Ends, UNCHANGED <<Training!files, Training!written>>
    PROVE  TrainingInv'
<1> USE DEF TrainingInv, Training!Ends, Training!files, Training!written
<1>1. Training!TypeOK'
  BY Nothing, Numbers DEF Training!TypeOK, Training!Versions
<1>2. Started'
  BY Nothing DEF Started, Running, Training!Reading, Training!Saving, Training!Closing
<1>3. Trained'
  BY DEF Trained, Running, Training!Reading, Training!Saving, Training!Closing
<1>4. Kept'
  BY DEF Kept
<1>5. Reported'
  BY DEF Reported, Training!Reading, Training!Saving
<1>6. Training!ReportTruthful'
  BY DEF Training!ReportTruthful
<1> QED BY <1>1, <1>2, <1>3, <1>4, <1>5, <1>6

LEMMA RunStartKeeps ==
    ASSUME TrainingInv, NEW c \in Configs, NEW stop \in Stops,
           NEW source \in Training!Saved \cup {None}, Training!Start(c, stop, source)
    PROVE  TrainingInv'
<1> USE DEF TrainingInv, Training!Start, Training!files, Training!written, Training!inputs,
   Training!trained
<1>1. final' \in 1 .. MaxSteps
  BY TrainingAssumption, Numbers DEF Training!Assumptions
<1>2. run' \in Training!Runs /\ run' \in 0 .. MaxRuns /\ run' > run
  BY Numbers DEF Training!TypeOK, Training!Runs
<1>3. Training!TypeOK'
  BY <1>1, <1>2 DEF Training!TypeOK, Training!Saved, Training!Reading
<1>4. Started'
  BY <1>1, <1>2 DEF Started, Running, Training!Reading, Training!Saving, Training!Closing
<1>5. Trained'
  BY DEF Trained, Running, Training!Reading, Training!Saving, Training!Closing
<1>6. Kept'
  BY DEF Kept
<1>7. Reported'
  <2>1. run \in Int /\ \A r \in Training!Runs : r \in Int
    BY DEF Training!TypeOK, Training!Runs
  <2> QED BY <1>2, <2>1 DEF Reported, Training!Reading, Training!Saving
<1>8. Training!ReportTruthful'
  BY DEF Training!ReportTruthful
<1> QED BY <1>3, <1>4, <1>5, <1>6, <1>7, <1>8

\* ReadManifest, LoadBackbone, HashCorpus and IndexCorpus read a file each.
LEMMA ReadingKeeps ==
    ASSUME TrainingInv,
           \/ Training!ReadManifest \/ Training!LoadBackbone
           \/ Training!HashCorpus \/ Training!IndexCorpus
    PROVE  TrainingInv'
<1> USE DEF TrainingInv, Training!ReadManifest, Training!LoadBackbone, Training!HashCorpus,
   Training!IndexCorpus, Training!files, Training!written, Training!args,
       Training!trained
<1>1. Training!TypeOK'
  BY DEF Training!TypeOK, Training!Reading
<1>2. Started'
  BY DEF Started, Running, Training!Reading, Training!Saving, Training!Closing
<1>3. Trained'
  BY DEF Trained, Running, Training!Reading, Training!Saving, Training!Closing
<1>4. Kept'
  BY DEF Kept
<1>5. Reported'
  BY DEF Reported, Training!Reading, Training!Saving
<1>6. Training!ReportTruthful'
  BY DEF Training!ReportTruthful
<1> QED BY <1>1, <1>2, <1>3, <1>4, <1>5, <1>6

\* A run whose second hash agrees has loaded and indexed what it hashed, or has slipped.
LEMMA RecheckKeeps ==
    ASSUME TrainingInv, Training!RecheckCorpus
    PROVE  TrainingInv'
<1> USE DEF TrainingInv, Training!RecheckCorpus, Training!written, Training!args,
   Training!inputs, Training!trained
<1>1. run \in Training!Runs /\ slipped \subseteq slipped'
  BY DEF Started
<1>2. Training!TypeOK'
  BY <1>1 DEF Training!TypeOK, Training!Reading
<1>3. Started'
  BY <1>1 DEF Started, Running, Training!Reading, Training!Saving, Training!Closing, Training!Slips
<1>4. Trained'
  BY DEF Trained, Running, Training!Reading, Training!Saving, Training!Closing
<1>5. Kept'
  BY <1>1 DEF Kept
<1>6. Reported'
  BY DEF Reported, Training!Reading, Training!Saving
<1>7. Training!ReportTruthful'
  BY DEF Training!ReportTruthful
<1> QED BY <1>2, <1>3, <1>4, <1>5, <1>6, <1>7

\* A checkpoint is loaded under the identity it was saved under.
LEMMA BeginKeeps ==
    ASSUME TrainingInv, Training!Begin
    PROVE  TrainingInv'
<1> USE DEF TrainingInv, Training!Begin, Training!files, Training!written, Training!args,
   Training!inputs
<1>1. at = "resume" /\ at' = "train" /\ run \in Training!Runs
  BY DEF Started
<1>2. /\ model' \in Seq(Training!Updates) /\ progress' \in Training!Progress
      /\ Steady(model', progress', progress'.step)
      /\ run \notin slipped => Training!Uninterrupted(model', progress'.step, config, base, sha)
  <2>1. CASE from = None
    <3>1. Steady(model, progress, 0) /\ model' = model /\ progress' = progress
      BY <1>1, <2>1 DEF Started, Training!Reading, Training!Loads
    <3>2. progress.step = 0 /\ Training!Uninterrupted(model, 0, config, base, sha)
      BY <3>1, Nil
    <3> QED BY <3>1, <3>2 DEF Training!TypeOK
  <2>2. CASE from # None
    <3>1. /\ from \in Training!Runs \X (1 .. MaxSteps) /\ Training!Loadable(checkpoint[from])
          /\ model' = checkpoint[from].model /\ progress' = checkpoint[from].progress
      BY <2>2 DEF Training!Loads, Training!TypeOK
    <3>2. checkpoint[from] \in Training!Checkpoints
      BY <3>1 DEF Training!TypeOK
    <3>3. checkpoint[from].at = "whole" /\ checkpoint[from].identity.config = config
          /\ checkpoint[from].identity.base = base /\ checkpoint[from].identity.sha = sha
      BY <3>1 DEF Training!Loadable, Training!Identity
    <3>4. Steady(model', progress', from[2]) /\ progress'.step = from[2]
      BY <3>1, <3>3 DEF Kept, Steady
    <3>5. run \notin slipped => from[1] \notin slipped
      BY <1>1, <2>2 DEF Started
    <3>6. run \notin slipped => Training!Uninterrupted(model', from[2], config, base, sha)
      BY <3>1, <3>3, <3>5 DEF Kept
    <3> QED BY <3>1, <3>2, <3>4, <3>6 DEF Training!Checkpoints
  <2> QED BY <2>1, <2>2
<1>3. Training!TypeOK'
  BY <1>1, <1>2 DEF Training!TypeOK
<1>4. Started'
  BY <1>1 DEF Started, Running, Training!Reading, Training!Saving, Training!Closing
<1>5. progress'.step =< final
  BY <1>2 DEF Training!TypeOK, Training!Progress
<1>6. Trained'
  BY <1>1, <1>2, <1>5 DEF Trained, Running, Training!Reading, Training!Saving, Training!Closing
<1>7. Kept'
  BY DEF Kept
<1>8. Reported'
  BY <1>1 DEF Reported, Training!Reading, Training!Saving
<1>9. Training!ReportTruthful'
  BY DEF Training!ReportTruthful
<1> QED BY <1>3, <1>4, <1>6, <1>7, <1>8, <1>9

-----------------------------------------------------------------------------
(* The training loop                                                        *)

\* The model with one more update.
LEMMA Grows ==
    ASSUME NEW m \in Seq(Training!Updates), NEW e \in Training!Updates, NEW n \in 0 .. MaxSteps - 1,
           NEW c, NEW b, NEW v, Training!Uninterrupted(m, n, c, b, v),
           e.step = n + 1, e.config = c, e.base = b,
           \A i \in 1 .. Accum :
              \E p \in 0 .. MaxSteps * Accum - 1 :
                 /\ p = n * Accum + i - 1
                 /\ e.samples[i] = Training!Row(Order[p \div Rows][(p % Rows) + 1], v)
    PROVE  Training!Uninterrupted(Append(m, e), n + 1, c, b, v)
<1> DEFINE M == Append(m, e)
<1>1. Len(m) = n /\ Len(M) = n + 1
  BY DEF Training!Uninterrupted
<1>2. \A k \in 1 .. n : M[k] = m[k]
  BY <1>1
<1>3. M[n + 1] = e
  BY <1>1
<1> HIDE DEF M
<1>4. ASSUME NEW k \in 1 .. n + 1
      PROVE  /\ M[k].step = k /\ M[k].config = c /\ M[k].base = b
             /\ \A i \in 1 .. Accum :
                   \E p \in 0 .. MaxSteps * Accum - 1 :
                       /\ p = (k - 1) * Accum + i - 1
                       /\ M[k].samples[i] = Training!Row(Order[p \div Rows][(p % Rows) + 1], v)
  <2>1. CASE k \in 1 .. n
    <3>1. M[k] = m[k]
      BY <1>2, <2>1
    <3> QED BY <2>1, <3>1 DEF Training!Uninterrupted
  <2>2. CASE k = n + 1
    <3>1. M[k] = e /\ k - 1 = n
      BY <1>3, <2>2
    <3> QED BY <3>1, <2>2
  <2> QED BY <2>1, <2>2
<1>5. Training!Uninterrupted(M, n + 1, c, b, v)
  BY <1>1, <1>4 DEF Training!Uninterrupted
<1> QED BY <1>5 DEF M

\* An update takes the rows at the cursor, as they were hashed.
LEMMA UpdateKeeps ==
    ASSUME TrainingInv, Training!Update
    PROVE  TrainingInv'
<1> DEFINE n == progress.step
           indices == Training!SampleIndices(progress.cursor, Accum)
           e == [step |-> n + 1, config |-> config, base |-> loaded,
                 samples |-> [i \in 1 .. Accum |-> Training!Row(indices[i], corpus)]]
<1>1. /\ at = "train" /\ n < final /\ Training!RowsUnchanged({indices[i] : i \in 1 .. Accum})
      /\ model' = Append(model, e)
      /\ progress' = [step |-> n + 1, cursor |-> progress.cursor + Accum]
      /\ at' = IF Training!Due(n + 1) THEN "save" ELSE "train"
      /\ UNCHANGED <<Training!files, Training!written, Training!args, Training!inputs>>
  BY DEF Training!Update, Training!MoreSteps
<1>2. UNCHANGED <<backbone, corpus, edits, slipped, checkpoint, adapter, report, run, config,
                  final, from, base, loaded, sha, indexed>>
  BY <1>1 DEF Training!files, Training!written, Training!args, Training!inputs
<1>3. /\ Training!TypeOK /\ run \in Training!Runs /\ config \in Configs /\ final \in 1 .. MaxSteps
      /\ Steady(model, progress, n)
      /\ run \notin slipped => loaded = base /\ indexed = sha
      /\ run \notin slipped => Training!Uninterrupted(model, n, config, base, sha)
      /\ run \notin slipped => (from # None => from[1] \notin slipped)
  BY <1>1 DEF TrainingInv, Started, Trained, Running
<1>4. n \in 0 .. MaxSteps - 1
  BY <1>1, <1>3, Numbers DEF Training!TypeOK, Training!Progress
<1>5. /\ progress.cursor = n * Accum
      /\ progress' = [step |-> n + 1, cursor |-> (n + 1) * Accum]
      /\ progress' \in Training!Progress
      /\ \A i \in 1 .. Accum : n * Accum + i - 1 \in 0 .. MaxSteps * Accum - 1
  <2>1. progress.cursor = n * Accum
    BY <1>3 DEF Steady
  <2>2. /\ (n + 1) * Accum = n * Accum + Accum
        /\ (n + 1) * Accum \in 0 .. MaxSteps * Accum
        /\ \A i \in 1 .. Accum : n * Accum + i - 1 \in 0 .. MaxSteps * Accum - 1
    BY <1>4, Cursor
  <2>3. n + 1 \in 0 .. MaxSteps
    BY <1>4, Numbers
  <2> HIDE DEF n
  <2>4. progress' = [step |-> n + 1, cursor |-> (n + 1) * Accum]
    BY <1>1, <2>1, <2>2
  <2> QED BY <2>1, <2>2, <2>3, <2>4 DEF Training!Progress
<1>6. ASSUME NEW i \in 1 .. Accum
      PROVE  \E p \in 0 .. MaxSteps * Accum - 1 :
                /\ p = n * Accum + i - 1
                /\ indices[i] = Order[p \div Rows][(p % Rows) + 1]
                /\ indices[i] \in 0 .. Rows - 1
  <2> DEFINE p == n * Accum + i - 1
  <2>1. p \in 0 .. MaxSteps * Accum - 1
    BY <1>5
  <2>2. indices[i] = Order[p \div Rows][(p % Rows) + 1]
    BY <1>5 DEF Training!SampleIndices
  <2>3. Order[p \div Rows][(p % Rows) + 1] \in 0 .. Rows - 1
    BY <2>1, Sampled
  <2> HIDE DEF n, indices
  <2> QED BY <2>1, <2>2, <2>3
<1> HIDE DEF n, indices
<1>7. e \in Training!Updates
  <2>1. \A i \in 1 .. Accum :
            Training!Row(indices[i], corpus) \in (0 .. Rows - 1) \X Training!Versions
    BY <1>3, <1>6, RowType DEF Training!TypeOK
  <2>2. n + 1 \in 1 .. MaxSteps
    BY <1>4, Numbers
  <2> QED BY <1>3, <2>1, <2>2 DEF Training!Updates, Training!TypeOK
<1>8. model' \in Seq(Training!Updates) /\ Len(model') = n + 1
  BY <1>1, <1>3, <1>4, <1>7 DEF Training!TypeOK, Steady
<1>9. run \notin slipped => Training!Uninterrupted(model', n + 1, config, base, sha)
  <2> SUFFICES ASSUME run \notin slipped
               PROVE  Training!Uninterrupted(model', n + 1, config, base, sha)
    OBVIOUS
  <2>1. ASSUME NEW i \in 1 .. Accum
        PROVE  \E p \in 0 .. MaxSteps * Accum - 1 :
                  /\ p = n * Accum + i - 1
                  /\ e.samples[i] = Training!Row(Order[p \div Rows][(p % Rows) + 1], sha)
    <3>1. e.samples[i] = Training!Row(indices[i], corpus)
      OBVIOUS
    <3>2. Training!Row(indices[i], corpus) = Training!Row(indices[i], sha)
      BY <1>1, <1>3 DEF Training!RowsUnchanged
    <3> HIDE DEF e
    <3> QED BY <1>6, <3>1, <3>2
  <2>2. Training!Uninterrupted(model, n, config, base, sha) /\ model \in Seq(Training!Updates)
    BY <1>3 DEF Training!TypeOK
  <2>3. e.step = n + 1 /\ e.config = config /\ e.base = base
    BY <1>3
  <2> HIDE DEF e
  <2>4. Training!Uninterrupted(Append(model, e), n + 1, config, base, sha)
    BY <1>4, <1>7, <2>1, <2>2, <2>3, Grows
  <2> QED BY <1>1, <2>4
<1> HIDE DEF e
<1>10. at' \in {"save", "train"}
  BY <1>1
<1>11. Steady(model', progress', n + 1) /\ progress'.step = n + 1
  BY <1>5, <1>8 DEF Steady
<1>12. Training!TypeOK'
  BY <1>2, <1>3, <1>5, <1>8, <1>10 DEF Training!TypeOK, Training!Saving
<1>13. Started'
  BY <1>2, <1>3, <1>10 DEF Started, Training!Reading
<1>14. Trained'
  <2>1. n + 1 =< final /\ n + 1 > 0
    BY <1>1, <1>3, <1>4
  <2> QED BY <1>2, <1>9, <1>10, <1>11, <2>1 DEF Trained, Training!Closing
<1>15. Kept' /\ Training!ReportTruthful'
  BY <1>2 DEF TrainingInv, Kept, Training!ReportTruthful
<1>16. Reported'
  BY <1>1, <1>2, <1>10 DEF TrainingInv, Reported, Training!Saving
<1> QED BY <1>12, <1>13, <1>14, <1>15, <1>16 DEF TrainingInv

\* The checkpoint that a run writes is its own.
LEMMA HereFacts ==
    ASSUME TrainingInv, at \in Training!Saving
    PROVE  /\ Training!Here \in Training!Runs \X (1 .. MaxSteps)
           /\ Training!Here[1] = run /\ Training!Here[2] = progress.step
<1>1. run \in Training!Runs
  BY DEF TrainingInv, Started, Training!Saving
<1>2. progress.step \in 1 .. MaxSteps
  BY DEF TrainingInv, Training!TypeOK, Trained, Training!Progress
<1> QED BY <1>1, <1>2 DEF Training!Here

\* The three writes of a checkpoint, of which the last makes it whole.
LEMMA SavingKeeps ==
    ASSUME TrainingInv, Training!SaveDirectory \/ Training!SaveTensors \/ Training!SaveState
    PROVE  TrainingInv'
<1> DEFINE k == checkpoint[Training!Here]
           k1 == checkpoint'[Training!Here]
<1>1. /\ at \in Training!Saving /\ at' \in Training!Saving \cup {"train"}
      /\ UNCHANGED <<backbone, corpus, edits, slipped, adapter, report, run, config,
                     final, from, base, loaded, sha, indexed, model, progress>>
  BY DEF Training!SaveDirectory, Training!SaveTensors, Training!SaveState, Training!files,
     Training!args, Training!inputs, Training!trained, Training!Saving
<1>2. /\ Training!Here \in Training!Runs \X (1 .. MaxSteps)
      /\ Training!Here[1] = run /\ Training!Here[2] = progress.step
  BY <1>1, HereFacts
<1>3. /\ Training!TypeOK /\ config \in Configs /\ Steady(model, progress, progress.step)
      /\ run \notin slipped =>
            Training!Uninterrupted(model, progress.step, config, base, sha)
  BY <1>1 DEF TrainingInv, Started, Trained, Running, Training!Saving
<1>4. k \in Training!Checkpoints
  BY <1>2, <1>3 DEF Training!TypeOK
<1>5. /\ \A c \in Training!Runs \X (1 .. MaxSteps) :
             c # Training!Here => checkpoint'[c] = checkpoint[c]
      /\ checkpoint' \in [Training!Runs \X (1 .. MaxSteps) -> Training!Checkpoints]
      /\ \/ at' = "tensors" /\ k1.at = "dir"
         \/ at' = "state" /\ k1.at = "tensors" /\ k1.model = model
         \/ /\ at = "state" /\ at' = "train" /\ k1.at = "whole" /\ k1.model = k.model
            /\ k1.identity = Training!Identity /\ k1.progress = progress
  <2>1. CASE Training!SaveDirectory
    <3>1. checkpoint' = [checkpoint EXCEPT ![Training!Here] = [k EXCEPT !.at = "dir"]]
      BY <2>1 DEF Training!SaveDirectory
    <3>2. [k EXCEPT !.at = "dir"] \in Training!Checkpoints /\ [k EXCEPT !.at = "dir"].at = "dir"
      BY <1>4 DEF Training!Checkpoints
    <3> QED BY <1>2, <1>3, <2>1, <3>1, <3>2 DEF Training!SaveDirectory, Training!TypeOK
  <2>2. CASE Training!SaveTensors
    <3> DEFINE w == [k EXCEPT !.at = "tensors", !.model = model]
    <3>1. checkpoint' = [checkpoint EXCEPT ![Training!Here] = w]
      BY <2>2 DEF Training!SaveTensors
    <3>2. w \in Training!Checkpoints /\ w.at = "tensors" /\ w.model = model
      BY <1>3, <1>4 DEF Training!Checkpoints, Training!TypeOK
    <3> HIDE DEF w
    <3> QED BY <1>2, <1>3, <2>2, <3>1, <3>2 DEF Training!SaveTensors, Training!TypeOK
  <2>3. CASE Training!SaveState
    <3> DEFINE w == [k EXCEPT !.at = "whole", !.identity = Training!Identity, !.progress = progress]
    <3>1. checkpoint' = [checkpoint EXCEPT ![Training!Here] = w]
      BY <2>3 DEF Training!SaveState
    <3>2. Training!Identity \in Training!Identities /\ progress \in Training!Progress
      BY <1>3, TheIdentity DEF Training!TypeOK
    <3>3. /\ w \in Training!Checkpoints /\ w.at = "whole" /\ w.model = k.model
          /\ w.identity = Training!Identity /\ w.progress = progress
      BY <1>4, <3>2 DEF Training!Checkpoints
    <3> HIDE DEF w
    <3>4. checkpoint' = [checkpoint EXCEPT ![Training!Here] = w] /\ at = "state" /\ at' = "train"
      BY <2>3, <3>1 DEF Training!SaveState
    <3>5. checkpoint' \in [Training!Runs \X (1 .. MaxSteps) -> Training!Checkpoints] /\ k1 = w
      BY <1>2, <1>3, <3>3, <3>4 DEF Training!TypeOK
    <3>6. \A c \in Training!Runs \X (1 .. MaxSteps) :
              c # Training!Here => checkpoint'[c] = checkpoint[c]
      BY <1>2, <1>3, <3>4 DEF Training!TypeOK
    <3> QED BY <3>3, <3>4, <3>5, <3>6
  <2> QED BY <2>1, <2>2, <2>3
<1>6. at = "state" => k.model = model
  BY DEF TrainingInv, Trained
<1>7. Training!Here' = Training!Here
  BY <1>1 DEF Training!Here
<1>8. Training!TypeOK'
  BY <1>1, <1>3, <1>5 DEF Training!TypeOK, Training!Saving
<1>9. Started'
  BY <1>1 DEF TrainingInv, Started, Running, Training!Reading, Training!Saving, Training!Closing
<1>10. Trained'
  BY <1>1, <1>5, <1>7 DEF TrainingInv, Trained, Running, Training!Saving, Training!Closing,
     Training!Completes
<1>11. Kept'
  <2>1. ASSUME NEW c \in Training!Runs \X (1 .. MaxSteps), checkpoint'[c].at = "whole"
        PROVE  LET q == checkpoint'[c]
               IN /\ Steady(q.model, q.progress, c[2])
                  /\ c[1] \notin slipped =>
                        Training!Uninterrupted(q.model, c[2], q.identity.config,
                                               q.identity.base, q.identity.sha)
    <3>1. CASE c # Training!Here
      BY <1>5, <2>1, <3>1 DEF TrainingInv, Kept
    <3>2. CASE c = Training!Here
      <4>1. /\ k1.model = model /\ k1.progress = progress
            /\ k1.identity.config = config /\ k1.identity.base = base
            /\ k1.identity.sha = sha
        BY <1>5, <1>6, <2>1, <3>2 DEF Training!Identity
      <4> QED BY <1>2, <1>3, <3>2, <4>1
    <3> QED BY <3>1, <3>2
  <2> QED BY <1>1, <2>1 DEF TrainingInv, Kept
<1>12. Reported' /\ Training!ReportTruthful'
  BY <1>1 DEF TrainingInv, Reported, Training!ReportTruthful, Training!Saving
<1> QED BY <1>8, <1>9, <1>10, <1>11, <1>12 DEF TrainingInv

-----------------------------------------------------------------------------
(* The end of a run                                                         *)

\* CheckBackbone and CheckCorpus change nothing but where the run is.
LEMMA CheckKeeps ==
    ASSUME TrainingInv, Training!CheckBackbone \/ Training!CheckCorpus
    PROVE  TrainingInv'
<1> USE DEF TrainingInv, Training!CheckBackbone, Training!CheckCorpus, Training!files,
   Training!written, Training!args, Training!inputs, Training!trained
<1>1. Training!TypeOK'
  BY DEF Training!TypeOK, Training!Closing
<1>2. Started'
  BY DEF Started, Running, Training!Reading, Training!Saving, Training!Closing
<1>3. Trained'
  BY DEF Trained, Running, Training!Reading, Training!Saving, Training!Closing, Training!Completes
<1>4. Kept'
  BY DEF Kept
<1>5. Reported'
  BY DEF Reported, Training!Reading, Training!Saving, Training!Closing, Training!Completes
<1>6. Training!ReportTruthful'
  BY DEF Training!ReportTruthful
<1> QED BY <1>1, <1>2, <1>3, <1>4, <1>5, <1>6

\* The two writes of an adapter.
LEMMA ExportKeeps ==
    ASSUME TrainingInv, Training!Export \/ Training!ExportDone
    PROVE  TrainingInv'
<1> DEFINE b == adapter'[run]
<1>1. /\ at \in {"export", "weights"} /\ at' \in {"weights", "report"}
      /\ at' = "report" <=> at = "weights"
      /\ UNCHANGED <<backbone, corpus, edits, slipped, checkpoint, report, run, config,
                     final, from, base, loaded, sha, indexed, model, progress>>
  BY DEF Training!Export, Training!ExportDone, Training!files, Training!args, Training!inputs,
     Training!trained
<1>2. /\ Training!TypeOK /\ run \in Training!Runs /\ config \in Configs /\ Training!Completes
      /\ Steady(model, progress, MaxSteps)
      /\ run \notin slipped => Training!Uninterrupted(model, MaxSteps, config, base, sha)
      /\ report[run] = "none"
  BY <1>1 DEF TrainingInv, Started, Trained, Reported, Running, Training!Closing, Training!Completes
<1>3. /\ \A r \in Training!Runs : r # run => adapter'[r] = adapter[r]
      /\ adapter' \in [Training!Runs -> Training!Exports]
      /\ \/ at = "export" /\ b.at = "dir"
         \/ at = "weights" /\ b.at = "whole" /\ b.model = model
  <2>0. adapter[run] \in Training!Exports
    BY <1>2 DEF Training!TypeOK
  <2>1. CASE Training!Export
    <3> DEFINE w == [adapter[run] EXCEPT !.at = "dir", !.base = backbone]
    <3>1. adapter' = [adapter EXCEPT ![run] = w]
      BY <2>1 DEF Training!Export
    <3>2. w \in Training!Exports /\ w.at = "dir"
      BY <1>2, <2>0 DEF Training!Exports, Training!TypeOK
    <3> HIDE DEF w
    <3> QED BY <1>2, <2>1, <3>1, <3>2 DEF Training!Export, Training!TypeOK
  <2>2. CASE Training!ExportDone
    <3> DEFINE w == [adapter[run] EXCEPT !.at = "whole", !.model = model]
    <3>1. adapter' = [adapter EXCEPT ![run] = w]
      BY <2>2 DEF Training!ExportDone
    <3>2. w \in Training!Exports /\ w.at = "whole" /\ w.model = model
      BY <1>2, <2>0 DEF Training!Exports, Training!TypeOK
    <3> HIDE DEF w
    <3> QED BY <1>2, <2>2, <3>1, <3>2 DEF Training!ExportDone, Training!TypeOK
  <2> QED BY <2>1, <2>2
<1> HIDE DEF b
<1>4. Training!TypeOK'
  BY <1>1, <1>2, <1>3 DEF Training!TypeOK, Training!Closing
<1>5. Started'
  BY <1>1 DEF TrainingInv, Started, Running, Training!Reading, Training!Saving, Training!Closing
<1>6. Trained'
  BY <1>1, <1>2 DEF TrainingInv, Trained, Running, Training!Saving, Training!Closing,
     Training!Completes
<1>7. Kept'
  <2>1. ASSUME NEW r \in Training!Runs, adapter'[r].at = "whole"
        PROVE  /\ Len(adapter'[r].model) = MaxSteps
               /\ r \notin slipped =>
                     \E c \in Configs, v, version \in Training!Versions :
                        Training!Uninterrupted(adapter'[r].model, MaxSteps, c, v, version)
    <3>1. CASE r # run
      BY <1>3, <2>1, <3>1 DEF TrainingInv, Kept
    <3>2. CASE r = run
      <4>1. b.model = model
        BY <1>3, <2>1, <3>2 DEF b
      <4>2. Len(model) = MaxSteps /\ base \in Training!Versions /\ sha \in Training!Versions
        BY <1>2 DEF Steady, Training!TypeOK
      <4> QED BY <1>2, <3>2, <4>1, <4>2 DEF b
    <3> QED BY <3>1, <3>2
  <2> QED BY <1>1, <2>1 DEF TrainingInv, Kept
<1>8. Reported'
  <2>1. ASSUME NEW r \in Training!Runs, r > run PROVE adapter'[r].at = "none" /\ report'[r] = "none"
    <3>1. r # run
      BY <2>1 DEF Training!Runs
    <3> QED BY <1>1, <1>3, <2>1, <3>1 DEF TrainingInv, Reported
  <2>2. at' = "report" => adapter'[run'].at = "whole" /\ Training!Completes'
    BY <1>1, <1>2, <1>3 DEF b, Training!Completes
  <2> QED BY <1>1, <1>2, <2>1, <2>2 DEF Reported, Training!Reading, Training!Saving
<1>9. Training!ReportTruthful'
  BY <1>1, <1>2, <1>3 DEF TrainingInv, Training!ReportTruthful
<1> QED BY <1>4, <1>5, <1>6, <1>7, <1>8, <1>9 DEF TrainingInv

\* The report says complete only beside a whole adapter.
LEMMA ReportKeeps ==
    ASSUME TrainingInv, Training!Report
    PROVE  TrainingInv'
<1> DEFINE status == IF Training!Completes THEN "complete" ELSE "partial"
<1>1. /\ at = "report" /\ report' = [report EXCEPT ![run] = status] /\ Training!Ends
      /\ UNCHANGED <<backbone, corpus, edits, slipped, checkpoint, adapter>>
  BY DEF Training!Report, Training!files
<1>2. /\ Training!TypeOK /\ run \in Training!Runs /\ run' = run /\ at' = "idle"
      /\ adapter[run].at = IF Training!Completes THEN "whole" ELSE "none"
  BY <1>1 DEF TrainingInv, Started, Reported, Training!Ends
<1>3. Training!TypeOK'
  <2>1. report' \in [Training!Runs -> {"none", "partial", "complete"}]
    BY <1>1, <1>2 DEF Training!TypeOK
  <2> QED BY <1>1, <1>2, <2>1, Nothing, Numbers DEF Training!TypeOK, Training!Ends,
     Training!Versions
<1>4. Started'
  BY <1>1, Nothing DEF Started, Training!Ends, Running, Training!Reading, Training!Saving,
     Training!Closing
<1>5. Trained'
  BY <1>2 DEF Trained, Running, Training!Saving, Training!Closing
<1>6. Kept'
  BY <1>1 DEF TrainingInv, Kept
<1>7. report' \in [Training!Runs -> {"none", "partial", "complete"}]
      /\ report'[run] = status /\ \A r \in Training!Runs : r # run => report'[r] = report[r]
  BY <1>1, <1>2 DEF Training!TypeOK
<1>8. Reported'
  <2>1. \A r \in Training!Runs : r > run => r # run
    BY DEF Training!Runs
  <2> QED BY <1>1, <1>2, <1>7, <2>1 DEF TrainingInv, Reported, Training!Reading, Training!Saving
<1>9. Training!ReportTruthful'
  <2>1. Training!Completes => Len(adapter[run].model) = MaxSteps
    BY <1>2 DEF TrainingInv, Kept
  <2> QED BY <1>1, <1>2, <1>7, <2>1 DEF TrainingInv, Training!ReportTruthful
<1> QED BY <1>3, <1>4, <1>5, <1>6, <1>8, <1>9 DEF TrainingInv

LEMMA EditKeeps ==
    ASSUME TrainingInv, Training!Edit
    PROVE  TrainingInv'
<1> USE DEF TrainingInv, Training!Edit, Training!written, Training!args, Training!inputs,
   Training!trained
<1>1. Training!TypeOK'
  BY Numbers DEF Training!TypeOK, Training!Versions
<1>2. Started'
  BY DEF Started, Running, Training!Reading, Training!Saving, Training!Closing
<1>3. Trained'
  BY DEF Trained, Training!Completes, Training!Here
<1>4. Kept'
  BY DEF Kept
<1>5. Reported'
  BY DEF Reported, Training!Completes
<1>6. Training!ReportTruthful'
  BY DEF Training!ReportTruthful
<1> QED BY <1>1, <1>2, <1>3, <1>4, <1>5, <1>6

-----------------------------------------------------------------------------
\* Nothing was written yet.
LEMMA TrainingInitKeeps == ASSUME Training!Init PROVE TrainingInv
<1>1. Training!TypeOK
  <2>1. Training!NoCheckpoint \in Training!Checkpoints
    BY Nothing DEF Training!NoCheckpoint, Training!Checkpoints
  <2>2. Training!NoAdapter \in Training!Exports
    BY Nothing DEF Training!NoAdapter, Training!Exports, Training!Versions
  <2>3. 0 \in 0 .. MaxSteps /\ 0 \in 0 .. MaxRuns /\ 0 \in 0 .. MaxEdits
    BY Numbers
  <2> QED BY <2>1, <2>2, <2>3, Nothing DEF Training!Init, Training!TypeOK, Training!Versions
<1>2. Started
  BY Nothing DEF Training!Init, Started, Running, Training!Reading, Training!Saving,
     Training!Closing
<1>3. Trained
  BY DEF Training!Init, Trained, Running, Training!Saving, Training!Closing
<1>4. Kept
  BY DEF Training!Init, Kept, Training!NoCheckpoint, Training!NoAdapter
<1>5. Reported
  BY DEF Training!Init, Reported, Training!NoAdapter, Training!Reading, Training!Saving
<1>6. Training!ReportTruthful
  BY DEF Training!Init, Training!ReportTruthful
<1> QED BY <1>1, <1>2, <1>3, <1>4, <1>5, <1>6 DEF TrainingInv

\* Every step of a run, or between two runs, keeps the invariant.
LEMMA TrainingNextKeeps == ASSUME TrainingInv, [Training!Next]_Training!vars PROVE TrainingInv'
<1>1. CASE UNCHANGED Training!vars
  <2>1. UNCHANGED <<backbone, corpus, edits, slipped, checkpoint, adapter, report, at, run,
                    config, final, from, base, loaded, sha, indexed, model, progress>>
    BY <1>1 DEF Training!vars, Training!files, Training!written, Training!args, Training!inputs,
       Training!trained
  <2> QED BY <2>1 DEF TrainingInv, Training!TypeOK, Started, Trained, Kept, Reported,
         Training!ReportTruthful, Training!Here, Training!Completes
<1>2. CASE \E c \in Configs, stop \in Stops, source \in Training!Saved \cup {None} :
              Training!Start(c, stop, source)
  BY <1>2, RunStartKeeps
<1>3. CASE \/ Training!ReadManifest \/ Training!LoadBackbone
           \/ Training!HashCorpus \/ Training!IndexCorpus
  BY <1>3, ReadingKeeps
<1>4. CASE \/ Training!RecheckFails \/ Training!BeginRefused
           \/ Training!CheckBackboneFails \/ Training!CheckCorpusFails \/ Training!Crash
  BY <1>4, RunEndsKeeps DEF Training!RecheckFails, Training!BeginRefused,
     Training!CheckBackboneFails, Training!CheckCorpusFails, Training!Crash
<1>5. CASE Training!SaveDirectory \/ Training!SaveTensors \/ Training!SaveState
  BY <1>5, SavingKeeps
<1>6. CASE Training!CheckBackbone \/ Training!CheckCorpus
  BY <1>6, CheckKeeps
<1>7. CASE Training!Export \/ Training!ExportDone
  BY <1>7, ExportKeeps
<1>8. CASE \/ Training!RecheckCorpus \/ Training!Begin \/ Training!Update
           \/ Training!Report \/ Training!Edit
  BY <1>8, RecheckKeeps, BeginKeeps, UpdateKeeps, ReportKeeps, EditKeeps
<1> QED BY <1>1, <1>2, <1>3, <1>4, <1>5, <1>6, <1>7, <1>8 DEF Training!Next

\* The properties that the invariant is for.
LEMMA Implied == TrainingInv => Training!ResumeExact /\ Training!ReportTruthful
<1> SUFFICES ASSUME TrainingInv PROVE Training!ResumeExact
  BY DEF TrainingInv
<1>1. Training!Saved \subseteq Training!Runs \X (1 .. MaxSteps)
  BY DEF Training!Saved
<1> QED BY <1>1 DEF TrainingInv, Kept, Training!ResumeExact, Steady

-----------------------------------------------------------------------------
(* The theorems about training                                              *)

\* In a behaviour of the two programs, each takes its own steps.
LEMMA Either == EitherSpec => Spec /\ Training!Spec
<1>1. EitherInit => Init /\ Training!Init
  BY DEF EitherInit
<1>2. [Train \/ Download]_<<vars, program, training>> => [Next]_vars
  BY DEF Train, Download
<1>3. [Train \/ Download]_<<vars, program, training>> => [Training!Next]_Training!vars
  <2>1. UNCHANGED training => UNCHANGED Training!vars
    BY DEF training, Training!vars, Training!files, Training!written, Training!args,
       Training!inputs, Training!trained
  <2> QED BY <2>1 DEF Train, Download
<1> QED BY <1>1, <1>2, <1>3, PTL DEF EitherSpec, Spec, Training!Spec

\* A run's memory, its directories and its report fit together.
THEOREM TrainingConsistent == EitherSpec => []TrainingInv
<1>1. Training!Init => TrainingInv
  BY TrainingInitKeeps
<1>2. TrainingInv /\ [Training!Next]_Training!vars => TrainingInv'
  BY TrainingNextKeeps
<1> QED BY <1>1, <1>2, Either, PTL DEF Training!Spec

\* Checkpoints that can be resumed and adapters that were exported
\* (training_pipeline.py: run_pretraining) are those of an uninterrupted run over one
\* backbone and one corpus, for any numbers of steps, rows and runs, wherever runs stop,
\* crash and resume and whenever the inputs are edited, unless the run, or one that it
\* resumes, loaded or indexed another version than it hashed.
THEOREM TrainingResumeExact == EitherSpec => []ResumeExact
<1>1. TrainingInv => ResumeExact
  BY Implied DEF ResumeExact
<1> QED BY <1>1, TrainingConsistent, PTL

\* A report that claims completion stands beside a whole adapter, one of a run that was
\* stopped early beside none (training_pipeline.py: the end of run_pretraining).
THEOREM TrainingReportTruthful == EitherSpec => []ReportTruthful
<1>1. TrainingInv => ReportTruthful
  BY Implied DEF ReportTruthful
<1> QED BY <1>1, TrainingConsistent, PTL
=============================================================================
