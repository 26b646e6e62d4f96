---------------------------- MODULE AssetDownload ----------------------------
(***************************************************************************)
(* scripts/download_paper_assets.py: several runs of the downloader over   *)
(* one asset directory.  A run claims the directory for its specification  *)
(* and selection, takes the directory's lock, resolves the list of files   *)
(* once, and lets each file be fetched by a thread of its pool: resumed    *)
(* from its .part file, retried, verified, linked to its final name.       *)
(* Processes may be killed between any two steps.                          *)
(*                                                                         *)
(* The bytes of a file are how many there are and whether all of them are  *)
(* the official ones.  Bodies come in chunks, of length 1 here.  Symbolic  *)
(* links, foreign owners and paths (regular, safe_child) are left out.     *)
(*                                                                         *)
(* A definition named ...Fault is the one after it with a plausible        *)
(* mistake; no specification uses it.                                      *)
(***************************************************************************)
EXTENDS Integers

CONSTANTS
    Items,          \* the files that specifications list
    Length,         \* [Items -> Nat]: the length of the official file
    Limit,          \* [Items -> Nat]: "size" if it is declared, else "max_bytes"
    Sized,          \* the items that declare their size, which is their Length
    Selections,     \* --only, and the digest of the specification
    Chosen,         \* [Selections -> SUBSET Items]: what resolve finds
    Processes,
    Attempts,       \* requests for one file in one run: 6 in the code
    MaxStarts,      \* bound: runs of the program
    None

VARIABLES
    owner, manifest,    \* .owner.json, download_manifest.json
    holder,             \* the process that has the lock
    part, target,       \* [Items -> bytes or None]: the .part files, the published ones
    linked,             \* the items whose two names are one file
    process,            \* what each process does
    worker,             \* what the thread of each process and item does
    attested,           \* the selections that a verification report covers
    starts

Bytes == [length : Nat, good : BOOLEAN]

\* A JSON file that is there, but not in full, does not parse.
Truncated == "truncated"

ASSUME FileAssumption ==
    /\ Length \in [Items -> Nat] /\ Limit \in [Items -> Nat] /\ Attempts \in Nat
    /\ Sized \subseteq Items /\ \A f \in Sized : Limit[f] = Length[f]
ASSUME ChosenAssumption == Chosen \in [Selections -> SUBSET Items]
ASSUME NoneAssumption ==
    /\ None \notin Selections /\ None \notin Processes /\ None \notin Bytes
    /\ Truncated \notin Selections /\ Truncated # None

disk == <<part, target, linked>>
vars == <<owner, manifest, holder, disk, process, worker, attested, starts>>

Down == [at |-> "down", selection |-> None, verifyOnly |-> FALSE]
Waiting == [at |-> "look", attempt |-> 0]
NoThreads == [f \in Items |-> Waiting]

Official(f, bytes) == bytes.length = Length[f] /\ bytes.good
Held(f) == IF part[f] = None THEN 0 ELSE part[f].length

Init ==
    /\ owner = None /\ manifest = None /\ holder = None
    /\ part = [f \in Items |-> None] /\ target = [f \in Items |-> None] /\ linked = {}
    /\ process = [p \in Processes |-> Down]
    /\ worker = [p \in Processes |-> NoThreads]
    /\ attested = {} /\ starts = 0

-----------------------------------------------------------------------------
(* A process                                                                *)

Goes(p, next) == process' = [process EXCEPT ![p].at = next] /\ UNCHANGED <<holder, worker>>

\* The process ends, and its lock with it.
Ends(p) ==
    /\ process' = [process EXCEPT ![p] = Down]
    /\ worker' = [worker EXCEPT ![p] = NoThreads]
    /\ holder' = IF holder = p THEN None ELSE holder

Start(p, selection, verifyOnly) ==
    /\ process[p] = Down
    /\ starts < MaxStarts /\ starts' = starts + 1
    /\ process' = [process EXCEPT ![p] = [at |-> "owner", selection |-> selection,
                                          verifyOnly |-> verifyOnly]]
    /\ UNCHANGED <<owner, manifest, holder, disk, worker, attested>>

Owner(p) ==
    /\ process[p].at = "owner"
    /\ CASE owner = process[p].selection -> Goes(p, "lock")
         [] owner = None /\ ~process[p].verifyOnly -> Goes(p, "claim")
         [] OTHER -> Ends(p)
    /\ UNCHANGED <<owner, manifest, disk, attested, starts>>

\* json_new: O_EXCL, then the content.
Claim(p) ==
    /\ process[p].at = "claim"
    /\ IF owner = None THEN owner' = Truncated /\ Goes(p, "claimed")
                       ELSE Ends(p) /\ UNCHANGED owner
    /\ UNCHANGED <<manifest, disk, attested, starts>>

Claimed(p) ==
    /\ process[p].at = "claimed"
    /\ owner' = process[p].selection
    /\ Goes(p, "lock")
    /\ UNCHANGED <<manifest, disk, attested, starts>>

FreeFault == TRUE
Free == holder = None

\* flock: at once or not at all.
Lock(p) ==
    /\ process[p].at = "lock"
    /\ IF Free THEN /\ holder' = p /\ process' = [process EXCEPT ![p].at = "manifest"]
                    /\ UNCHANGED worker
               ELSE Ends(p)
    /\ UNCHANGED <<owner, manifest, disk, attested, starts>>

\* Also: there is not enough free space, or the list of files cannot be resolved.
Manifest(p) ==
    /\ process[p].at = "manifest"
    /\ \/ manifest = process[p].selection /\ Goes(p, "work") /\ UNCHANGED manifest
       \/ /\ manifest = None /\ ~process[p].verifyOnly
          /\ manifest' = Truncated /\ Goes(p, "resolved")
       \/ /\ manifest # process[p].selection \/ ~process[p].verifyOnly
          /\ Ends(p) /\ UNCHANGED manifest
    /\ UNCHANGED <<owner, disk, attested, starts>>

Resolved(p) ==
    /\ process[p].at = "resolved"
    /\ manifest' = process[p].selection
    /\ \/ Goes(p, "work")
       \/ Ends(p)
    /\ UNCHANGED <<owner, disk, attested, starts>>

Mine(p) == Chosen[process[p].selection]
Failed(p) == {f \in Mine(p) : worker[p][f].at = "failed"}
Done(p) == {f \in Mine(p) : worker[p][f].at = "done"}

Attests(p) == Failed(p) = {}

\* executor.map raises the first error; what has not begun is then cancelled, and
\* what has begun is waited for.
Joined(p) ==
    /\ process[p].at = "work"
    /\ \A f \in Mine(p) \ (Done(p) \cup Failed(p)) :
          Failed(p) # {} /\ worker[p][f] = Waiting
    /\ attested' = IF Attests(p) THEN attested \cup {process[p].selection} ELSE attested
    /\ Ends(p)
    /\ UNCHANGED <<owner, manifest, disk, starts>>

Kill(p) ==
    /\ process[p] # Down
    /\ Ends(p)
    /\ UNCHANGED <<owner, manifest, disk, attested, starts>>

-----------------------------------------------------------------------------
(* download: the thread of process p for item f                             *)

Working(p, f, at) == process[p].at = "work" /\ f \in Mine(p) /\ worker[p][f].at = at
Thread(p, f, next) == worker' = [worker EXCEPT ![p][f] = [Waiting EXCEPT !.at = next]]

\* What a thread leaves alone.
Others == UNCHANGED <<owner, manifest, holder, process, attested, starts>>

Look(p, f) ==
    /\ Working(p, f, "look")
    /\ CASE target[f] # None -> Thread(p, f, IF Official(f, target[f]) THEN "done" ELSE "failed")
         [] target[f] = None -> Thread(p, f, IF process[p].verifyOnly THEN "failed" ELSE "try")
    /\ Others /\ UNCHANGED disk

\* There is nothing left to ask for: a known length is reached, or what an unknown
\* one has so far is already the file.
Fetched(f) ==
    \/ f \in Sized /\ Held(f) = Limit[f]
    \/ f \notin Sized /\ part[f] # None /\ Official(f, part[f])

\* The next attempt; a transient error of the last one is raised.
RetriesFault(p, f) == worker' = [worker EXCEPT ![p][f].at = "try"]
Retries(p, f) ==
    worker' = [worker EXCEPT ![p][f] =
        IF @.attempt + 1 < Attempts THEN [at |-> "try", attempt |-> @.attempt + 1]
                                    ELSE [Waiting EXCEPT !.at = "failed"]]

\* The request, and what the server answers: a body from the first missing byte
\* on, nothing for now, or anything that is refused.
Try(p, f) ==
    /\ Working(p, f, "try")
    /\ \/ Held(f) > Limit[f] /\ Thread(p, f, "failed") /\ UNCHANGED part
       \/ Held(f) =< Limit[f] /\ Fetched(f) /\ Thread(p, f, "verify") /\ UNCHANGED part
       \/ /\ Held(f) =< Limit[f] /\ ~Fetched(f)
          /\ \/ /\ worker' = [worker EXCEPT ![p][f].at = "body"]
                /\ part' = IF part[f] = None
                           THEN [part EXCEPT ![f] = [length |-> 0, good |-> TRUE]] ELSE part
             \/ Retries(p, f) /\ UNCHANGED part
             \/ Thread(p, f, "failed") /\ UNCHANGED part
    /\ Others /\ UNCHANGED <<target, linked>>

\* One chunk, of the right bytes or not, goes to the file, whatever its names are.
Chunk(p, f, good) ==
    /\ Working(p, f, "body")
    /\ IF Held(f) + 1 > Limit[f]
       THEN Thread(p, f, "failed") /\ UNCHANGED disk
       ELSE LET longer == [length |-> Held(f) + 1, good |-> part[f].good /\ good]
            IN /\ part' = [part EXCEPT ![f] = longer]
               /\ target' = IF f \in linked THEN [target EXCEPT ![f] = longer] ELSE target
               /\ UNCHANGED <<linked, worker>>
    /\ Others

\* The body ends, complete or not, or the connection fails.
Body(p, f) ==
    /\ Working(p, f, "body")
    /\ Thread(p, f, "verify") \/ Retries(p, f) \/ Thread(p, f, "failed")
    /\ Others /\ UNCHANGED disk

Verifies(f) == part[f] # None /\ Official(f, part[f])

Verify(p, f) ==
    /\ Working(p, f, "verify")
    /\ Thread(p, f, IF Verifies(f) THEN "link" ELSE "failed")
    /\ Others /\ UNCHANGED disk

Link(p, f) ==
    /\ Working(p, f, "link")
    /\ IF target[f] = None /\ part[f] # None
       THEN /\ target' = [target EXCEPT ![f] = part[f]]
            /\ linked' = linked \cup {f}
            /\ Thread(p, f, "unlink")
       ELSE Thread(p, f, "failed") /\ UNCHANGED <<target, linked>>
    /\ Others /\ UNCHANGED part

Unlink(p, f) ==
    /\ Working(p, f, "unlink")
    /\ part' = [part EXCEPT ![f] = None]
    /\ linked' = linked \ {f}
    /\ Thread(p, f, "done")
    /\ Others /\ UNCHANGED target

-----------------------------------------------------------------------------
Step(p) ==
    \/ Owner(p) \/ Claim(p) \/ Claimed(p) \/ Lock(p) \/ Manifest(p) \/ Resolved(p) \/ Joined(p)
    \/ \E f \in Items :
          \/ Look(p, f) \/ Try(p, f) \/ Body(p, f) \/ Verify(p, f) \/ Link(p, f) \/ Unlink(p, f)
          \/ \E good \in BOOLEAN : Chunk(p, f, good)

Next ==
    \E p \in Processes :
        \/ \E selection \in Selections, verifyOnly \in BOOLEAN : Start(p, selection, verifyOnly)
        \/ Step(p) \/ Kill(p)

Spec == Init /\ [][Next]_vars

\* A process runs on, and the network answers or times out.
Fairness == \A p \in Processes : WF_vars(Step(p))

-----------------------------------------------------------------------------
(* Properties                                                               *)

\* What stands at a final name is the official file, and goes on being it while
\* other processes download, are killed between any two steps, or come back to
\* what a killed one left; no report covers a file that is not there; and the
\* list of files is that of the directory's owner.
PublishedOfficial ==
    /\ \A f \in Items : target[f] # None => Official(f, target[f])
    /\ \A selection \in attested : \A f \in Chosen[selection] : target[f] # None
    /\ manifest \notin {None, Truncated} => manifest = owner

\* A run ends, whatever the network does.
DownloadEnds == \A p \in Processes : process[p] # Down ~> process[p] = Down
=============================================================================
