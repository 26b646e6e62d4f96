------------------------------ MODULE StagedRun ------------------------------
(***************************************************************************)
(* The two launchers that run this repository's commands one after the     *)
(* other and keep a record of it: workflow.py (train, calibrate, benchmark *)
(* on a native engine; workflow.json) and scripts/run_paper_pretraining.py *)
(* (verify, prepare, verify again, train, verify the adapter; status.json).*)
(* Both make a new output directory, save the record before and after each *)
(* stage through <record>.tmp, stop at the first failure and close the     *)
(* record; where they differ, program tells.                               *)
(*                                                                         *)
(* Several processes may be started on one output directory, any of them   *)
(* may be killed or interrupted, every save may fail, and the files that   *)
(* the stages read may be edited at any moment.  A stage reads its input   *)
(* in one step, except training, which reads its configuration first and   *)
(* hashes the backbone when it exports.  A kill may leave a temporary too; *)
(* nobody opens it again, since the directory is refused from then on.     *)
(*                                                                         *)
(* A definition named ...Fault is the one after it with a plausible        *)
(* mistake; no specification uses it.                                      *)
(***************************************************************************)
EXTENDS Naturals, Sequences

CONSTANTS
    Processes,
    Versions,       \* contents of a set of model files
    Lengths,        \* training lengths that a configuration may ask for
    MaxEdits,       \* bound: edits of input files while the launchers run
    None

ASSUME EditAssumption == MaxEdits \in Nat
ASSUME LengthAssumption == Lengths \subseteq Nat

VARIABLES
    program,        \* "workflow" or "pretraining"
    plan,           \* the stages this command line asks for
    files,          \* what the stages read: model, its trusted anchor, config
    edits,
    adapter, profiles, summary,     \* what stages leave in the output directory
    result,         \* result.json
    made,           \* who made the output directory
    record,         \* the saved manifest or state, and whose it is
    tmp,            \* the record's temporary is there
    at,             \* where each process is
    n,              \* which stage it is at
    memo,           \* its manifest or state in memory
    knows,          \* what else it has read
    spoiled,        \* a save of it failed or was interrupted
    code            \* how it ended

inputs == <<program, plan, files, edits>>
products == <<adapter, profiles, summary, result>>
disk == <<record, tmp, made>>
process == <<at, n, memo, knows, spoiled, code>>
vars == <<inputs, products, disk, process>>

Stages == {"check-engine", "calibrate", "benchmark", "download", "verify_model",
           "prepare_data", "prepare_train", "prepare_validation",
           "verify_before_training", "train", "verify_adapter"}

Native == program = "workflow"

\* native_stages: a supplied adapter replaces training, supplied profiles
\* replace calibration too.
NativePlans == {<<"check-engine", "train", "calibrate", "benchmark">>,
                <<"check-engine", "calibrate", "benchmark">>,
                <<"check-engine", "benchmark">>}

\* main of the paper launcher, without and with --download.
PaperPlan == <<"verify_model", "prepare_data", "prepare_train", "prepare_validation",
               "verify_before_training", "train", "verify_adapter">>
DownloadPlan == <<"download", "verify_model", "prepare_data", "prepare_train",
                  "prepare_validation", "verify_before_training", "train", "verify_adapter">>
Plans == IF Native THEN NativePlans ELSE {PaperPlan, DownloadPlan}

Positions == 1 .. 8     \* no plan is longer

Asked(s) == \E i \in 1 .. Len(plan) : plan[i] = s

Adapters == [base : Versions, steps : Lengths]
Memos == [status : {"running", "complete", "failed"},
          stages : [Positions -> {"absent", "running", "complete", "failed"}]]

Summaries == [adapter : Adapters, profiles : Adapters, valid : BOOLEAN]
Records == [by : Processes, memo : Memos]

ASSUME NoneAssumption == /\ None \notin Processes /\ None \notin Versions /\ None \notin Lengths
                         /\ None \notin Adapters /\ None \notin Summaries /\ None \notin Records

Fresh == [status |-> "running", stages |-> [i \in Positions |-> "absent"]]
Ignorant == [steps |-> None, hash |-> None, verified |-> None, before |-> None,
             read |-> None, mounted |-> None]

\* Supplied artifacts are there before the run; the profiles may be of another
\* adapter.
Init ==
    /\ program \in {"workflow", "pretraining"} /\ plan \in Plans
    /\ files \in [model : Versions, anchor : Versions, config : Lengths]
    /\ edits = 0
    /\ adapter \in IF Asked("train") THEN {None} ELSE Adapters
    /\ profiles \in IF Asked("calibrate") \/ ~Native THEN {None} ELSE Adapters
    /\ summary = None /\ result = None
    /\ made = None /\ record = None /\ tmp = FALSE
    /\ at = [p \in Processes |-> "check"] /\ n = [p \in Processes |-> 1]
    /\ memo = [p \in Processes |-> Fresh] /\ knows = [p \in Processes |-> Ignorant]
    /\ spoiled = [p \in Processes |-> FALSE]
    /\ code = [p \in Processes |-> "running"]

-----------------------------------------------------------------------------
(* The record and the output directory                                      *)

\* _save and _write_state: the temporary is opened exclusively and replaces the
\* record.  A save that fails after it was opened leaves it, and no save of this
\* directory can succeed after that.
Save(p, ok) ==
    IF ok
    THEN /\ ~tmp
         /\ record' = [by |-> p, memo |-> memo'[p]]
         /\ UNCHANGED <<tmp, spoiled>>
    ELSE /\ tmp' \in {tmp, TRUE}
         /\ spoiled' = [spoiled EXCEPT ![p] = TRUE]
         /\ UNCHANGED record

Goto(p, place) == at' = [at EXCEPT ![p] = place]
Returns(p, how) == Goto(p, "done") /\ code' = [code EXCEPT ![p] = how]

\* Arguments or inputs do not validate, or the output is no longer new.
Refuse(p) ==
    /\ at[p] \in {"check", "make"}
    /\ Returns(p, "error")
    /\ UNCHANGED <<inputs, products, disk, n, memo, knows, spoiled>>

\* prepare: the output must be a new path; the paper launcher reads how many
\* steps the configuration asks for.
Check(p) ==
    /\ at[p] = "check"
    /\ made = None
    /\ knows' = [knows EXCEPT ![p].steps = files.config]
    /\ Goto(p, "make")
    /\ UNCHANGED <<inputs, products, disk, n, memo, spoiled, code>>

MakesFault == TRUE
\* mkdir(exist_ok=False)
Makes == made = None

Make(p) ==
    /\ at[p] = "make"
    /\ Makes
    /\ made' = p
    /\ Goto(p, "first")
    /\ UNCHANGED <<inputs, products, record, tmp, n, memo, knows, spoiled, code>>

\* logs is made, the paper launcher hashes its configuration, and the record is
\* saved for the first time, all of it outside the try block: whichever of them
\* fails, no record is there.
FirstSave(p) ==
    /\ at[p] = "first"
    /\ UNCHANGED memo
    /\ \/ Returns(p, "error") /\ UNCHANGED <<record, tmp, spoiled, knows>>
       \/ /\ knows' = [knows EXCEPT ![p].hash = files.config]
          /\ \E ok \in BOOLEAN :
                /\ Save(p, ok)
                /\ IF ok THEN Goto(p, "next") /\ UNCHANGED code ELSE Returns(p, "error")
    /\ UNCHANGED <<inputs, products, made, n>>

-----------------------------------------------------------------------------
(* One stage                                                                *)

Over(p) == n[p] > Len(plan)
Stage(p) == plan[n[p]]
Running(p, s) == at[p] = "run" /\ Stage(p) = s

\* The first half of _run_stage and _stage.
Begin(p) ==
    /\ at[p] = "next" /\ ~Over(p)
    /\ memo' = [memo EXCEPT ![p].stages[n[p]] = "running"]
    /\ \E ok \in BOOLEAN : Save(p, ok) /\ Goto(p, IF ok THEN "run" ELSE "abort")
    /\ UNCHANGED <<inputs, products, made, n, knows, code>>

\* A stage that failed, or was not recorded, is the last one.
Following(p, ok, saved) ==
    IF ~ok \/ ~saved THEN "abort"
    ELSE IF Stage(p) = "verify_before_training" THEN "compare" ELSE "next"

\* The second half: the receipt is completed and saved, whatever the outcome.
Ends(p, ok) ==
    /\ memo' = [memo EXCEPT ![p].stages[n[p]] = IF ok THEN "complete" ELSE "failed"]
    /\ n' = [n EXCEPT ![p] = @ + 1]
    /\ \E saved \in BOOLEAN : Save(p, saved) /\ Goto(p, Following(p, ok, saved))
    /\ UNCHANGED <<program, plan, edits, made, code>>

\* A nonzero exit or, in the paper launcher, any exception.
StageFails(p) ==
    /\ at[p] \in {"run", "training"}
    /\ Ends(p, FALSE)
    /\ UNCHANGED <<files, products, knows>>

\* Stages whose effect is out of scope: sources are checked, data is prepared.
Passes(p) ==
    /\ \E s \in {"check-engine", "prepare_data", "prepare_train", "prepare_validation"} :
          Running(p, s)
    /\ Ends(p, TRUE)
    /\ UNCHANGED <<files, products, knows>>

\* --download publishes some version with its manifest.
Download(p) ==
    /\ Running(p, "download")
    /\ Ends(p, TRUE)
    /\ \E v \in Versions : files' = [files EXCEPT !.model = v]
    /\ UNCHANGED <<products, knows>>

\* verify_complete_model: every file is compared with the trusted anchor.
VerifyModel(p) ==
    /\ files.model = files.anchor
    /\ \/ Running(p, "verify_model") /\ knows' = [knows EXCEPT ![p].verified = files.model]
       \/ /\ Running(p, "verify_before_training")
          /\ knows' = [knows EXCEPT ![p].before = files.model]
    /\ Ends(p, TRUE)
    /\ UNCHANGED <<files, products>>

Same(p) == knows[p].before = knows[p].verified /\ files.config = knows[p].hash

\* "model/config changed after preparation; GPU training refused"
Compare(p) ==
    /\ at[p] = "compare"
    /\ Goto(p, IF Same(p) THEN "next" ELSE "abort")
    /\ UNCHANGED <<inputs, products, disk, n, memo, knows, spoiled, code>>

\* The trainer reads its configuration, or has it on its command line.
TrainBegins(p) ==
    /\ Running(p, "train")
    /\ \E steps \in IF Native THEN Lengths ELSE {files.config} :
          knows' = [knows EXCEPT ![p].read = steps]
    /\ Goto(p, "training")
    /\ UNCHANGED <<inputs, products, disk, n, memo, spoiled, code>>

\* save_adapter: the backbone's manifest is taken now.
TrainEnds(p) ==
    /\ at[p] = "training"
    /\ adapter' = [base |-> files.model, steps |-> knows[p].read]
    /\ Ends(p, TRUE)
    /\ UNCHANGED <<files, profiles, summary, result, knows>>

\* AdapterBundle: an adapter mounts only on the backbone it names.
Mounts == adapter # None /\ adapter.base = files.model

RequestedFault(p) == adapter.steps = knows[p].steps
\* The checks of _completed_adapter before it mounts the adapter.
Requested(p) == adapter.steps = knows[p].steps /\ adapter.base = knows[p].verified

VerifyAdapter(p) ==
    /\ Running(p, "verify_adapter")
    /\ Mounts /\ Requested(p)
    /\ knows' = [knows EXCEPT ![p].mounted = adapter]
    /\ Ends(p, TRUE)
    /\ UNCHANGED <<files, products>>

Calibrate(p) ==
    /\ Running(p, "calibrate")
    /\ Mounts
    /\ profiles' = adapter
    /\ Ends(p, TRUE)
    /\ UNCHANGED <<files, adapter, summary, result, knows>>

\* ProfileBundle: the profiles must name the adapter.  The summary is written
\* whether or not receipts, lengths and reuse validate.
Benchmark(p) ==
    /\ Running(p, "benchmark")
    /\ Mounts /\ profiles = adapter
    /\ \E valid \in BOOLEAN :
          summary' = [adapter |-> adapter, profiles |-> profiles, valid |-> valid]
    /\ Ends(p, TRUE)
    /\ UNCHANGED <<files, adapter, profiles, result, knows>>

-----------------------------------------------------------------------------
(* The end of a run                                                         *)

\* workflow: the summary must have validated.
FinishNative(p) ==
    /\ Native /\ at[p] = "next" /\ Over(p)
    /\ Goto(p, IF summary.valid THEN "commit" ELSE "abort")
    /\ UNCHANGED <<inputs, products, disk, n, memo, knows, spoiled, code>>

\* Paper launcher: result.json is written; that, and printing it, may fail.
FinishPaper(p) ==
    /\ ~Native /\ at[p] = "next" /\ Over(p)
    /\ \/ result' = knows[p].mounted /\ \E place \in {"commit", "abort"} : Goto(p, place)
       \/ UNCHANGED result /\ Goto(p, "abort")
    /\ UNCHANGED <<inputs, adapter, profiles, summary, disk, n, memo, knows, spoiled, code>>

FinalStatus(p) == IF at[p] = "commit" THEN "complete" ELSE "failed"

\* The last save, after success and after any exception.
Close(p) ==
    /\ at[p] \in {"commit", "abort"}
    /\ memo' = [memo EXCEPT ![p].status = FinalStatus(p)]
    /\ \E ok \in BOOLEAN :
          /\ Save(p, ok)
          /\ IF ok /\ at[p] = "commit" THEN Goto(p, "return") /\ UNCHANGED code
             ELSE Returns(p, "error")
    /\ UNCHANGED <<inputs, products, made, n, knows>>

\* A completed record was saved, but the process may still end with an error:
\* workflow prints the result only now, what the paper launcher printed has to be
\* flushed, and either may be interrupted.
Leave(p) ==
    /\ at[p] = "return"
    /\ \E how \in {"ok", "error"} : Returns(p, how)
    /\ UNCHANGED <<inputs, products, disk, n, memo, knows, spoiled>>

-----------------------------------------------------------------------------
(* What happens to a process and to its inputs                              *)

InterruptibleFault == {"next", "compare", "run", "training"}
\* Inside a stage the paper launcher completes the receipt, which is StageFails;
\* workflow does not.
Interruptible == {"next", "compare"} \cup IF Native THEN {"run", "training"} ELSE {}

\* KeyboardInterrupt, a log that cannot be opened or progress that cannot be
\* printed.
Interrupted(p) ==
    /\ at[p] \in Interruptible
    /\ Goto(p, "abort")
    /\ UNCHANGED <<inputs, products, disk, n, memo, knows, spoiled, code>>

Killed(p) ==
    /\ at[p] # "done"
    /\ Returns(p, "killed")
    /\ UNCHANGED <<inputs, products, disk, n, memo, knows, spoiled>>

\* External: somebody edits the input files, or supplied artifacts.
Edit ==
    /\ edits < MaxEdits
    /\ edits' = edits + 1
    /\ \/ /\ \/ \E v \in Versions : files' = [files EXCEPT !.model = v]
             \/ \E v \in Versions : ~Native /\ files' = [files EXCEPT !.anchor = v]
             \/ \E l \in Lengths : ~Native /\ files' = [files EXCEPT !.config = l]
          /\ UNCHANGED <<adapter, profiles>>
       \/ ~Asked("train") /\ adapter' \in Adapters /\ UNCHANGED <<files, profiles>>
       \/ /\ Native /\ ~Asked("calibrate")
          /\ profiles' \in Adapters /\ UNCHANGED <<files, adapter>>
    /\ UNCHANGED <<program, plan, summary, result, disk, process>>

StageSteps(p) ==
    \/ StageFails(p) \/ Passes(p) \/ Download(p) \/ VerifyModel(p) \/ Compare(p)
    \/ TrainBegins(p) \/ TrainEnds(p) \/ VerifyAdapter(p) \/ Calibrate(p) \/ Benchmark(p)

Next ==
    \/ \E p \in Processes :
          \/ Refuse(p) \/ Check(p) \/ Make(p) \/ FirstSave(p) \/ Begin(p) \/ StageSteps(p)
          \/ FinishNative(p) \/ FinishPaper(p) \/ Close(p) \/ Leave(p)
          \/ Interrupted(p) \/ Killed(p)
    \/ Edit

Spec == Init /\ [][Next]_vars

-----------------------------------------------------------------------------
(* Properties *)

Knowledge == [steps : Lengths \cup {None}, hash : Lengths \cup {None},
              verified : Versions \cup {None}, before : Versions \cup {None},
              read : Lengths \cup {None}, mounted : Adapters \cup {None}]

\* Every variable stays in its type.
TypeOK ==
    /\ program \in {"workflow", "pretraining"} /\ plan \in Plans
    /\ files \in [model : Versions, anchor : Versions, config : Lengths]
    /\ edits \in 0 .. MaxEdits
    /\ adapter \in Adapters \cup {None} /\ profiles \in Adapters \cup {None}
    /\ summary \in Summaries \cup {None}
    /\ result \in Adapters \cup {None}
    /\ made \in Processes \cup {None} /\ tmp \in BOOLEAN
    /\ record \in Records \cup {None}
    /\ at \in [Processes -> {"check", "make", "first", "next", "run", "training",
                            "compare", "commit", "abort", "return", "done"}]
    /\ n \in [Processes -> 1 .. Len(plan) + 1]
    /\ memo \in [Processes -> Memos] /\ knows \in [Processes -> Knowledge]
    /\ spoiled \in [Processes -> BOOLEAN]
    /\ code \in [Processes -> {"running", "ok", "error", "killed"}]

\* A record that says completed is true of a whole run: every stage of the plan
\* was completed; workflow has a validated benchmark of an adapter with its own
\* profiles; the paper launcher has a result.json about an adapter of the
\* requested length that is bound to the model verified first - whatever files
\* were edited between the checks.
CompletedTruthful ==
    record # None /\ record.memo.status = "complete" =>
        /\ \A i \in 1 .. Len(plan) : record.memo.stages[i] = "complete"
        /\ IF Native
           THEN summary # None /\ summary.valid /\ summary.profiles = summary.adapter
           ELSE /\ result # None
                /\ result.base = knows[record.by].verified
                /\ result.steps = knows[record.by].steps

\* A record claims no stage that its process has not ended in the same way.
Behind(saved, m) ==
    /\ saved.status \in {"running", m.status}
    /\ \A i \in Positions :
          saved.stages[i] \in {"complete", "failed"} => m.stages[i] = saved.stages[i]

\* What a process leaves on disk, however it ended and whichever of its saves
\* failed.  The record never claims more than the process did.  Exit 0 means its
\* completed record.  An error leaves no record when the process failed before its
\* first stage; or the record of how it ended, which in the paper launcher has no
\* stage that looks as if it were running, unless its save was the one that failed;
\* or, only when a save failed, an older record that still says running.
FinalRecord ==
    \A p \in Processes : made = p /\ at[p] = "done" =>
        LET own == [by |-> p, memo |-> memo[p]]
        IN /\ record # None => Behind(record.memo, memo[p])
           /\ code[p] = "ok" => record = own /\ memo[p].status = "complete"
           /\ code[p] = "error" =>
                 \/ record = None /\ memo[p] = Fresh
                 \/ /\ record = own /\ memo[p].status # "running"
                    /\ \/ Native \/ spoiled[p]
                       \/ \A i \in Positions : memo[p].stages[i] # "running"
                 \/ spoiled[p] /\ record # None /\ record.memo.status = "running"

\* Of several processes started on one output only the one that made it writes
\* there: a record never passes from one process to another.
RecordOwned ==
    [][record # None => record' # None /\ record'.by = record.by]_vars

-----------------------------------------------------------------------------
(* What the three properties rest on                                        *)

Active == {"next", "run", "training", "compare", "commit", "abort"}
Made == Active \cup {"first", "return"}

\* Only the process that made the directory is past the beginning, and the
\* record is its own.
Owned ==
    /\ \A p \in Processes : at[p] \in Made => made = p
    /\ made # None => at[made] \notin {"check", "make"}
    /\ record # None => record.by = made

\* What the last stage of a plan leaves.
Delivered(p) ==
    IF Native
    THEN summary # None
    ELSE /\ knows[p].mounted # None
         /\ knows[p].mounted.base = knows[p].verified
         /\ knows[p].mounted.steps = knows[p].steps

\* How far a process is: the stages before the present one are complete and no
\* other has ended, after the last one its product is there, and only a stage that
\* is being run is marked so.
Progress(p) ==
    /\ at[p] \in {"check", "make", "first"} => n[p] = 1 /\ memo[p] = Fresh
    /\ at[p] \notin {"return", "done"} => memo[p].status = "running"
    /\ at[p] \in {"run", "training"} =>
           /\ n[p] =< Len(plan)
           /\ \A i \in Positions : i # n[p] => memo[p].stages[i] # "running"
    /\ at[p] = "training" => Stage(p) = "train" /\ knows[p].read \in Lengths
    /\ at[p] \in Active \ {"abort"} =>
           /\ \A i \in Positions : i < n[p] => memo[p].stages[i] = "complete"
           /\ \A i \in Positions : i >= n[p] => memo[p].stages[i] \in {"absent", "running"}
           /\ Over(p) => Delivered(p)
    /\ at[p] = "commit" => /\ Over(p)
                            /\ IF Native THEN summary.valid ELSE result = knows[p].mounted
    /\ \/ at[p] \in {"next", "compare", "commit"}
       \/ at[p] = "abort" /\ ~Native /\ ~spoiled[p]
       => \A i \in Positions : memo[p].stages[i] # "running"

\* What a process that has not ended knows to be saved: nothing before the first
\* save, nothing that it has not done, and at last all of it.
Saved(p) ==
    /\ at[p] = "first" => record = None
    /\ at[p] \in Active \cup {"return"} => record # None /\ Behind(record.memo, memo[p])
    /\ at[p] = "return" => record.memo = memo[p] /\ memo[p].status = "complete"
    /\ at[p] = "return" /\ ~Native => \A i \in Positions : memo[p].stages[i] # "running"

\* A benchmark is of an adapter with its own profiles, and the record is closed
\* last.
Closed ==
    /\ summary # None => summary.profiles = summary.adapter
    /\ record # None /\ record.memo.status = "complete" => at[record.by] \in {"return", "done"}

\* Together with CompletedTruthful and FinalRecord this is inductive.
Consistent == Owned /\ (\A p \in Processes : Progress(p) /\ Saved(p)) /\ Closed
=============================================================================
