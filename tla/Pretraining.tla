----------------------------- MODULE Pretraining -----------------------------
(***************************************************************************)
(* Continued pretraining, training_pipeline.py: runs that train adapters   *)
(* over a corpus in a fixed order, write checkpoints, may end at any point,*)
(* and resume from a checkpoint of an earlier run into a new directory.    *)
(* Meanwhile the local backbone and corpus files may be edited.            *)
(*                                                                         *)
(* The adapters with their optimizer state are the sequence of updates     *)
(* that made them.  A failing operation of a run ends the process, as a    *)
(* crash does: both are Crash.  The validation corpus trains nothing and   *)
(* is left out.  Runs follow each other: each writes only its own          *)
(* directory, and what another finds there is a stage of it.               *)
(*                                                                         *)
(* slipped is not in the code: the runs that train on something else than  *)
(* what they have hashed, and those that resume them.  The backbone may be *)
(* edited between its manifest and its loading, the corpus between its     *)
(* hash and its index and be put back before it is hashed again.           *)
(*                                                                         *)
(* A definition named ...Fault is the one after it with a plausible        *)
(* mistake; no specification uses it.                                      *)
(***************************************************************************)
EXTENDS Integers, Sequences, FiniteSets

CONSTANTS
    MaxSteps,           \* max_steps
    Accum,              \* gradient_accumulation_steps
    CheckpointEvery,    \* checkpoint_every
    Rows,               \* sequences of the corpus
    Order,              \* [epoch -> the shuffled rows]
    Edited,             \* the rows that an edit of the corpus changes
    Configs,            \* the rest of the configuration
    Stops,              \* stop_after_steps, or None
    MaxRuns, MaxEdits,  \* bounds: runs ever started, edits of input files
    None

\* What the constants are; a module that instantiates this one has to assume it.
Assumptions ==
    /\ MaxSteps \in Nat \ {0} /\ Accum \in Nat \ {0} /\ CheckpointEvery \in Nat \ {0}
    /\ Rows \in Nat \ {0} /\ Edited \subseteq 0 .. Rows - 1
    /\ Stops \subseteq (1 .. MaxSteps) \cup {None}
    /\ MaxRuns \in Nat /\ MaxEdits \in Nat
    /\ \A n \in 0 .. MaxSteps * Accum - 1 :
          /\ Order[n \div Rows] \in [1 .. Rows -> 0 .. Rows - 1]
          /\ \A i, j \in 1 .. Rows : Order[n \div Rows][i] = Order[n \div Rows][j] => i = j

Runs == 1 .. MaxRuns
Versions == {0, 1}

VARIABLES
    backbone, corpus,   \* the versions of the files on disk
    edits,              \* edits so far (bounded)
    slipped,            \* the runs that train on a version they did not hash
    checkpoint,         \* [run, step -> the directory checkpoints/step-...]
    adapter,            \* [run -> the directory adapter]
    report,             \* [run -> the status in report.json]
    at,                 \* where the process is, "idle" when there is none
    run, config, final, from,   \* the run: number, config, final_step, resume
    base, loaded,       \* the backbone: its manifest's version, the loaded one
    sha, indexed,       \* the corpus: the hashed version, the indexed one
    model,              \* the updates so far
    progress

files == <<backbone, corpus, edits, slipped>>
written == <<checkpoint, adapter, report>>
args == <<run, config, final, from>>
inputs == <<base, loaded, sha, indexed>>
trained == <<model, progress>>
vars == <<files, written, at, args, inputs, trained>>

NoProgress == [step |-> 0, cursor |-> 0]
NoIdentity == [config |-> None, base |-> 0, sha |-> 0]
NoCheckpoint == [at |-> "none", model |-> <<>>, progress |-> NoProgress,
                 identity |-> NoIdentity]
NoAdapter == [at |-> "none", model |-> <<>>, base |-> 0]

Init ==
    /\ backbone = 0 /\ corpus = 0 /\ edits = 0 /\ slipped = {}
    /\ checkpoint = [c \in Runs \X (1 .. MaxSteps) |-> NoCheckpoint]
    /\ adapter = [r \in Runs |-> NoAdapter]
    /\ report = [r \in Runs |-> "none"]
    /\ run = 0 /\ at = "idle"
    /\ config = None /\ final = 0 /\ from = None
    /\ base = 0 /\ loaded = 0 /\ sha = 0 /\ indexed = 0
    /\ model = <<>> /\ progress = NoProgress

\* The process ends, and its memory is gone.
Ends ==
    /\ at' = "idle" /\ UNCHANGED run
    /\ config' = None /\ final' = 0 /\ from' = None
    /\ base' = 0 /\ loaded' = 0 /\ sha' = 0 /\ indexed' = 0
    /\ model' = <<>> /\ progress' = NoProgress

Identity == [config |-> config, base |-> base, sha |-> sha]

\* What a line of the corpus says in a version of it.
Row(index, version) == <<index, IF index \in Edited THEN version ELSE 0>>

-----------------------------------------------------------------------------
(* The start of a run: its inputs are read one after the other              *)

Start(c, stop, source) ==
    /\ at = "idle" /\ run < MaxRuns
    /\ run' = run + 1 /\ config' = c /\ from' = source
    /\ final' = IF stop = None THEN MaxSteps ELSE stop
    /\ at' = "manifest"
    /\ UNCHANGED <<files, written, inputs, trained>>

ReadManifest ==
    /\ at = "manifest" /\ at' = "backbone"
    /\ base' = backbone
    /\ UNCHANGED <<files, written, args, loaded, sha, indexed, trained>>

LoadBackbone ==
    /\ at = "backbone" /\ at' = "hash"
    /\ loaded' = backbone
    /\ UNCHANGED <<files, written, args, base, sha, indexed, trained>>

HashCorpus ==
    /\ at = "hash" /\ at' = "index"
    /\ sha' = corpus
    /\ UNCHANGED <<files, written, args, base, loaded, indexed, trained>>

IndexCorpus ==
    /\ at = "index" /\ at' = "recheck"
    /\ indexed' = corpus
    /\ UNCHANGED <<files, written, args, base, loaded, sha, trained>>

\* What the run loaded or indexed is not what it hashed, or it resumes such a run.
Slips == loaded # base \/ indexed # sha \/ (from # None /\ from[1] \in slipped)

RecheckCorpus ==
    /\ at = "recheck" /\ at' = "resume"
    /\ corpus = sha
    /\ slipped' = IF Slips THEN slipped \cup {run} ELSE slipped
    /\ UNCHANGED <<backbone, corpus, edits, written, args, inputs, trained>>

\* "corpus changed while indexing"
RecheckFails ==
    /\ at = "recheck"
    /\ corpus # sha
    /\ Ends /\ UNCHANGED <<files, written>>

LoadableFault(c) == c.at = "whole" /\ c.identity.base = base /\ c.identity.sha = sha
Loadable(c) == c.at = "whole" /\ c.identity = Identity

\* _load_checkpoint, or nothing to load.
Loads ==
    \/ from = None /\ UNCHANGED <<model, progress>>
    \/ /\ from # None
       /\ Loadable(checkpoint[from])
       /\ model' = checkpoint[from].model
       /\ progress' = checkpoint[from].progress

Begin ==
    /\ at = "resume"
    /\ Loads
    /\ final > progress'.step
    /\ at' = "train"
    /\ UNCHANGED <<files, written, args, inputs>>

\* The checkpoint is refused, or nothing is left to do.
BeginRefused ==
    /\ at = "resume" /\ from # None
    /\ \/ ~Loadable(checkpoint[from])
       \/ final =< checkpoint[from].progress.step
    /\ Ends /\ UNCHANGED <<files, written>>

-----------------------------------------------------------------------------
(* The training loop                                                        *)

\* _sample_indices: divmod of each position of the cursor.
SampleIndices(cursor, count) ==
    [i \in 1 .. count |->
        LET n == cursor + i - 1 IN Order[n \div Rows][(n % Rows) + 1]]

\* Every row read from the file has the digest that the index has for it.
RowsUnchanged(S) == \A index \in S : Row(index, corpus) = Row(index, indexed)

Due(step) == step % CheckpointEvery = 0 \/ step = final

MoreSteps == progress.step < final

Update ==
    /\ at = "train" /\ MoreSteps
    /\ LET indices == SampleIndices(progress.cursor, Accum)
           step == progress.step + 1
       IN /\ RowsUnchanged({indices[i] : i \in 1 .. Accum})
          /\ model' = Append(model,
                 [step |-> step, config |-> config, base |-> loaded,
                  samples |-> [i \in 1 .. Accum |-> Row(indices[i], corpus)]])
          /\ progress' = [step |-> step, cursor |-> progress.cursor + Accum]
          /\ at' = IF Due(step) THEN "save" ELSE "train"
    /\ UNCHANGED <<files, written, args, inputs>>

Here == <<run, progress.step>>

\* _save_checkpoint: the new directory, the tensors, then state.json.
SaveDirectory ==
    /\ at = "save" /\ at' = "tensors"
    /\ checkpoint' = [checkpoint EXCEPT ![Here].at = "dir"]
    /\ UNCHANGED <<files, adapter, report, args, inputs, trained>>

SaveTensors ==
    /\ at = "tensors" /\ at' = "state"
    /\ checkpoint' = [checkpoint EXCEPT ![Here].at = "tensors", ![Here].model = model]
    /\ UNCHANGED <<files, adapter, report, args, inputs, trained>>

SaveState ==
    /\ at = "state" /\ at' = "train"
    /\ checkpoint' = [checkpoint EXCEPT ![Here].at = "whole",
                                        ![Here].identity = Identity,
                                        ![Here].progress = progress]
    /\ UNCHANGED <<files, adapter, report, args, inputs, trained>>

-----------------------------------------------------------------------------
(* The end of a run                                                         *)

CheckBackbone ==
    /\ at = "train" /\ ~MoreSteps
    /\ backbone = base
    /\ at' = "check"
    /\ UNCHANGED <<files, written, args, inputs, trained>>

\* "local backbone changed during training; no final export"
CheckBackboneFails ==
    /\ at = "train" /\ ~MoreSteps
    /\ backbone # base
    /\ Ends /\ UNCHANGED <<files, written>>

CompletesFault == progress.step = final
Completes == progress.step = MaxSteps

CheckCorpus ==
    /\ at = "check"
    /\ corpus = sha
    /\ at' = IF Completes THEN "export" ELSE "report"
    /\ UNCHANGED <<files, written, args, inputs, trained>>

\* "corpus changed during training; no final export"
CheckCorpusFails ==
    /\ at = "check"
    /\ corpus # sha
    /\ Ends /\ UNCHANGED <<files, written>>

\* save_adapter reads the backbone's manifest again, and makes the directory.
Export ==
    /\ at = "export" /\ at' = "weights"
    /\ adapter' = [adapter EXCEPT ![run].at = "dir", ![run].base = backbone]
    /\ UNCHANGED <<files, checkpoint, report, args, inputs, trained>>

ExportDone ==
    /\ at = "weights" /\ at' = "report"
    /\ adapter' = [adapter EXCEPT ![run].at = "whole", ![run].model = model]
    /\ UNCHANGED <<files, checkpoint, report, args, inputs, trained>>

Report ==
    /\ at = "report"
    /\ report' = [report EXCEPT ![run] = IF Completes THEN "complete" ELSE "partial"]
    /\ Ends /\ UNCHANGED <<files, checkpoint, adapter>>

Crash ==
    /\ at # "idle"
    /\ Ends /\ UNCHANGED <<files, written>>

\* External: somebody replaces an input file, or puts the old one back.
Edit ==
    /\ edits < MaxEdits /\ edits' = edits + 1
    /\ \/ backbone' = 1 - backbone /\ UNCHANGED corpus
       \/ corpus' = 1 - corpus /\ UNCHANGED backbone
    /\ UNCHANGED <<slipped, written, at, args, inputs, trained>>

-----------------------------------------------------------------------------
Saved == {c \in Runs \X (1 .. MaxSteps) : checkpoint[c].at # "none"}

Next ==
    \/ \E c \in Configs, stop \in Stops, source \in Saved \cup {None} :
          Start(c, stop, source)
    \/ ReadManifest \/ LoadBackbone \/ HashCorpus \/ IndexCorpus
    \/ RecheckCorpus \/ RecheckFails
    \/ Begin \/ BeginRefused
    \/ Update \/ SaveDirectory \/ SaveTensors \/ SaveState
    \/ CheckBackbone \/ CheckBackboneFails \/ CheckCorpus \/ CheckCorpusFails
    \/ Export \/ ExportDone \/ Report
    \/ Crash \/ Edit

Spec == Init /\ [][Next]_vars

-----------------------------------------------------------------------------
(* Properties *)

Updates == [step : 1 .. MaxSteps, config : Configs, base : Versions,
            samples : [1 .. Accum -> (0 .. Rows - 1) \X Versions]]
Progress == [step : 0 .. MaxSteps, cursor : 0 .. MaxSteps * Accum]
Identities == [config : Configs \cup {None}, base : Versions, sha : Versions]
Checkpoints == [at : {"none", "dir", "tensors", "whole"}, model : Seq(Updates),
                progress : Progress, identity : Identities]
Exports == [at : {"none", "dir", "whole"}, model : Seq(Updates), base : Versions]

Reading == {"manifest", "backbone", "hash", "index", "recheck", "resume"}
Saving == {"save", "tensors", "state"}
Closing == {"check", "export", "weights", "report"}

\* Every variable stays in its type.
TypeOK ==
    /\ backbone \in Versions /\ corpus \in Versions /\ edits \in 0 .. MaxEdits
    /\ slipped \subseteq Runs
    /\ checkpoint \in [Runs \X (1 .. MaxSteps) -> Checkpoints]
    /\ adapter \in [Runs -> Exports]
    /\ report \in [Runs -> {"none", "partial", "complete"}]
    /\ at \in {"idle", "train"} \cup Reading \cup Saving \cup Closing
    /\ run \in 0 .. MaxRuns /\ config \in Configs \cup {None} /\ final \in 0 .. MaxSteps
    /\ from \in (Runs \X (1 .. MaxSteps)) \cup {None}
    /\ base \in Versions /\ loaded \in Versions
    /\ sha \in Versions /\ indexed \in Versions
    /\ model \in Seq(Updates) /\ progress \in Progress

\* m is what an uninterrupted run of n updates over one backbone and one corpus
\* would be: the k-th update is that of step k, computed on that backbone over the
\* next Accum rows of the shuffled epochs.
Uninterrupted(m, n, c, b, version) ==
    /\ Len(m) = n
    /\ \A k \in 1 .. n :
          /\ m[k].step = k /\ m[k].config = c /\ m[k].base = b
          /\ \A i \in 1 .. Accum :
                \E p \in 0 .. MaxSteps * Accum - 1 :
                    /\ p = (k - 1) * Accum + i - 1
                    /\ m[k].samples[i] = Row(Order[p \div Rows][(p % Rows) + 1], version)

\* A checkpoint that can be resumed, and an adapter that was exported, are those
\* of an uninterrupted run, however often their runs were stopped, crashed and
\* resumed: no row is skipped, repeated or taken from an edited file, and no
\* update is that of another configuration or another backbone; a checkpoint is
\* what its identity says.  It is not said of a run that loaded or indexed another
\* version than it hashed (slipped), nor of its successors: see SameBackbone.
ResumeExact ==
    /\ \A c \in Saved :
          checkpoint[c].at = "whole" /\ c[1] \notin slipped =>
              LET k == checkpoint[c]
              IN /\ Uninterrupted(k.model, c[2], k.identity.config, k.identity.base,
                                  k.identity.sha)
                 /\ k.progress = [step |-> c[2], cursor |-> c[2] * Accum]
    /\ \A r \in Runs \ slipped :
          adapter[r].at = "whole" =>
              \E c \in Configs, b \in Versions, version \in Versions :
                  Uninterrupted(adapter[r].model, MaxSteps, c, b, version)

\* What docs/continued_pretraining.md:158-160 says of a resumed run, whose
\* backbone is the identical one or it fails closed: the updates of an exported
\* adapter are all of one backbone.  The code does not ensure it.
SameBackbone ==
    \A r \in Runs :
        adapter[r].at = "whole" =>
            \A j, k \in 1 .. Len(adapter[r].model) :
                adapter[r].model[j].base = adapter[r].model[k].base

\* A report that claims completion stands beside a whole adapter of all updates;
\* a run that was stopped early leaves no adapter, not even a part of one.
ReportTruthful ==
    \A r \in Runs :
        /\ report[r] = "complete" =>
              adapter[r].at = "whole" /\ Len(adapter[r].model) = MaxSteps
        /\ report[r] = "partial" => adapter[r].at = "none"
=============================================================================
