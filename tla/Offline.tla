------------------------------- MODULE Offline -------------------------------
(***************************************************************************)
(* The two offline programs: a behaviour is one of Pretraining or one of   *)
(* AssetDownload.  They share no file and no process, so that each step is *)
(* one of the program that runs and leaves the other's variables alone.    *)
(***************************************************************************)
EXTENDS AssetDownload

CONSTANTS
    MaxSteps, Accum, CheckpointEvery, Rows, Order, Edited, Configs, Stops, MaxRuns, MaxEdits

VARIABLES
    program,    \* "train" or "download"
    backbone, corpus, edits, slipped, checkpoint, adapter, report, at, run, config, final, from,
    base, loaded, sha, indexed, model, progress

Training == INSTANCE Pretraining
ASSUME TrainingAssumption == Training!Assumptions

training == <<backbone, corpus, edits, slipped, checkpoint, adapter, report, at, run, config,
              final, from, base, loaded, sha, indexed, model, progress>>

EitherInit == Init /\ Training!Init /\ program \in {"train", "download"}

Train == program = "train" /\ Training!Next /\ UNCHANGED <<program, vars>>
Download == program = "download" /\ Next /\ UNCHANGED <<program, training>>

EitherSpec ==
    /\ EitherInit /\ [][Train \/ Download]_<<vars, program, training>>
    /\ Fairness

\* What can be resumed or mounted is what an uninterrupted run makes: see Pretraining.
ResumeExact == Training!ResumeExact

\* A report of completion is true: see Pretraining.
ReportTruthful == Training!ReportTruthful
=============================================================================
