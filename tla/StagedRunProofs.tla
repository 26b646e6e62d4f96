--------------------------- MODULE StagedRunProofs ---------------------------
(***************************************************************************)
(* What StagedRun guarantees for any number of processes, of edits and of  *)
(* contents: the record of a run is owned by the process that made its     *)
(* directory, claims nothing that this process did not do, however it      *)
(* ended, and says completed only of a whole and true run.                 *)
(***************************************************************************)
EXTENDS StagedRun, TLAPS

\* The last stage of every plan makes what the run is for.
LEMMA PlanFacts ==
    ASSUME TypeOK
    PROVE  /\ Len(plan) \in 1 .. 8
           /\ plan[Len(plan)] = IF Native THEN "benchmark" ELSE "verify_adapter"
<1>1. CASE Native
  <2>1. plan \in NativePlans
    BY <1>1 DEF TypeOK, Plans
  <2>2. CASE plan = <<"check-engine", "train", "calibrate", "benchmark">>
    BY <1>1, <2>2
  <2>3. CASE plan = <<"check-engine", "calibrate", "benchmark">>
    BY <1>1, <2>3
  <2>4. CASE plan = <<"check-engine", "benchmark">>
    BY <1>1, <2>4
  <2> QED
    BY <2>1, <2>2, <2>3, <2>4 DEF NativePlans
<1>2. CASE ~Native
  <2>1. plan \in {PaperPlan, DownloadPlan}
    BY <1>2 DEF TypeOK, Plans
  <2>2. CASE plan = PaperPlan
    BY <1>2, <2>2 DEF PaperPlan
  <2>3. CASE plan = DownloadPlan
    BY <1>2, <2>3 DEF DownloadPlan
  <2> QED
    BY <2>1, <2>2, <2>3
<1> QED
  BY <1>1, <1>2

\* A stage index of a running stage is a position.
LEMMA StagePosition ==
    ASSUME TypeOK, NEW p \in Processes, n[p] =< Len(plan)
    PROVE  n[p] \in Positions /\ n[p] + 1 \in 1 .. Len(plan) + 1
<1>1. n[p] \in 1 .. Len(plan) + 1
  BY DEF TypeOK
<1>2. Len(plan) \in Nat /\ Len(plan) =< 8
  BY PlanFacts
<1> QED
  BY <1>1, <1>2 DEF Positions

-----------------------------------------------------------------------------
(* Types *)

\* A save keeps the types of what it touches.
LEMMA SaveType ==
    ASSUME TypeOK, NEW p \in Processes, NEW ok \in BOOLEAN,
           memo' \in [Processes -> Memos], Save(p, ok)
    PROVE  /\ record' \in Records \cup {None}
           /\ tmp' \in BOOLEAN
           /\ spoiled' \in [Processes -> BOOLEAN]
<1>1. CASE ok
  <2>1. memo'[p] \in Memos
    OBVIOUS
  <2>2. record' = [by |-> p, memo |-> memo'[p]] /\ UNCHANGED <<tmp, spoiled>>
    BY <1>1 DEF Save
  <2> QED
    BY <2>1, <2>2 DEF TypeOK, Records
<1>2. CASE ~ok
  <2>1. /\ tmp' \in {tmp, TRUE} /\ UNCHANGED record
        /\ spoiled' = [spoiled EXCEPT ![p] = TRUE]
    BY <1>2 DEF Save
  <2>2. tmp' \in BOOLEAN
    BY <2>1, Zenon DEF TypeOK
  <2> QED
    BY <2>1, <2>2 DEF TypeOK
<1> QED
  BY <1>1, <1>2

\* So does the receipt of a stage.
LEMMA MemoType ==
    ASSUME TypeOK, NEW p \in Processes, n[p] =< Len(plan),
           NEW status \in {"absent", "running", "complete", "failed"}
    PROVE  [memo EXCEPT ![p].stages[n[p]] = status] \in [Processes -> Memos]
<1>1. n[p] \in Positions
  BY StagePosition
<1>2. memo[p] \in Memos
  BY DEF TypeOK
<1>3. [memo[p].stages EXCEPT ![n[p]] = status]
        \in [Positions -> {"absent", "running", "complete", "failed"}]
  BY <1>1, <1>2 DEF Memos
<1>4. [memo[p] EXCEPT !.stages = [@ EXCEPT ![n[p]] = status]] \in Memos
  BY <1>2, <1>3 DEF Memos
<1> QED
  BY <1>4 DEF TypeOK

Places == {"check", "make", "first", "next", "run", "training", "compare", "commit", "abort",
           "return", "done"}

\* The end of a stage keeps the types of all it touches.
LEMMA EndsType ==
    ASSUME TypeOK, NEW p \in Processes, n[p] =< Len(plan), NEW ok \in BOOLEAN, Ends(p, ok)
    PROVE  /\ memo' \in [Processes -> Memos]
           /\ n' \in [Processes -> 1 .. Len(plan) + 1]
           /\ record' \in Records \cup {None} /\ tmp' \in BOOLEAN
           /\ spoiled' \in [Processes -> BOOLEAN]
           /\ at' \in [Processes -> Places]
           /\ UNCHANGED <<program, plan, edits, made, code>>
<1>1. memo' \in [Processes -> Memos]
  <2>1. memo' = [memo EXCEPT ![p].stages[n[p]] = IF ok THEN "complete" ELSE "failed"]
    BY DEF Ends
  <2>2. CASE ok
    BY <2>1, <2>2, MemoType
  <2>3. CASE ~ok
    BY <2>1, <2>3, MemoType
  <2> QED
    BY <2>2, <2>3
<1>2. n' \in [Processes -> 1 .. Len(plan) + 1]
  BY StagePosition DEF Ends, TypeOK
<1>3. PICK saved \in BOOLEAN : Save(p, saved) /\ Goto(p, Following(p, ok, saved))
  BY DEF Ends
<1>4. at' \in [Processes -> Places]
  BY <1>3 DEF Goto, Following, TypeOK, Places
<1> QED
  BY <1>1, <1>2, <1>3, <1>4, SaveType DEF Ends

\* A step that saves nothing and moves one process keeps the types.
LEMMA MoveType ==
    ASSUME TypeOK, at' \in [Processes -> Places],
           code' \in [Processes -> {"running", "ok", "error", "killed"}],
           knows' \in [Processes -> Knowledge], result' \in Adapters \cup {None},
           UNCHANGED <<inputs, adapter, profiles, summary, disk, n, memo, spoiled>>
    PROVE  TypeOK'
  BY DEF TypeOK, Places, inputs, disk, Plans, Native

\* Where a process goes, and how it ends, are typed.
LEMMA GotoType ==
    ASSUME TypeOK, NEW p \in Processes, NEW place \in Places, Goto(p, place)
    PROVE  at' \in [Processes -> Places]
  BY DEF TypeOK, Places, Goto

LEMMA ReturnsType ==
    ASSUME TypeOK, NEW p \in Processes, NEW how \in {"ok", "error", "killed"}, Returns(p, how)
    PROVE  /\ at' \in [Processes -> Places]
           /\ code' \in [Processes -> {"running", "ok", "error", "killed"}]
<1>1. Goto(p, "done") /\ code' = [code EXCEPT ![p] = how]
  BY DEF Returns
<1>2. at' \in [Processes -> Places]
  BY <1>1, GotoType DEF Places
<1>3. code \in [Processes -> {"running", "ok", "error", "killed"}]
  BY DEF TypeOK
<1> QED
  BY <1>1, <1>2, <1>3

\* What a process learns is typed.
LEMMA KnowsType ==
    ASSUME TypeOK, NEW p \in Processes
    PROVE  /\ \A x \in Lengths : /\ [knows EXCEPT ![p].steps = x] \in [Processes -> Knowledge]
                                 /\ [knows EXCEPT ![p].hash = x] \in [Processes -> Knowledge]
                                 /\ [knows EXCEPT ![p].read = x] \in [Processes -> Knowledge]
           /\ \A v \in Versions : /\ [knows EXCEPT ![p].verified = v] \in [Processes -> Knowledge]
                                  /\ [knows EXCEPT ![p].before = v] \in [Processes -> Knowledge]
           /\ \A a \in Adapters : [knows EXCEPT ![p].mounted = a] \in [Processes -> Knowledge]
<1>1. knows \in [Processes -> Knowledge] /\ knows[p] \in Knowledge
  BY DEF TypeOK
<1>2. /\ \A x \in Lengths : /\ [knows[p] EXCEPT !.steps = x] \in Knowledge
                            /\ [knows[p] EXCEPT !.hash = x] \in Knowledge
                            /\ [knows[p] EXCEPT !.read = x] \in Knowledge
      /\ \A v \in Versions : /\ [knows[p] EXCEPT !.verified = v] \in Knowledge
                             /\ [knows[p] EXCEPT !.before = v] \in Knowledge
      /\ \A a \in Adapters : [knows[p] EXCEPT !.mounted = a] \in Knowledge
  BY <1>1 DEF Knowledge
<1> QED
  BY <1>1, <1>2

\* The end of a stage that leaves typed files, products and knowledge keeps the types.
LEMMA EndsTypeOK ==
    ASSUME TypeOK, NEW p \in Processes, n[p] =< Len(plan), NEW ok \in BOOLEAN, Ends(p, ok),
           files' \in [model : Versions, anchor : Versions, config : Lengths],
           adapter' \in Adapters \cup {None}, profiles' \in Adapters \cup {None},
           summary' \in Summaries \cup {None}, knows' \in [Processes -> Knowledge],
           result' = result
    PROVE  TypeOK'
  BY EndsType DEF TypeOK, Places, Plans, Native

\* What a stage may read is typed.
LEMMA FilesType ==
    ASSUME TypeOK
    PROVE  /\ files.model \in Versions /\ files.anchor \in Versions /\ files.config \in Lengths
           /\ files \in [model : Versions, anchor : Versions, config : Lengths]
           /\ adapter \in Adapters \cup {None} /\ profiles \in Adapters \cup {None}
           /\ summary \in Summaries \cup {None} /\ result \in Adapters \cup {None}
           /\ knows \in [Processes -> Knowledge]
           /\ code \in [Processes -> {"running", "ok", "error", "killed"}]
  BY DEF TypeOK

\* Stages keep the types.
LEMMA StageType ==
    ASSUME TypeOK, NEW p \in Processes, Progress(p), StageSteps(p)
    PROVE  TypeOK'
<1>1. at[p] \in {"run", "training"} => n[p] =< Len(plan)
  BY DEF Progress
<1>2. CASE StageFails(p)
  <2>1. at[p] \in {"run", "training"} /\ Ends(p, FALSE) /\ UNCHANGED <<files, products, knows>>
    BY <1>2 DEF StageFails
  <2> QED
    BY <1>1, <2>1, EndsTypeOK, FilesType DEF products
<1>3. CASE Passes(p)
  <2>1. at[p] = "run" /\ Ends(p, TRUE) /\ UNCHANGED <<files, products, knows>>
    BY <1>3 DEF Passes, Running
  <2> QED
    BY <1>1, <2>1, EndsTypeOK, FilesType DEF products
<1>4. CASE Download(p)
  <2>1. at[p] = "run" /\ Ends(p, TRUE) /\ UNCHANGED <<products, knows>>
    BY <1>4 DEF Download, Running
  <2>2. PICK v \in Versions : files' = [files EXCEPT !.model = v]
    BY <1>4 DEF Download
  <2>3. files' \in [model : Versions, anchor : Versions, config : Lengths]
    BY <2>2, FilesType
  <2> QED
    BY <1>1, <2>1, <2>3, EndsTypeOK, FilesType DEF products
<1>5. CASE VerifyModel(p)
  <2>1. at[p] = "run" /\ Ends(p, TRUE) /\ UNCHANGED <<files, products>>
    BY <1>5 DEF VerifyModel, Running
  <2>2. \/ knows' = [knows EXCEPT ![p].verified = files.model]
        \/ knows' = [knows EXCEPT ![p].before = files.model]
    BY <1>5 DEF VerifyModel
  <2>3. knows' \in [Processes -> Knowledge]
    <3>1. files.model \in Versions
      BY FilesType
    <3>2. /\ [knows EXCEPT ![p].verified = files.model] \in [Processes -> Knowledge]
          /\ [knows EXCEPT ![p].before = files.model] \in [Processes -> Knowledge]
      BY <3>1, KnowsType
    <3> QED
      BY <2>2, <3>2
  <2> QED
    BY <1>1, <2>1, <2>3, EndsTypeOK, FilesType DEF products
<1>6. CASE Compare(p)
  <2>1. PICK place \in Places : Goto(p, place)
    BY <1>6 DEF Compare, Places
  <2> QED
    BY <1>6, <2>1, GotoType, FilesType, MoveType DEF Compare, products
<1>7. CASE TrainBegins(p)
  <2>1. \E steps \in IF Native THEN Lengths ELSE {files.config} :
            knows' = [knows EXCEPT ![p].read = steps]
    BY <1>7 DEF TrainBegins
  <2>2. PICK steps \in Lengths : knows' = [knows EXCEPT ![p].read = steps]
    BY <2>1, FilesType
  <2>3. knows' \in [Processes -> Knowledge]
    BY <2>2, KnowsType
  <2>4. at' \in [Processes -> Places]
    BY <1>7, GotoType DEF TrainBegins, Places
  <2> QED
    BY <1>7, <2>3, <2>4, FilesType, MoveType DEF TrainBegins, products
<1>8. CASE TrainEnds(p)
  <2>1. /\ at[p] = "training" /\ Ends(p, TRUE)
        /\ UNCHANGED <<files, profiles, summary, result, knows>>
        /\ adapter' = [base |-> files.model, steps |-> knows[p].read]
    BY <1>8 DEF TrainEnds
  <2>2. knows[p].read \in Lengths
    BY <2>1 DEF Progress
  <2>3. adapter' \in Adapters
    BY <2>1, <2>2, FilesType DEF Adapters
  <2> QED
    BY <1>1, <2>1, <2>3, EndsTypeOK, FilesType
<1>9. CASE VerifyAdapter(p)
  <2>1. /\ at[p] = "run" /\ Ends(p, TRUE) /\ UNCHANGED <<files, products>>
        /\ adapter # None /\ knows' = [knows EXCEPT ![p].mounted = adapter]
    BY <1>9 DEF VerifyAdapter, Running, Mounts
  <2>2. knows' \in [Processes -> Knowledge]
    BY <2>1, KnowsType, FilesType
  <2> QED
    BY <1>1, <2>1, <2>2, EndsTypeOK, FilesType DEF products
<1>10. CASE Calibrate(p)
  <2>1. /\ at[p] = "run" /\ Ends(p, TRUE) /\ profiles' = adapter
        /\ UNCHANGED <<files, adapter, summary, result, knows>>
    BY <1>10 DEF Calibrate, Running
  <2> QED
    BY <1>1, <2>1, EndsTypeOK, FilesType
<1>11. CASE Benchmark(p)
  <2>1. /\ at[p] = "run" /\ Ends(p, TRUE) /\ UNCHANGED <<files, adapter, profiles, result, knows>>
        /\ adapter # None /\ profiles = adapter
    BY <1>11 DEF Benchmark, Running, Mounts
  <2>2. PICK valid \in BOOLEAN :
          summary' = [adapter |-> adapter, profiles |-> profiles, valid |-> valid]
    BY <1>11 DEF Benchmark
  <2>3. summary' \in Summaries
    BY <2>1, <2>2, FilesType DEF Summaries
  <2> QED
    BY <1>1, <2>1, <2>3, EndsTypeOK, FilesType
<1> QED
  BY <1>2, <1>3, <1>4, <1>5, <1>6, <1>7, <1>8, <1>9, <1>10, <1>11 DEF StageSteps

\* What is before, between and after the stages keeps the types too.
LEMMA OuterType ==
    ASSUME TypeOK, NEW p \in Processes, Progress(p),
           \/ Refuse(p) \/ Check(p) \/ Make(p) \/ FirstSave(p) \/ Begin(p)
           \/ FinishNative(p) \/ FinishPaper(p) \/ Close(p) \/ Leave(p)
           \/ Interrupted(p) \/ Killed(p)
    PROVE  TypeOK'
<1>1. CASE Refuse(p) \/ Leave(p) \/ Killed(p)
  <2>1. \E how \in {"ok", "error", "killed"} : Returns(p, how)
    BY <1>1 DEF Refuse, Leave, Killed
  <2> QED
    BY <1>1, <2>1, ReturnsType, FilesType, MoveType DEF Refuse, Leave, Killed, products
<1>2. CASE Check(p)
  <2>1. at' \in [Processes -> Places]
    BY <1>2, GotoType DEF Check, Places
  <2>2. knows' \in [Processes -> Knowledge]
    BY <1>2, KnowsType, FilesType DEF Check
  <2> QED
    BY <1>2, <2>1, <2>2, FilesType, MoveType DEF Check, products
<1>3. CASE FinishNative(p) \/ Interrupted(p)
  <2>1. \E place \in Places : Goto(p, place)
    BY <1>3 DEF FinishNative, Interrupted, Interruptible, Places
  <2>2. at' \in [Processes -> Places]
    BY <2>1, GotoType
  <2> QED
    BY <1>3, <2>2, FilesType, MoveType DEF FinishNative, Interrupted, products
<1>4. CASE FinishPaper(p)
  <2>1. \E place \in Places : Goto(p, place)
    BY <1>4 DEF FinishPaper, Places
  <2>2. at' \in [Processes -> Places]
    BY <2>1, GotoType
  <2>3. knows[p].mounted \in Adapters \cup {None}
    BY FilesType DEF Knowledge
  <2>4. result' \in Adapters \cup {None}
    BY <1>4, <2>3, FilesType DEF FinishPaper
  <2> QED
    BY <1>4, <2>2, <2>4, FilesType, MoveType DEF FinishPaper
<1>5. CASE Make(p)
  <2>1. at' \in [Processes -> Places]
    BY <1>5, GotoType DEF Make, Places
  <2> QED
    BY <1>5, <2>1 DEF Make, TypeOK, Places, inputs, products, Plans, Native
<1>6. CASE FirstSave(p)
  <2>1. /\ UNCHANGED <<inputs, products, made, n, memo>>
        /\ memo' \in [Processes -> Memos]
    BY <1>6 DEF FirstSave, TypeOK
  <2>2. CASE Returns(p, "error") /\ UNCHANGED <<record, tmp, spoiled, knows>>
    <3>1. /\ at' \in [Processes -> Places]
          /\ code' \in [Processes -> {"running", "ok", "error", "killed"}]
      BY <2>2, ReturnsType
    <3> QED
      BY <2>1, <2>2, <3>1, FilesType, MoveType DEF products, disk
  <2>3. CASE /\ knows' = [knows EXCEPT ![p].hash = files.config]
             /\ \E ok \in BOOLEAN :
                   /\ Save(p, ok)
                   /\ IF ok THEN Goto(p, "next") /\ UNCHANGED code ELSE Returns(p, "error")
    <3>1. knows' \in [Processes -> Knowledge]
      BY <2>3, KnowsType, FilesType
    <3>2. PICK ok \in BOOLEAN :
            /\ Save(p, ok)
            /\ IF ok THEN Goto(p, "next") /\ UNCHANGED code ELSE Returns(p, "error")
      BY <2>3
    <3>3. /\ at' \in [Processes -> Places]
          /\ code' \in [Processes -> {"running", "ok", "error", "killed"}]
      BY <3>2, GotoType, ReturnsType, FilesType DEF Places
    <3> QED
      BY <2>1, <3>1, <3>2, <3>3, SaveType
      DEF TypeOK, Places, inputs, products, Plans, Native
  <2> QED
    BY <1>6, <2>2, <2>3 DEF FirstSave
<1>7. CASE Begin(p)
  <2>1. UNCHANGED <<inputs, products, made, n, knows, code>>
    BY <1>7 DEF Begin
  <2>2. n[p] =< Len(plan)
    <3>1. n[p] \in 1 .. Len(plan) + 1 /\ Len(plan) \in 1 .. 8
      BY PlanFacts DEF TypeOK
    <3> QED
      BY <1>7, <3>1 DEF Begin, Over
  <2>3. memo' \in [Processes -> Memos]
    BY <1>7, <2>2, MemoType DEF Begin
  <2>4. PICK ok \in BOOLEAN : Save(p, ok) /\ Goto(p, IF ok THEN "run" ELSE "abort")
    BY <1>7 DEF Begin
  <2>5. at' \in [Processes -> Places]
    BY <2>4, GotoType DEF Places
  <2> QED
    BY <2>1, <2>3, <2>4, <2>5, SaveType
    DEF TypeOK, Places, inputs, products, Plans, Native
<1>8. CASE Close(p)
  <2>1. UNCHANGED <<inputs, products, made, n, knows>>
    BY <1>8 DEF Close
  <2>2. memo' \in [Processes -> Memos]
    <3>1. memo[p] \in Memos /\ memo \in [Processes -> Memos]
      BY DEF TypeOK
    <3>2. FinalStatus(p) \in {"running", "complete", "failed"}
      BY DEF FinalStatus
    <3>3. [memo[p] EXCEPT !.status = FinalStatus(p)] \in Memos
      BY <3>1, <3>2 DEF Memos
    <3> QED
      BY <1>8, <3>1, <3>3 DEF Close
  <2>3. PICK ok \in BOOLEAN :
          /\ Save(p, ok)
          /\ IF ok /\ at[p] = "commit" THEN Goto(p, "return") /\ UNCHANGED code
             ELSE Returns(p, "error")
    BY <1>8 DEF Close
  <2>4. /\ at' \in [Processes -> Places]
        /\ code' \in [Processes -> {"running", "ok", "error", "killed"}]
    BY <2>3, GotoType, ReturnsType, FilesType DEF Places
  <2> QED
    BY <2>1, <2>2, <2>3, <2>4, SaveType
    DEF TypeOK, Places, inputs, products, Plans, Native
<1> QED
  BY <1>1, <1>2, <1>3, <1>4, <1>5, <1>6, <1>7, <1>8

LEMMA EditType == ASSUME TypeOK, Edit PROVE TypeOK'
<1>1. files' \in [model : Versions, anchor : Versions, config : Lengths]
  BY FilesType DEF Edit
<1>2. adapter' \in Adapters \cup {None} /\ profiles' \in Adapters \cup {None}
  BY FilesType DEF Edit
<1>3. edits' \in 0 .. MaxEdits
  BY EditAssumption DEF Edit, TypeOK
<1> QED
  BY <1>1, <1>2, <1>3 DEF Edit, TypeOK, Plans, Native, disk, process

-----------------------------------------------------------------------------
(* Ownership, progress and what the record says *)

IInv == TypeOK /\ Consistent /\ CompletedTruthful /\ FinalRecord

\* FinalRecord of one process.
FinalOf(p) ==
    made = p /\ at[p] = "done" =>
        LET own == [by |-> p, memo |-> memo[p]]
        IN /\ record # None => Behind(record.memo, memo[p])
           /\ code[p] = "ok" => record = own /\ memo[p].status = "complete"
           /\ code[p] = "error" =>
                 \/ record = None /\ memo[p] = Fresh
                 \/ /\ record = own /\ memo[p].status # "running"
                    /\ \/ Native \/ spoiled[p]
                       \/ \A i \in Positions : memo[p].stages[i] # "running"
                 \/ spoiled[p] /\ record # None /\ record.memo.status = "running"

\* A step of p leaves what is local to the others alone.
Alone(p) ==
    \A q \in Processes \ {p} :
        /\ at'[q] = at[q] /\ n'[q] = n[q] /\ memo'[q] = memo[q]
        /\ knows'[q] = knows[q] /\ spoiled'[q] = spoiled[q] /\ code'[q] = code[q]

LEMMA StepAlone ==
    ASSUME TypeOK, NEW p \in Processes,
           \/ Refuse(p) \/ Check(p) \/ Make(p) \/ FirstSave(p) \/ Begin(p) \/ StageSteps(p)
           \/ FinishNative(p) \/ FinishPaper(p) \/ Close(p) \/ Leave(p)
           \/ Interrupted(p) \/ Killed(p)
    PROVE  Alone(p)
<1>1. \A ok \in BOOLEAN : Ends(p, ok) =>
          \A q \in Processes \ {p} :
              /\ at'[q] = at[q] /\ n'[q] = n[q] /\ memo'[q] = memo[q]
              /\ spoiled'[q] = spoiled[q] /\ code'[q] = code[q]
  <2> SUFFICES ASSUME NEW ok \in BOOLEAN, Ends(p, ok), NEW q \in Processes \ {p}
               PROVE  /\ at'[q] = at[q] /\ n'[q] = n[q] /\ memo'[q] = memo[q]
                      /\ spoiled'[q] = spoiled[q] /\ code'[q] = code[q]
    OBVIOUS
  <2>1. n'[q] = n[q] /\ memo'[q] = memo[q] /\ code'[q] = code[q]
    BY DEF Ends, TypeOK
  <2>2. PICK saved \in BOOLEAN : Save(p, saved) /\ Goto(p, Following(p, ok, saved))
    BY DEF Ends
  <2>3. at'[q] = at[q]
    BY <2>2 DEF Goto, TypeOK
  <2>4. spoiled'[q] = spoiled[q]
    BY <2>2 DEF Save, TypeOK
  <2> QED
    BY <2>1, <2>3, <2>4
<1>2. CASE StageFails(p) \/ Passes(p) \/ Download(p) \/ VerifyModel(p)
           \/ TrainEnds(p) \/ VerifyAdapter(p) \/ Calibrate(p) \/ Benchmark(p)
  <2>1. \E ok \in BOOLEAN : Ends(p, ok)
    BY <1>2 DEF StageFails, Passes, Download, VerifyModel, TrainEnds, VerifyAdapter,
                Calibrate, Benchmark
  <2>2. \A q \in Processes \ {p} : knows'[q] = knows[q]
    BY <1>2 DEF StageFails, Passes, Download, VerifyModel, TrainEnds, VerifyAdapter,
                Calibrate, Benchmark, TypeOK
  <2> QED
    BY <1>1, <2>1, <2>2 DEF Alone
<1>3. CASE Compare(p) \/ TrainBegins(p)
  BY <1>3 DEF Compare, TrainBegins, Goto, TypeOK, Alone
<1>4. CASE Refuse(p) \/ Check(p) \/ Make(p) \/ FinishNative(p) \/ FinishPaper(p)
           \/ Leave(p) \/ Interrupted(p) \/ Killed(p)
  BY <1>4 DEF Refuse, Check, Make, FinishNative, FinishPaper, Leave, Interrupted, Killed,
              Goto, Returns, TypeOK, Alone
<1>5. CASE FirstSave(p)
  BY <1>5 DEF FirstSave, Save, Goto, Returns, TypeOK, Alone
<1>6. CASE Begin(p)
  BY <1>6 DEF Begin, Save, Goto, TypeOK, Alone
<1>7. CASE Close(p)
  BY <1>7 DEF Close, Save, Goto, Returns, TypeOK, Alone
<1> QED
  BY <1>2, <1>3, <1>4, <1>5, <1>6, <1>7 DEF StageSteps

\* The others keep their progress: whoever did not make the directory is not
\* past the beginning.
LEMMA OthersProgress ==
    ASSUME IInv, NEW p \in Processes, Alone(p), UNCHANGED <<program, plan>>,
           \/ at[p] \in Made
           \/ UNCHANGED <<summary, result>>,
           NEW q \in Processes, q # p
    PROVE  Progress(q)'
<1>1. /\ at'[q] = at[q] /\ n'[q] = n[q] /\ memo'[q] = memo[q]
      /\ knows'[q] = knows[q] /\ spoiled'[q] = spoiled[q]
  BY DEF Alone
<1>2. Progress(q)
  BY DEF IInv, Consistent
<1>3. CASE UNCHANGED <<summary, result>>
  BY <1>1, <1>2, <1>3 DEF Progress, Delivered, Over, Stage, Native
<1>4. CASE at[p] \in Made
  <2>1. at[q] \notin Made
    BY <1>4 DEF IInv, Consistent, Owned
  <2>2. at[q] \notin {"first", "next", "run", "training", "compare", "commit", "abort", "return"}
    BY <2>1 DEF Made, Active
  <2> QED
    BY <1>1, <1>2, <2>2 DEF Progress, Active
<1> QED
  BY <1>3, <1>4

\* A step of the process that made the directory: what is left to show is about
\* that process alone.
LEMMA MadeStep ==
    ASSUME IInv, NEW p \in Processes, at[p] \in Made, Alone(p),
           UNCHANGED <<program, plan, made>>,
           at'[p] \notin {"check", "make"},
           record' \in {record, [by |-> p, memo |-> memo'[p]]},
           Progress(p)', Saved(p)', FinalOf(p)', Closed'
    PROVE  (Consistent /\ FinalRecord)'
<1>1. made = p /\ made' = p
  BY DEF IInv, Consistent, Owned
<1>2. record' # None => record'.by = p
  BY <1>1 DEF IInv, Consistent, Owned
<1>3. \A q \in Processes : q # p => at[q] \notin Made /\ at'[q] \notin Made
  BY <1>1 DEF IInv, Consistent, Owned, Alone
<1>4. Owned'
  BY <1>1, <1>2, <1>3 DEF Owned
<1>5. \A q \in Processes : Progress(q)'
  BY OthersProgress
<1>6. \A q \in Processes : Saved(q)'
  <2> SUFFICES ASSUME NEW q \in Processes, q # p PROVE Saved(q)'
    OBVIOUS
  <2>1. at'[q] \notin {"first", "return"} /\ at'[q] \notin Active
    BY <1>3 DEF Made
  <2> QED
    BY <2>1 DEF Saved
<1>7. FinalRecord'
  BY <1>1 DEF FinalRecord, FinalOf
<1> QED
  BY <1>4, <1>5, <1>6, <1>7 DEF Consistent

\* What is saved claims no more than its process has done, and neither does what
\* is in memory.
LEMMA BehindItself ==
    ASSUME NEW m PROVE Behind(m, m)
  BY DEF Behind

\* A step of the process that made the directory, between its first save and its
\* last: what is left to show is its own progress, that the record stays behind it
\* and what the summary says.
LEMMA ActiveStep ==
    ASSUME IInv, TypeOK', NEW p \in Processes, at[p] \in Active, Alone(p),
           UNCHANGED <<program, plan, made>>,
           at'[p] \in Active \/ (at'[p] = "done" /\ code'[p] = "killed"),
           memo'[p].status = "running",
           record' \in {record, [by |-> p, memo |-> memo'[p]]},
           Behind(record.memo, memo'[p]),
           summary' # None => summary'.profiles = summary'.adapter,
           Progress(p)'
    PROVE  (Consistent /\ CompletedTruthful /\ FinalRecord)'
<1>1. Saved(p) /\ at[p] \in Made /\ record # None
  BY DEF IInv, Consistent, Saved, Made
<1>2. made = p /\ record.by = p
  BY <1>1 DEF IInv, Consistent, Owned
<1>3. /\ record' # None /\ Behind(record'.memo, memo'[p])
      /\ record'.memo.status # "complete"
  <2>1. CASE record' = record
    BY <1>1, <1>2, <2>1 DEF IInv, Consistent, Closed, Active
  <2>2. CASE record' = [by |-> p, memo |-> memo'[p]]
    <3>1. memo'[p] \in Memos
      BY DEF TypeOK
    <3>2. record' \in Records
      BY <2>2, <3>1 DEF Records
    <3>3. Behind(memo'[p], memo'[p])
      BY BehindItself
    <3> QED
      BY <2>2, <3>2, <3>3, NoneAssumption
  <2> QED
    BY <2>1, <2>2
<1>4. Closed' /\ CompletedTruthful'
  BY <1>3 DEF Closed, CompletedTruthful
<1>5. at'[p] \notin {"check", "make", "first", "return"}
  BY DEF Active
<1>6. Saved(p)'
  BY <1>3, <1>5 DEF Saved
<1>7. FinalOf(p)'
  BY <1>3 DEF FinalOf, Active
<1> QED
  BY <1>1, <1>4, <1>5, <1>6, <1>7, MadeStep

\* A save leaves the record alone or makes it the memory of the process.
LEMMA SaveRecord ==
    ASSUME NEW p \in Processes, NEW ok \in BOOLEAN, Save(p, ok)
    PROVE  record' \in {record, [by |-> p, memo |-> memo'[p]]}
  BY DEF Save

\* What the receipt of a stage changes.
LEMMA Receipt ==
    ASSUME TypeOK, NEW p \in Processes, n[p] =< Len(plan), NEW status,
           memo' = [memo EXCEPT ![p].stages[n[p]] = status]
    PROVE  /\ memo'[p].status = memo[p].status
           /\ memo'[p].stages[n[p]] = status
           /\ \A i \in Positions : i # n[p] => memo'[p].stages[i] = memo[p].stages[i]
<1>1. n[p] \in Positions
  BY StagePosition
<1>2. memo[p] \in Memos /\ memo \in [Processes -> Memos]
  BY DEF TypeOK
<1>3. memo'[p] = [memo[p] EXCEPT !.stages = [@ EXCEPT ![n[p]] = status]]
  BY <1>2
<1> QED
  BY <1>1, <1>2, <1>3 DEF Memos

\* So the record stays behind the receipt of the present stage.
LEMMA BehindReceipt ==
    ASSUME IInv, NEW p \in Processes, at[p] \in Active \ {"abort"}, n[p] =< Len(plan), NEW status,
           memo' = [memo EXCEPT ![p].stages[n[p]] = status]
    PROVE  Behind(record.memo, memo'[p])
<1>1. TypeOK /\ Progress(p) /\ Saved(p)
  BY DEF IInv, Consistent
<1>2. Behind(record.memo, memo[p])
  BY <1>1 DEF Saved
<1>3. n[p] \in Positions
  BY <1>1, StagePosition
<1>4. memo[p].stages[n[p]] \in {"absent", "running"}
  BY <1>1, <1>3 DEF Progress, Positions
<1>5. /\ memo'[p].status = memo[p].status
      /\ \A i \in Positions : i # n[p] => memo'[p].stages[i] = memo[p].stages[i]
  BY <1>1, Receipt
<1> QED
  BY <1>2, <1>3, <1>4, <1>5 DEF Behind

\* The end of a stage is progress when the last one left its product.
LEMMA EndsProgress ==
    ASSUME IInv, NEW p \in Processes, at[p] \in {"run", "training"},
           NEW ok \in BOOLEAN, Ends(p, ok),
           ok /\ n[p] = Len(plan) => Delivered(p)'
    PROVE  /\ Progress(p)' /\ memo'[p].status = "running"
           /\ record' \in {record, [by |-> p, memo |-> memo'[p]]}
           /\ Behind(record.memo, memo'[p])
           /\ at'[p] \in {"next", "compare", "abort"}
           /\ UNCHANGED <<program, plan, made>>
<1>1. /\ Progress(p) /\ TypeOK /\ n[p] =< Len(plan) /\ memo[p].status = "running"
      /\ \A i \in Positions : i # n[p] => memo[p].stages[i] # "running"
      /\ \A i \in Positions : i < n[p] => memo[p].stages[i] = "complete"
      /\ \A i \in Positions : i >= n[p] => memo[p].stages[i] \in {"absent", "running"}
  BY DEF IInv, Consistent, Progress, Active
<1>2. PICK saved \in BOOLEAN : Save(p, saved) /\ Goto(p, Following(p, ok, saved))
  BY DEF Ends
<1>3. /\ memo'[p].status = "running"
      /\ memo'[p].stages[n[p]] = IF ok THEN "complete" ELSE "failed"
      /\ \A i \in Positions : i # n[p] => memo'[p].stages[i] = memo[p].stages[i]
  <2>1. CASE ok
    <3>1. memo' = [memo EXCEPT ![p].stages[n[p]] = "complete"]
      BY <2>1 DEF Ends
    <3>2. TypeOK /\ n[p] =< Len(plan)
      BY <1>1
    <3>3. /\ memo'[p].status = memo[p].status
          /\ memo'[p].stages[n[p]] = "complete"
          /\ \A i \in Positions : i # n[p] => memo'[p].stages[i] = memo[p].stages[i]
      BY <3>1, <3>2, Receipt
    <3> QED
      BY <1>1, <2>1, <3>3
  <2>2. CASE ~ok
    <3>1. memo' = [memo EXCEPT ![p].stages[n[p]] = "failed"]
      BY <2>2 DEF Ends
    <3>2. TypeOK /\ n[p] =< Len(plan)
      BY <1>1
    <3>3. /\ memo'[p].status = memo[p].status
          /\ memo'[p].stages[n[p]] = "failed"
          /\ \A i \in Positions : i # n[p] => memo'[p].stages[i] = memo[p].stages[i]
      BY <3>1, <3>2, Receipt
    <3> QED
      BY <1>1, <2>2, <3>3
  <2> QED
    BY <2>1, <2>2
<1>4. n'[p] = n[p] + 1 /\ n[p] \in Positions /\ Len(plan) \in Nat
  BY <1>1, StagePosition, PlanFacts DEF Ends, TypeOK
<1>5. /\ at'[p] \in {"next", "compare", "abort"}
      /\ at'[p] # "abort" => ok
  BY <1>2 DEF IInv, TypeOK, Goto, Following
<1>6. \A i \in Positions : memo'[p].stages[i] # "running"
  BY <1>1, <1>3
<1>7. at'[p] # "abort" =>
          \A i \in Positions : i < n'[p] => memo'[p].stages[i] = "complete"
  <2> SUFFICES ASSUME at'[p] # "abort", NEW i \in Positions, i < n'[p]
               PROVE  memo'[p].stages[i] = "complete"
    OBVIOUS
  <2>1. i = n[p] \/ (i # n[p] /\ i < n[p])
    BY <1>4 DEF Positions
  <2>2. CASE i = n[p]
    BY <1>3, <1>5, <2>2
  <2>3. CASE i # n[p] /\ i < n[p]
    BY <1>1, <1>3, <2>3
  <2> QED
    BY <2>1, <2>2, <2>3
<1>8. UNCHANGED <<program, plan, made>>
  BY DEF Ends
<1>9. at'[p] # "abort" => (Over(p)' => Delivered(p)')
  BY <1>1, <1>4, <1>5, <1>8 DEF Over, Positions
<1>10. \A i \in Positions : i >= n'[p] => memo'[p].stages[i] \in {"absent", "running"}
  <2> SUFFICES ASSUME NEW i \in Positions, i >= n'[p]
               PROVE  memo'[p].stages[i] \in {"absent", "running"}
    OBVIOUS
  <2>1. i # n[p] /\ i >= n[p]
    BY <1>4 DEF Positions
  <2> QED
    BY <1>1, <1>3, <2>1
<1>11. Progress(p)'
  BY <1>3, <1>5, <1>6, <1>7, <1>9, <1>10 DEF Progress, Active
<1>12. Behind(record.memo, memo'[p])
  <2>1. at[p] \in Active \ {"abort"} /\ n[p] =< Len(plan)
    BY <1>1 DEF Active
  <2>2. \/ memo' = [memo EXCEPT ![p].stages[n[p]] = "complete"]
        \/ memo' = [memo EXCEPT ![p].stages[n[p]] = "failed"]
    BY DEF Ends
  <2> QED
    BY <2>1, <2>2, BehindReceipt
<1> QED
  BY <1>2, <1>3, <1>5, <1>8, <1>11, <1>12, SaveRecord

\* A stage that is not the last of its plan needs no product.
LEMMA StagePreserves ==
    ASSUME IInv, TypeOK', NEW p \in Processes, StageSteps(p)
    PROVE  (Consistent /\ CompletedTruthful /\ FinalRecord)'
<1>1. TypeOK /\ Progress(p) /\ Alone(p)
  BY StepAlone DEF IInv, Consistent
<1>0. at[p] \in Active => Behind(record.memo, memo[p])
  BY DEF IInv, Consistent, Saved
<1>2. summary # None => summary.profiles = summary.adapter
  BY DEF IInv, Consistent, Closed
<1>3. plan[Len(plan)] = IF Native THEN "benchmark" ELSE "verify_adapter"
  BY <1>1, PlanFacts
<1>4. ASSUME NEW ok \in BOOLEAN, at[p] \in {"run", "training"}, Ends(p, ok),
             ok /\ n[p] = Len(plan) => Delivered(p)',
             summary' # None => summary'.profiles = summary'.adapter
      PROVE  (Consistent /\ CompletedTruthful /\ FinalRecord)'
  BY <1>1, <1>4, EndsProgress, ActiveStep DEF Active
<1>5. CASE StageFails(p)
  <2>1. at[p] \in {"run", "training"} /\ Ends(p, FALSE) /\ UNCHANGED summary
    BY <1>5 DEF StageFails, products
  <2> QED
    BY <1>2, <1>4, <2>1
<1>6. CASE Passes(p) \/ Download(p) \/ VerifyModel(p) \/ TrainEnds(p) \/ Calibrate(p)
  <2>1. at[p] \in {"run", "training"} /\ Ends(p, TRUE) /\ UNCHANGED summary
    BY <1>6 DEF Passes, Download, VerifyModel, TrainEnds, Calibrate, Running, products
  <2>2. Stage(p) \notin {"benchmark", "verify_adapter"}
    <3>1. at[p] = "training" => Stage(p) = "train"
      BY <1>1 DEF Progress
    <3> QED
      BY <1>6, <3>1 DEF Passes, Download, VerifyModel, TrainEnds, Calibrate, Running
  <2>3. n[p] # Len(plan)
    BY <1>3, <2>2 DEF Stage
  <2> QED
    BY <1>2, <1>4, <2>1, <2>3
<1>7. CASE VerifyAdapter(p)
  <2>1. /\ at[p] = "run" /\ Stage(p) = "verify_adapter" /\ Ends(p, TRUE)
        /\ UNCHANGED summary /\ knows' = [knows EXCEPT ![p].mounted = adapter]
        /\ adapter # None /\ adapter.steps = knows[p].steps /\ adapter.base = knows[p].verified
    BY <1>7 DEF VerifyAdapter, Running, Mounts, Requested, products
  <2>2. knows \in [Processes -> Knowledge]
    BY <1>1 DEF TypeOK
  <2>3. /\ knows'[p].mounted = adapter
        /\ knows'[p].verified = knows[p].verified /\ knows'[p].steps = knows[p].steps
    BY <2>1, <2>2 DEF Knowledge
  <2>4. n[p] = Len(plan) => ~Native
    BY <1>3, <2>1 DEF Stage
  <2>5. program' = program
    BY <2>1 DEF Ends
  <2>6. n[p] = Len(plan) => Delivered(p)'
    BY <2>1, <2>3, <2>4, <2>5 DEF Delivered, Native
  <2> QED
    BY <1>2, <1>4, <2>1, <2>6
<1>8. CASE Benchmark(p)
  <2>1. /\ at[p] = "run" /\ Stage(p) = "benchmark" /\ Ends(p, TRUE)
        /\ profiles = adapter /\ adapter # None
    BY <1>8 DEF Benchmark, Running, Mounts
  <2>2. PICK valid \in BOOLEAN :
          summary' = [adapter |-> adapter, profiles |-> profiles, valid |-> valid]
    BY <1>8 DEF Benchmark
  <2>3. summary' \in Summaries
    BY <1>1, <2>1, <2>2, FilesType DEF Summaries
  <2>4. summary' # None
    BY <2>3, NoneAssumption
  <2>5. n[p] = Len(plan) => Native
    BY <1>3, <2>1 DEF Stage
  <2>6. program' = program
    BY <2>1 DEF Ends
  <2>7. n[p] = Len(plan) => Delivered(p)'
    BY <2>4, <2>5, <2>6 DEF Delivered, Native
  <2> QED
    BY <1>4, <2>1, <2>2, <2>7
<1>9. CASE Compare(p)
  <2>1. /\ at[p] = "compare" /\ at'[p] \in {"next", "abort"}
        /\ UNCHANGED <<inputs, products, disk, n, memo, knows, spoiled, code>>
    BY <1>1, <1>9 DEF Compare, Goto, TypeOK
  <2>2. Progress(p)' /\ memo[p].status = "running"
    BY <1>1, <2>1 DEF Progress, Active, Delivered, Over, Stage, Native, inputs, products
  <2> QED
    BY <1>0, <1>1, <1>2, <2>1, <2>2, ActiveStep DEF Active, inputs, products, disk
<1>10. CASE TrainBegins(p)
  <2>1. /\ at[p] = "run" /\ at'[p] = "training" /\ Stage(p) = "train"
        /\ UNCHANGED <<inputs, products, disk, n, memo, spoiled, code>>
    BY <1>1, <1>10 DEF TrainBegins, Running, Goto, TypeOK
  <2>2. knows'[p].read \in Lengths
    <3>1. \E steps \in IF Native THEN Lengths ELSE {files.config} :
              knows' = [knows EXCEPT ![p].read = steps]
      BY <1>10 DEF TrainBegins
    <3>2. PICK steps \in Lengths : knows' = [knows EXCEPT ![p].read = steps]
      BY <1>1, <3>1, FilesType
    <3>3. knows \in [Processes -> Knowledge]
      BY <1>1 DEF TypeOK
    <3> QED
      BY <3>2, <3>3 DEF Knowledge
  <2>3. n[p] =< Len(plan) /\ ~Over(p)
    <3>1. n[p] \in 1 .. Len(plan) + 1 /\ Len(plan) \in 1 .. 8 /\ n[p] =< Len(plan)
      BY <1>1, <2>1, PlanFacts DEF TypeOK, Progress
    <3> QED
      BY <3>1 DEF Over
  <2>4. Progress(p)' /\ memo[p].status = "running"
    BY <1>1, <2>1, <2>2, <2>3 DEF Progress, Active, Over, Stage, Native, inputs, products
  <2> QED
    BY <1>0, <1>1, <1>2, <2>1, <2>4, ActiveStep DEF Active, inputs, products, disk
<1> QED
  BY <1>5, <1>6, <1>7, <1>8, <1>9, <1>10 DEF StageSteps

\* Nothing but the end of a run remains.
LEMMA OuterPreserves ==
    ASSUME IInv, TypeOK', NEW p \in Processes,
           \/ Begin(p) \/ FinishNative(p) \/ FinishPaper(p) \/ Interrupted(p)
           \/ Killed(p) /\ at[p] \in Active
    PROVE  (Consistent /\ CompletedTruthful /\ FinalRecord)'
<1>1. TypeOK /\ Progress(p) /\ Alone(p)
  BY StepAlone DEF IInv, Consistent
<1>0. at[p] \in Active => Behind(record.memo, memo[p])
  BY DEF IInv, Consistent, Saved
<1>2. summary # None => summary.profiles = summary.adapter
  BY DEF IInv, Consistent, Closed
<1>3. CASE Begin(p)
  <2>1. /\ at[p] = "next" /\ ~Over(p)
        /\ memo' = [memo EXCEPT ![p].stages[n[p]] = "running"]
        /\ UNCHANGED <<inputs, products, made, n, knows, code>>
    BY <1>3 DEF Begin
  <2>2. PICK ok \in BOOLEAN : Save(p, ok) /\ Goto(p, IF ok THEN "run" ELSE "abort")
    BY <1>3 DEF Begin
  <2>3. n[p] \in 1 .. Len(plan) + 1 /\ Len(plan) \in 1 .. 8 /\ n[p] =< Len(plan)
    BY <1>1, <2>1, PlanFacts DEF TypeOK, Over
  <2>4. /\ memo'[p].status = memo[p].status
        /\ memo'[p].stages[n[p]] = "running"
        /\ \A i \in Positions : i # n[p] => memo'[p].stages[i] = memo[p].stages[i]
    BY <1>1, <2>1, <2>3, Receipt
  <2>5. at'[p] = IF ok THEN "run" ELSE "abort"
    BY <1>1, <2>2 DEF Goto, TypeOK
  <2>6. ~ok => spoiled'[p] = TRUE
    BY <1>1, <2>2 DEF Save, TypeOK
  <2>7. /\ memo[p].status = "running"
        /\ \A i \in Positions : i < n[p] => memo[p].stages[i] = "complete"
        /\ \A i \in Positions : i >= n[p] => memo[p].stages[i] \in {"absent", "running"}
    BY <1>1, <2>1 DEF Progress, Active
  <2>8. \A i \in Positions : i < n[p] => memo'[p].stages[i] = "complete"
    <3> SUFFICES ASSUME NEW i \in Positions, i < n[p]
                 PROVE  memo'[p].stages[i] = "complete"
      OBVIOUS
    <3>1. i # n[p]
      BY <2>3 DEF Positions
    <3> QED
      BY <2>4, <2>7, <3>1
  <2>9. Progress(p)'
    <3>1. CASE ok
      <4>1. \A i \in Positions : i # n[p] => memo[p].stages[i] # "running"
        BY <1>1, <2>1 DEF Progress
      <4>2. \A i \in Positions : i >= n[p] => memo'[p].stages[i] \in {"absent", "running"}
        BY <2>4, <2>7
      <4> QED
        BY <2>1, <2>3, <2>4, <2>5, <2>7, <2>8, <3>1, <4>1, <4>2 DEF Progress, Over, Active, inputs
    <3>2. CASE ~ok
      BY <2>1, <2>4, <2>5, <2>6, <2>7, <3>2 DEF Progress, Active
    <3> QED
      BY <3>1, <3>2
  <2>10. Behind(record.memo, memo'[p])
    <3>1. at[p] \in Active \ {"abort"} /\ n[p] =< Len(plan)
      BY <2>1, <2>3 DEF Active
    <3> QED
      BY <2>1, <3>1, BehindReceipt
  <2> QED
    BY <1>1, <1>2, <2>1, <2>2, <2>4, <2>5, <2>7, <2>9, <2>10, SaveRecord, ActiveStep
    DEF Active, inputs, products
<1>4. CASE FinishNative(p)
  <2>1. /\ Native /\ at[p] = "next" /\ Over(p)
        /\ at'[p] = IF summary.valid THEN "commit" ELSE "abort"
        /\ UNCHANGED <<inputs, products, disk, n, memo, knows, spoiled, code>>
    BY <1>1, <1>4 DEF FinishNative, Goto, TypeOK
  <2>2. Progress(p)' /\ memo[p].status = "running"
    BY <1>1, <2>1 DEF Progress, Active, Delivered, Over, Stage, Native, inputs, products
  <2> QED
    BY <1>0, <1>1, <1>2, <2>1, <2>2, ActiveStep DEF Active, inputs, products, disk
<1>5. CASE FinishPaper(p)
  <2>1. /\ ~Native /\ at[p] = "next" /\ Over(p)
        /\ UNCHANGED <<inputs, adapter, profiles, summary, disk, n, memo, knows, spoiled, code>>
        /\ \/ result' = knows[p].mounted /\ at'[p] \in {"commit", "abort"}
           \/ UNCHANGED result /\ at'[p] = "abort"
    BY <1>1, <1>5 DEF FinishPaper, Goto, TypeOK
  <2>2. Progress(p)' /\ memo[p].status = "running"
    BY <1>1, <2>1 DEF Progress, Active, Delivered, Over, Stage, Native, inputs
  <2> QED
    BY <1>0, <1>1, <1>2, <2>1, <2>2, ActiveStep DEF Active, inputs, disk
<1>6. CASE Interrupted(p)
  <2>1. /\ at[p] \in {"next", "compare", "run", "training"} /\ at'[p] = "abort"
        /\ ~Native => at[p] \in {"next", "compare"}
        /\ UNCHANGED <<inputs, products, disk, n, memo, knows, spoiled, code>>
    BY <1>1, <1>6 DEF Interrupted, Interruptible, Goto, TypeOK
  <2>2. Progress(p)' /\ memo[p].status = "running"
    BY <1>1, <2>1 DEF Progress, Active, Delivered, Over, Stage, Native, inputs
  <2> QED
    BY <1>0, <1>1, <1>2, <2>1, <2>2, ActiveStep DEF Active, inputs, products, disk
<1>7. CASE Killed(p) /\ at[p] \in Active
  <2>1. /\ at[p] \in Active /\ at'[p] = "done" /\ code'[p] = "killed"
        /\ UNCHANGED <<inputs, products, disk, n, memo, knows, spoiled>>
    BY <1>1, <1>7 DEF Killed, Goto, Returns, TypeOK
  <2>2. Progress(p)' /\ memo[p].status = "running"
    BY <1>1, <2>1 DEF Progress, Active
  <2> QED
    BY <1>0, <1>1, <1>2, <2>1, <2>2, ActiveStep DEF Active, inputs, products, disk
<1> QED
  BY <1>3, <1>4, <1>5, <1>6, <1>7

\* The last save closes the record after every stage, and only then.
LEMMA ClosePreserves ==
    ASSUME IInv, TypeOK', NEW p \in Processes, Close(p)
    PROVE  (Consistent /\ CompletedTruthful /\ FinalRecord)'
<1>1. TypeOK /\ Progress(p) /\ Alone(p)
  BY StepAlone DEF IInv, Consistent
<1>2. /\ at[p] \in {"commit", "abort"}
      /\ memo' = [memo EXCEPT ![p].status = FinalStatus(p)]
      /\ UNCHANGED <<inputs, products, made, n, knows>>
  BY DEF Close
<1>3. PICK ok \in BOOLEAN :
        /\ Save(p, ok)
        /\ IF ok /\ at[p] = "commit" THEN Goto(p, "return") /\ UNCHANGED code
           ELSE Returns(p, "error")
  BY DEF Close
<1>4. /\ at[p] \in Active /\ at[p] \in Made /\ made = p
      /\ record # None /\ record.by = p /\ Behind(record.memo, memo[p])
  <2>1. at[p] \in Active /\ at[p] \in Made /\ Saved(p)
    BY <1>2 DEF IInv, Consistent, Active, Made
  <2>2. record # None /\ Behind(record.memo, memo[p])
    BY <2>1 DEF Saved
  <2> QED
    BY <2>1, <2>2 DEF IInv, Consistent, Owned
<1>5. /\ memo'[p].status = IF at[p] = "commit" THEN "complete" ELSE "failed"
      /\ memo'[p].stages = memo[p].stages
  <2>1. memo[p] \in Memos /\ memo \in [Processes -> Memos]
    BY <1>1 DEF TypeOK
  <2> QED
    BY <1>2, <2>1 DEF FinalStatus, Memos
<1>6. /\ at'[p] = IF ok /\ at[p] = "commit" THEN "return" ELSE "done"
      /\ at'[p] = "done" => code'[p] = "error"
  BY <1>1, <1>2, <1>3 DEF Returns, Goto, TypeOK
<1>7. /\ ok => record' = [by |-> p, memo |-> memo'[p]]
      /\ ~ok => record' = record /\ spoiled'[p] = TRUE
      /\ spoiled[p] => spoiled'[p]
  BY <1>1, <1>3 DEF Save, TypeOK
<1>8. record' # None /\ record'.by = p
  <2>1. memo'[p] \in Memos
    BY DEF TypeOK
  <2>2. [by |-> p, memo |-> memo'[p]] \in Records
    BY <2>1 DEF Records
  <2> QED
    BY <1>4, <1>7, <2>2, NoneAssumption
<1>9. record.memo.status = "running" /\ memo[p].status = "running"
  <2>1. memo[p].status = "running"
    BY <1>1, <1>2 DEF Progress
  <2> QED
    BY <1>4, <2>1 DEF Behind
<1>10. Behind(record'.memo, memo'[p])
  <2>1. CASE ok
    <3>1. Behind(memo'[p], memo'[p])
      BY BehindItself
    <3> QED
      BY <1>7, <2>1, <3>1
  <2>2. CASE ~ok
    BY <1>4, <1>5, <1>7, <1>9, <2>2 DEF Behind
  <2> QED
    BY <2>1, <2>2
<1>11. Progress(p)'
  BY <1>6 DEF Progress, Active
<1>12. Closed'
  <2>1. \A q \in Processes : q # p => at'[q] = at[q]
    BY <1>1 DEF Alone
  <2> QED
    BY <1>2, <1>6, <1>8, <2>1 DEF Closed, IInv, Consistent, products
<1>13. CompletedTruthful'
  <2> SUFFICES ASSUME record' # None, record'.memo.status = "complete"
               PROVE  CompletedTruthful'
    BY DEF CompletedTruthful
  <2>1. ok /\ at[p] = "commit" /\ record' = [by |-> p, memo |-> memo'[p]]
    <3>1. record' # record
      BY <1>9
    <3>2. ok /\ record' = [by |-> p, memo |-> memo'[p]]
      BY <1>7, <3>1
    <3>3. memo'[p].status = "complete"
      BY <3>2
    <3> QED
      BY <1>5, <3>2, <3>3
  <2>2. /\ Over(p) /\ Delivered(p)
        /\ IF Native THEN summary.valid ELSE result = knows[p].mounted
        /\ \A i \in Positions : i < n[p] => memo[p].stages[i] = "complete"
    BY <1>1, <2>1 DEF Progress, Active
  <2>3. \A i \in 1 .. Len(plan) : memo[p].stages[i] = "complete"
    <3> SUFFICES ASSUME NEW i \in 1 .. Len(plan)
                 PROVE  memo[p].stages[i] = "complete"
      OBVIOUS
    <3>1. n[p] \in 1 .. Len(plan) + 1
      BY <1>1 DEF TypeOK
    <3>2. Len(plan) \in Nat /\ Len(plan) =< 8
      BY <1>1, PlanFacts
    <3>3. n[p] > Len(plan)
      BY <2>2 DEF Over
    <3>4. i \in Positions /\ i < n[p]
      BY <3>1, <3>2, <3>3 DEF Positions
    <3> QED
      BY <2>2, <3>4
  <2>4. summary # None => summary.profiles = summary.adapter
    BY DEF IInv, Consistent, Closed
  <2> QED
    BY <1>2, <1>5, <2>1, <2>2, <2>3, <2>4
    DEF CompletedTruthful, Delivered, Native, inputs, products
<1>14. Saved(p)'
  <2>1. at'[p] = "return" =>
            record'.memo = memo'[p] /\ memo'[p].status = "complete" /\ at[p] = "commit"
    BY <1>2, <1>5, <1>6, <1>7
  <2>2. at[p] = "commit" => \A i \in Positions : memo[p].stages[i] # "running"
    BY <1>1 DEF Progress
  <2> QED
    BY <1>5, <1>6, <1>8, <1>10, <2>1, <2>2 DEF Saved, Active
<1>15. FinalOf(p)'
  <2>1. CASE at'[p] # "done"
    BY <2>1 DEF FinalOf
  <2>2. CASE at'[p] = "done" /\ ok
    <3>1. at[p] = "abort" /\ memo'[p].status = "failed"
      BY <1>2, <1>5, <1>6, <2>2
    <3>2. \/ Native \/ spoiled[p]
          \/ \A i \in Positions : memo[p].stages[i] # "running"
      BY <1>1, <3>1 DEF Progress
    <3>3. \/ Native' \/ spoiled'[p]
          \/ \A i \in Positions : memo'[p].stages[i] # "running"
      BY <1>2, <1>5, <1>7, <3>2 DEF Native, inputs
    <3> QED
      BY <1>6, <1>7, <1>10, <2>2, <3>1, <3>3 DEF FinalOf
  <2>3. CASE at'[p] = "done" /\ ~ok
    BY <1>6, <1>7, <1>8, <1>9, <1>10, <2>3 DEF FinalOf
  <2> QED
    BY <2>1, <2>2, <2>3
<1>16. /\ UNCHANGED <<program, plan, made>> /\ at'[p] \notin {"check", "make"}
       /\ record' \in {record, [by |-> p, memo |-> memo'[p]]}
  BY <1>2, <1>6, <1>7 DEF inputs
<1> QED
  BY <1>1, <1>4, <1>11, <1>12, <1>13, <1>14, <1>15, <1>16, MadeStep

\* Until the first save is made there is no record.
LEMMA FirstPreserves ==
    ASSUME IInv, TypeOK', NEW p \in Processes,
           FirstSave(p) \/ (Killed(p) /\ at[p] = "first")
    PROVE  (Consistent /\ CompletedTruthful /\ FinalRecord)'
<1>1. TypeOK /\ Progress(p) /\ Saved(p) /\ Alone(p)
  BY StepAlone DEF IInv, Consistent
<1>2. /\ at[p] = "first" /\ at[p] \in Made /\ record = None
      /\ n[p] = 1 /\ memo[p] = Fresh /\ memo[p].status = "running"
  <2>1. at[p] = "first"
    BY DEF FirstSave
  <2> QED
    BY <1>1, <2>1 DEF Progress, Saved, Made
<1>3. UNCHANGED <<program, plan, made, summary, n, memo>>
  BY DEF FirstSave, Killed, inputs, products, disk
<1>4. \/ record' = None /\ at'[p] = "done" /\ code'[p] \in {"error", "killed"}
      \/ record' = [by |-> p, memo |-> memo'[p]] /\ at'[p] = "next"
  <2>1. CASE Killed(p) \/ (Returns(p, "error") /\ UNCHANGED record)
    BY <1>1, <1>2, <2>1 DEF Killed, Goto, Returns, TypeOK, disk
  <2>2. CASE \E ok \in BOOLEAN :
                /\ Save(p, ok)
                /\ IF ok THEN Goto(p, "next") /\ UNCHANGED code ELSE Returns(p, "error")
    <3>1. PICK ok \in BOOLEAN :
            /\ Save(p, ok)
            /\ IF ok THEN Goto(p, "next") /\ UNCHANGED code ELSE Returns(p, "error")
      BY <2>2
    <3> QED
      BY <1>1, <1>2, <3>1 DEF Goto, Returns, Save, TypeOK
  <2> QED
    BY <2>1, <2>2 DEF FirstSave
<1>5. record' # None => record'.by = p /\ record'.memo = memo'[p]
  BY <1>4
<1>6. at'[p] = "next" => record' # None
  <2>1. memo'[p] \in Memos
    BY DEF TypeOK
  <2>2. [by |-> p, memo |-> memo'[p]] \in Records
    BY <2>1 DEF Records
  <2> QED
    BY <1>4, <2>2, NoneAssumption
<1>7. Behind(memo'[p], memo'[p])
  BY BehindItself
<1>8. ~Over(p)' /\ \A i \in Positions : memo[p].stages[i] = "absent"
  <2>1. PICK length \in 1 .. 8 : length = Len(plan)
    BY <1>1, PlanFacts
  <2>2. n'[p] = 1 /\ Len(plan') = length
    BY <1>2, <1>3, <2>1
  <2>3. ~Over(p)'
    BY <2>1, <2>2 DEF Over
  <2> QED
    BY <1>2, <2>3 DEF Fresh
<1>9. Progress(p)'
  BY <1>2, <1>3, <1>4, <1>8 DEF Progress, Active, Positions
<1>10. Saved(p)'
  BY <1>4, <1>5, <1>6, <1>7 DEF Saved, Active
<1>11. FinalOf(p)'
  BY <1>2, <1>3, <1>4, <1>5, <1>7 DEF FinalOf
<1>12. Closed' /\ CompletedTruthful'
  <2>1. record' # None => record'.memo.status # "complete"
    BY <1>2, <1>3, <1>5
  <2> QED
    BY <1>3, <2>1 DEF Closed, CompletedTruthful, IInv, Consistent
<1>13. /\ at'[p] \notin {"check", "make"}
       /\ record' \in {record, [by |-> p, memo |-> memo'[p]]}
  BY <1>2, <1>4
<1> QED
  BY <1>1, <1>2, <1>3, <1>9, <1>10, <1>11, <1>12, <1>13, MadeStep

\* After the last save of a completed run nothing is written: its record stays,
\* whether the process returns, fails or is killed.
LEMMA ReturnPreserves ==
    ASSUME IInv, TypeOK', NEW p \in Processes,
           Leave(p) \/ (Killed(p) /\ at[p] = "return")
    PROVE  (Consistent /\ CompletedTruthful /\ FinalRecord)'
<1>1. TypeOK /\ Progress(p) /\ Saved(p) /\ Alone(p)
  BY StepAlone DEF IInv, Consistent
<1>2. /\ at[p] = "return" /\ at[p] \in Made /\ at'[p] = "done"
      /\ UNCHANGED <<inputs, products, disk, n, memo, knows, spoiled>>
  BY <1>1 DEF Leave, Killed, Returns, Goto, TypeOK, Made
<1>3. /\ record # None /\ record.memo = memo[p] /\ memo[p].status = "complete"
      /\ Native \/ \A i \in Positions : memo[p].stages[i] # "running"
  BY <1>1, <1>2 DEF Saved
<1>4. record = [by |-> p, memo |-> memo[p]]
  <2>1. record.by = p
    BY <1>2, <1>3 DEF IInv, Consistent, Owned
  <2>2. record \in Records
    BY <1>1, <1>3 DEF TypeOK
  <2> QED
    BY <1>3, <2>1, <2>2 DEF Records
<1>5. Behind(memo[p], memo[p])
  BY BehindItself
<1>6. Progress(p)' /\ Saved(p)'
  BY <1>2 DEF Progress, Saved, Active
<1>7. FinalOf(p)'
  BY <1>2, <1>3, <1>4, <1>5 DEF FinalOf, Native, inputs, disk
<1>8. Closed' /\ CompletedTruthful'
  <2>1. record' = record /\ record.by = p
    BY <1>2, <1>4 DEF disk
  <2> QED
    BY <1>2, <2>1 DEF IInv, Consistent, Closed, CompletedTruthful, Native, inputs, products
<1>9. UNCHANGED <<program, plan, made>> /\ record' = record
  BY <1>2 DEF inputs, disk
<1> QED
  BY <1>1, <1>2, <1>6, <1>7, <1>8, <1>9, MadeStep

\* Whoever is refused did not make the directory, and when it is made there is no
\* record.
LEMMA EntryPreserves ==
    ASSUME IInv, NEW p \in Processes,
           \/ Refuse(p) \/ Check(p) \/ Make(p)
           \/ Killed(p) /\ at[p] \in {"check", "make"}
    PROVE  (Consistent /\ CompletedTruthful /\ FinalRecord)'
<1>1. TypeOK /\ Progress(p) /\ Alone(p)
  BY StepAlone DEF IInv, Consistent
<1>2. at[p] \in {"check", "make"} /\ made # p
  <2>1. at[p] \in {"check", "make"}
    BY DEF Refuse, Check, Make
  <2>2. p # None
    BY NoneAssumption
  <2> QED
    BY <2>1, <2>2 DEF IInv, Consistent, Owned
<1>3. UNCHANGED <<program, plan, summary, result, n, memo>>
  BY DEF Refuse, Check, Make, Killed, inputs, products
<1>4. \A q \in Processes : q # p => Progress(q)'
  BY <1>1, <1>3, OthersProgress
<1>5. summary # None => summary.profiles = summary.adapter
  BY DEF IInv, Consistent, Closed
<1>6. n[p] = 1 /\ memo[p] = Fresh /\ memo[p].status = "running"
  BY <1>1, <1>2 DEF Progress
<1>7. UNCHANGED record
  BY DEF Refuse, Check, Make, Killed, disk
<1>8. record # None => record.by \in Processes /\ record.by = made /\ record.by # p
  BY <1>1, <1>2, NoneAssumption DEF IInv, Consistent, Owned, TypeOK, Records
<1>9. at'[p] \in {"make", "first", "done"}
  BY <1>1 DEF Refuse, Check, Make, Killed, Goto, Returns, TypeOK
<1>10. Progress(p)'
  BY <1>3, <1>6, <1>9 DEF Progress, Active
<1>11. at'[p] = "first" => made = None /\ made' = p
  BY <1>1, <1>2 DEF Refuse, Check, Make, Makes, Killed, Goto, Returns, TypeOK
<1>12. at'[p] # "first" => made' = made
  BY <1>1, <1>2 DEF Refuse, Check, Make, Makes, Killed, Goto, Returns, TypeOK, disk
<1>13. made = None => record = None
  BY <1>8, NoneAssumption
<1>14. made = None => \A q \in Processes : at[q] \notin Made
  BY NoneAssumption DEF IInv, Consistent, Owned
<1>15. Owned'
  <2>1. Owned
    BY DEF IInv, Consistent
  <2>2. CASE at'[p] = "first"
    <3>1. \A q \in Processes : q # p => at'[q] \notin Made
      BY <1>1, <1>11, <1>14, <2>2 DEF Alone
    <3> QED
      BY <1>7, <1>11, <1>13, <2>2, <3>1 DEF Owned
  <2>3. CASE at'[p] # "first"
    <3>1. at'[p] \notin Made
      BY <1>9, <2>3 DEF Made, Active
    <3>2. \A q \in Processes : at'[q] \in Made => made' = q
      BY <1>1, <1>12, <2>1, <2>3, <3>1 DEF Owned, Alone
    <3>3. made' # None => at'[made'] \notin {"check", "make"}
      BY <1>1, <1>2, <1>12, <2>1, <2>3 DEF Owned, Alone, TypeOK
    <3> QED
      BY <1>7, <1>12, <2>1, <2>3, <3>2, <3>3 DEF Owned
  <2> QED
    BY <2>2, <2>3
<1>16. \A q \in Processes : Saved(q)'
  <2> SUFFICES ASSUME NEW q \in Processes PROVE Saved(q)'
    OBVIOUS
  <2>1. CASE q = p
    <3>1. at'[p] \notin Active /\ at'[p] # "return"
      BY <1>9 DEF Active
    <3>2. at'[p] = "first" => record' = None
      BY <1>7, <1>11, <1>13
    <3> QED
      BY <2>1, <3>1, <3>2 DEF Saved
  <2>2. CASE q # p
    <3>1. at'[q] = at[q] /\ memo'[q] = memo[q]
      BY <1>1, <2>2 DEF Alone
    <3>2. Saved(q)
      BY DEF IInv, Consistent
    <3> QED
      BY <1>3, <1>7, <3>1, <3>2 DEF Saved, Native
  <2> QED
    BY <2>1, <2>2
<1>17. Closed'
  BY <1>1, <1>3, <1>5, <1>7, <1>8 DEF IInv, Consistent, Closed, Alone
<1>18. CompletedTruthful'
  BY <1>1, <1>3, <1>7, <1>8 DEF IInv, CompletedTruthful, Native, Alone
<1>19. FinalRecord'
  <2> SUFFICES ASSUME NEW q \in Processes, made' = q, at'[q] = "done" PROVE FinalOf(q)'
    BY DEF FinalRecord, FinalOf
  <2>1. q # p /\ made = q
    BY <1>2, <1>11, <1>12
  <2>2. /\ at'[q] = at[q] /\ memo'[q] = memo[q] /\ spoiled'[q] = spoiled[q]
        /\ code'[q] = code[q]
    BY <1>1, <2>1 DEF Alone
  <2>3. FinalOf(q)
    BY DEF IInv, FinalRecord, FinalOf
  <2> QED
    BY <1>3, <1>7, <2>1, <2>2, <2>3 DEF FinalOf, Native
<1> QED
  BY <1>4, <1>10, <1>15, <1>16, <1>17, <1>18, <1>19 DEF Consistent

\* Editing the inputs changes nothing that was promised.
LEMMA EditPreserves ==
    ASSUME IInv, Edit
    PROVE  (Consistent /\ CompletedTruthful /\ FinalRecord)'
<1>1. UNCHANGED <<program, plan, summary, result, disk, process>>
  BY DEF Edit
<1>2. \A q \in Processes : Progress(q)' /\ Saved(q)'
  BY <1>1 DEF IInv, Consistent, Progress, Saved, Delivered, Over, Stage, Native, process, disk
<1>3. Owned' /\ Closed'
  BY <1>1 DEF IInv, Consistent, Owned, Closed, process, disk
<1>4. CompletedTruthful' /\ FinalRecord'
  BY <1>1 DEF IInv, CompletedTruthful, FinalRecord, Native, process, disk
<1> QED
  BY <1>2, <1>3, <1>4 DEF Consistent

LEMMA InitInvariant == Init => IInv
<1> SUFFICES ASSUME Init PROVE IInv
  OBVIOUS
<1>1. Plans # {} /\ plan \in Plans
  BY DEF Init
<1>2. \A p \in Processes : /\ at[p] = "check" /\ n[p] = 1 /\ memo[p] = Fresh
                           /\ code[p] = "running"
  BY DEF Init
<1>3. made = None /\ record = None /\ summary = None
  BY DEF Init
<1>4. Fresh \in Memos
  BY DEF Fresh, Memos
<1>5. Ignorant \in Knowledge
  BY DEF Ignorant, Knowledge
<1>6. Len(plan) \in Nat
  <2>1. CASE Native
    BY <1>1, <2>1 DEF Plans, NativePlans
  <2>2. CASE ~Native
    BY <1>1, <2>2 DEF Plans, PaperPlan, DownloadPlan
  <2> QED
    BY <2>1, <2>2
<1>7. TypeOK
  <2>1. adapter \in Adapters \cup {None} /\ profiles \in Adapters \cup {None}
    BY DEF Init
  <2>2. n \in [Processes -> 1 .. Len(plan) + 1]
    BY <1>6 DEF Init
  <2>3. memo \in [Processes -> Memos] /\ knows \in [Processes -> Knowledge]
    BY <1>4, <1>5 DEF Init
  <2>4. edits \in 0 .. MaxEdits
    BY EditAssumption DEF Init
  <2> QED
    BY <2>1, <2>2, <2>3, <2>4 DEF Init, TypeOK
<1>8. Owned
  <2>1. None \notin Processes
    BY NoneAssumption
  <2> QED
    BY <1>2, <1>3, <2>1 DEF Owned, Made, Active
<1>9. \A p \in Processes : Progress(p) /\ Saved(p)
  <2> SUFFICES ASSUME NEW p \in Processes PROVE Progress(p) /\ Saved(p)
    OBVIOUS
  <2>1. at[p] = "check" /\ n[p] = 1 /\ memo[p] = Fresh /\ memo[p].status = "running"
    BY <1>2 DEF Fresh
  <2> QED
    BY <2>1 DEF Progress, Saved, Active
<1>10. Closed /\ CompletedTruthful
  BY <1>3 DEF Closed, CompletedTruthful
<1>11. FinalRecord
  BY <1>2 DEF FinalRecord
<1> QED
  BY <1>7, <1>8, <1>9, <1>10, <1>11 DEF IInv, Consistent

LEMMA NextInvariant == IInv /\ [Next]_vars => IInv'
<1> SUFFICES ASSUME IInv, [Next]_vars PROVE IInv'
  OBVIOUS
<1>1. ASSUME NEW p \in Processes,
             \/ Refuse(p) \/ Check(p) \/ Make(p) \/ FirstSave(p) \/ Begin(p) \/ StageSteps(p)
             \/ FinishNative(p) \/ FinishPaper(p) \/ Close(p) \/ Leave(p)
             \/ Interrupted(p) \/ Killed(p)
      PROVE  IInv'
  <2>1. TypeOK /\ Progress(p)
    BY DEF IInv, Consistent
  <2>2. TypeOK'
    BY <1>1, <2>1, OuterType, StageType
  <2>3. Killed(p) => at[p] \in Active \cup {"check", "make", "first", "return"}
    BY <2>1 DEF Killed, TypeOK, Active
  <2>4. (Consistent /\ CompletedTruthful /\ FinalRecord)'
    <3>1. CASE StageSteps(p)
      BY <2>2, <3>1, StagePreserves
    <3>2. CASE Begin(p) \/ FinishNative(p) \/ FinishPaper(p) \/ Interrupted(p)
      BY <2>2, <3>2, OuterPreserves
    <3>3. CASE Refuse(p) \/ Check(p) \/ Make(p)
      BY <3>3, EntryPreserves
    <3>4. CASE FirstSave(p)
      BY <2>2, <3>4, FirstPreserves
    <3>5. CASE Close(p)
      BY <2>2, <3>5, ClosePreserves
    <3>6. CASE Leave(p)
      BY <2>2, <3>6, ReturnPreserves
    <3>7. CASE Killed(p)
      BY <2>2, <2>3, <3>7, OuterPreserves, EntryPreserves, FirstPreserves, ReturnPreserves
    <3> QED
      BY <1>1, <3>1, <3>2, <3>3, <3>4, <3>5, <3>6, <3>7
  <2> QED
    BY <2>2, <2>4 DEF IInv
<1>2. CASE Edit
  BY <1>2, EditType, EditPreserves DEF IInv
<1>3. CASE UNCHANGED vars
  BY <1>3 DEF IInv, TypeOK, Consistent, Owned, Progress, Saved, Delivered, Closed,
              CompletedTruthful, FinalRecord, Over, Stage, Native, Plans, vars, inputs, products, disk, process
<1> QED
  BY <1>1, <1>2, <1>3 DEF Next

LEMMA Invariant == Spec => []IInv
<1>1. Init => IInv
  BY InitInvariant
<1>2. IInv /\ [Next]_vars => IInv'
  BY NextInvariant
<1> QED
  BY <1>1, <1>2, PTL DEF Spec

-----------------------------------------------------------------------------
(* Theorems *)

\* Every variable stays in its type, whatever is run, saved, edited or killed.
THEOREM StagedTypeOK == Spec => []TypeOK
<1>1. IInv => TypeOK
  BY DEF IInv
<1> QED
  BY <1>1, Invariant, PTL

\* Only the process that made the directory is past the beginning, the stages
\* before the present one are complete, and nothing says completed early.
THEOREM StagedConsistent == Spec => []Consistent
<1>1. IInv => Consistent
  BY DEF IInv
<1> QED
  BY <1>1, Invariant, PTL

\* A record that says completed is true of a whole run.
THEOREM StagedCompletedTruthful == Spec => []CompletedTruthful
<1>1. IInv => CompletedTruthful
  BY DEF IInv
<1> QED
  BY <1>1, Invariant, PTL

\* However a process ended and whichever of its saves failed, what it leaves claims
\* no more than it did; exit 0 leaves its completed record, and an error no record,
\* the record of how it ended, or, after a failed save, one that still says running.
THEOREM StagedFinalRecord == Spec => []FinalRecord
<1>1. IInv => FinalRecord
  BY DEF IInv
<1> QED
  BY <1>1, Invariant, PTL

\* Among any number of processes a record never passes from one to another.
THEOREM StagedRecordOwned == Spec => RecordOwned
<1>1. ASSUME IInv, Next, record # None
      PROVE  record' # None /\ record'.by = record.by
  <2>1. TypeOK /\ Owned
    BY <1>1 DEF IInv, Consistent
  <2>2. record \in Records /\ record.by = made /\ record.by \in Processes /\ made # None
    BY <1>1, <2>1, NoneAssumption DEF TypeOK, Owned, Records
  <2>3. IInv'
    BY <1>1, NextInvariant
  <2>4. record' # None => record'.by = made'
    BY <2>3 DEF IInv, Consistent, Owned
  <2>5. \A p \in Processes, ok \in BOOLEAN : Save(p, ok) => record' # None
    <3> SUFFICES ASSUME NEW p \in Processes, NEW ok \in BOOLEAN, Save(p, ok)
                 PROVE  record' # None
      OBVIOUS
    <3>1. CASE ok
      <4>1. memo'[p] \in Memos
        BY <2>3 DEF IInv, TypeOK
      <4>2. record' \in Records
        BY <3>1, <4>1 DEF Save, Records
      <4> QED
        BY <4>2, NoneAssumption
    <3>2. CASE ~ok
      BY <1>1, <3>2 DEF Save
    <3> QED
      BY <3>1, <3>2
  <2>6. made' = made /\ record' # None
    <3>1. CASE Edit
      BY <1>1, <3>1 DEF Edit, disk
    <3>2. ASSUME NEW p \in Processes, NEW ok \in BOOLEAN, Ends(p, ok)
          PROVE  made' = made /\ record' # None
      BY <2>5, <3>2 DEF Ends
    <3>3. ASSUME NEW p \in Processes, StageSteps(p)
          PROVE  made' = made /\ record' # None
      BY <1>1, <3>2, <3>3
      DEF StageSteps, StageFails, Passes, Download, VerifyModel, Compare, TrainBegins,
          TrainEnds, VerifyAdapter, Calibrate, Benchmark, disk
    <3>4. ASSUME NEW p \in Processes,
                 \/ Refuse(p) \/ Check(p) \/ Make(p) \/ FirstSave(p) \/ Begin(p)
                 \/ FinishNative(p) \/ FinishPaper(p) \/ Close(p) \/ Leave(p)
                 \/ Interrupted(p) \/ Killed(p)
          PROVE  made' = made /\ record' # None
      BY <1>1, <2>2, <2>5, <3>4
      DEF Refuse, Check, Make, Makes, FirstSave, Begin, FinishNative, FinishPaper, Close,
          Leave, Interrupted, Killed, disk
    <3> QED
      BY <1>1, <3>1, <3>3, <3>4 DEF Next
  <2> QED
    BY <2>2, <2>4, <2>6
<1>2. IInv /\ [Next]_vars => [record # None => record' # None /\ record'.by = record.by]_vars
  BY <1>1
<1> QED
  BY <1>2, Invariant, PTL DEF Spec, RecordOwned
=============================================================================
