------------------------- MODULE ScannerPilotProofs -------------------------
(* Safety of ScannerPilot for every list of scanners, scope, checkout and   *)
(* number of runs.                                                          *)
EXTENDS ScannerPilot, TLAPS

LEMMA OrderType ==
  /\ DOMAIN Order = 1 .. 8
  /\ Len(Order) = 8
  /\ \A i \in 1 .. 8 : Order[i] = "evidence-pack" => i = 6
  /\ \A i \in 1 .. 8 : Order[i] = "analysis" => i = 4
  /\ "evidence-pack" \in Artifacts
BY DEF Order, Artifacts

LEMMA NothingType == Nothing \in Reports
BY DEF Nothing, Reports

LEMMA IdleType == Idle \in Run
<1>1. {} \in SUBSET External
  OBVIOUS
<1>2. 1 \in DOMAIN Order
  BY OrderType
<1> QED
  BY <1>1, <1>2, NothingType DEF Idle, Run

LEMMA InitInvariant == Init => IInv
<1> SUFFICES ASSUME Init PROVE IInv
  OBVIOUS
<1>1. TypeOK
  BY IdleType, ValuesAssumption DEF Init, TypeOK
<1>2. ~ Whole("evidence-pack")
  BY OrderType DEF Init, Whole
<1>3. run.phase = "idle"
  BY DEF Init, Idle
<1> QED
  BY <1>1, <1>2, <1>3 DEF Init, Idle, IInv, ScansFirst, RunIsBacked, PackIsAPack,
     PackIsBacked, RunWrote, AssessedLate, CompletedIsLast, CompletedRunAgrees,
     Completed, ScansAreHonest

(* One step per action, one substep per variable the action assigns. *)
LEMMA TypeStep == TypeOK /\ [Next]_vars => TypeOK'
<1> SUFFICES ASSUME TypeOK, [Next]_vars PROVE TypeOK'
  OBVIOUS
<1>1. ASSUME NEW checks \in SUBSET Checks, Start(checks) PROVE TypeOK'
  <2> DEFINE seen == [Nothing EXCEPT ![Policy] = IF Policy \in checks THEN tree ELSE Nil]
  <2>1. seen \in Reports
    BY NothingType DEF TypeOK, Reports
  <2>2. run' = [Idle EXCEPT !.phase = "scanning", !.checks = checks,
                            !.todo = checks \cap External,
                            !.report = seen, !.saw = seen]
    BY <1>1 DEF Start
  <2> HIDE DEF seen
  <2>3. run' \in Run
    <3>1. checks \in SUBSET Allowed /\ checks \cap External \in SUBSET External
      BY <1>1 DEF Start
    <3> QED BY <3>1, <2>1, <2>2, IdleType DEF Run
  <2>4. runs' \in 0 .. MaxRuns
    BY <1>1, ValuesAssumption DEF Start, TypeOK
  <2> QED
    BY <1>1, <2>3, <2>4 DEF Start, TypeOK
<1>2. ASSUME NEW s \in External, Scan(s) \/ ScanSilently(s) PROVE TypeOK'
  <2>1. run' \in Run
    <3>1. s \in Checks
      BY DEF Checks
    <3>2. [run.saw EXCEPT ![s] = tree] \in Reports
      BY <3>1 DEF TypeOK, Run, Reports
    <3>3. run.todo \ {s} \in SUBSET External
      BY DEF TypeOK, Run
    <3> QED BY <1>2, <3>2, <3>3 DEF Scan, ScanSilently, Ran, TypeOK, Run
  <2>2. sarif' \in [External -> Trees \cup {Nil, Torn}]
    BY <1>2 DEF Scan, ScanSilently, TypeOK
  <2> QED
    BY <1>2, <2>1, <2>2 DEF Scan, ScanSilently, TypeOK
<1>3. ASSUME NEW s \in External, ScanMissing(s) \/ ScanFails(s) PROVE TypeOK'
  <2>1. sarif' \in [External -> Trees \cup {Nil, Torn}]
    BY <1>3 DEF ScanMissing, ScanFails, TypeOK
  <2> QED
    BY <1>3, <2>1, IdleType DEF ScanMissing, ScanFails, End, TypeOK
<1>4. CASE Import
  <2> DEFINE merged == [c \in Allowed |->
               IF c \in Executed(run) THEN sarif[c] ELSE run.report[c]]
  <2>1. merged \in Reports
    BY <1>4 DEF Import, Executed, TypeOK, Run, Reports
  <2>2. run' = [run EXCEPT !.phase = "writing", !.report = merged]
    BY <1>4 DEF Import
  <2>3. run' \in Run
    BY <2>1, <2>2 DEF TypeOK, Run
  <2> QED
    BY <1>4, <2>3 DEF Import, TypeOK
<1>5. CASE ImportFails \/ Stop
  BY <1>5, IdleType DEF ImportFails, Stop, End, TypeOK
<1>6. ASSUME NEW item \in Artifacts, Write(item) PROVE TypeOK'
  <2>1. Contents(item) \in File
    BY DEF Contents, Metrics, Executed, File, TypeOK, Run
  <2>2. artifacts' \in [Artifacts -> File \cup {Nil, Torn}]
    BY <1>6, <2>1 DEF Write, TypeOK
  <2>3. run' \in Run
    BY <1>6, IdleType, OrderType DEF Write, Advance, TypeOK, Run
  <2> QED
    BY <1>6, <2>2, <2>3 DEF Write, TypeOK
<1>7. CASE SkipReceipts
  <2>1. run' \in Run
    BY <1>7, IdleType, OrderType DEF SkipReceipts, Advance, TypeOK, Run
  <2> QED
    BY <1>7, <2>1 DEF SkipReceipts, TypeOK
<1>8. ASSUME NEW item \in Artifacts, Tear(item) PROVE TypeOK'
  <2>1. artifacts' \in [Artifacts -> File \cup {Nil, Torn}]
    BY <1>8 DEF Tear, TypeOK
  <2> QED
    BY <1>8, <2>1, IdleType DEF Tear, End, TypeOK
<1>9. ASSUME NEW a \in Assessments, Analyze(a) PROVE TypeOK'
  <2>1. run.item = 4
    BY <1>9, OrderType DEF Analyze, At, TypeOK, Run
  <2>2. run' \in Run
    <3>1. run \in Run /\ run.item + 1 \in DOMAIN Order
      BY <2>1, OrderType DEF TypeOK
    <3>2. run' = [run EXCEPT !.assessment = a, !.item = run.item + 1]
      BY <1>9 DEF Analyze
    <3> QED BY <3>1, <3>2 DEF Run
  <2>3. rows' \in [Reports -> Row \cup {Nil}]
    BY <1>9 DEF Analyze, TypeOK, Row
  <2> QED
    BY <1>9, <2>2, <2>3 DEF Analyze, TypeOK
<1>10. CASE AnalyzeFails
  <2>1. rows' \in [Reports -> Row \cup {Nil}]
    BY <1>10 DEF AnalyzeFails, Failed, TypeOK, Row
  <2> QED
    BY <1>10, <2>1, IdleType DEF AnalyzeFails, End, TypeOK
<1>11. CASE AnalyzeAgain
  <2>1. run.item = 4
    BY <1>11, OrderType DEF AnalyzeAgain, At, TypeOK, Run
  <2>2. rows[run.report] \in Row
    BY <1>11 DEF AnalyzeAgain, Fresh, TypeOK, Run
  <2>3. run' \in Run
    <3>1. run \in Run /\ run.item + 1 \in DOMAIN Order
      BY <2>1, OrderType DEF TypeOK
    <3>2. run' = [run EXCEPT !.assessment = rows[run.report].assessment,
                             !.item = run.item + 1]
      BY <1>11 DEF AnalyzeAgain
    <3>3. rows[run.report].assessment \in Assessments \cup {Nil}
      BY <2>2 DEF Row
    <3> QED BY <3>1, <3>2, <3>3 DEF Run
  <2> QED
    BY <1>11, <2>3 DEF AnalyzeAgain, TypeOK
<1>12. ASSUME NEW t \in Trees, Edit(t) PROVE TypeOK'
  BY <1>12 DEF Edit, TypeOK
<1>13. ASSUME NEW r \in Reports, Review(r) PROVE TypeOK'
  <2>1. rows[r] \in Row
    BY <1>13 DEF Review, TypeOK
  <2>2. rows' \in [Reports -> Row \cup {Nil}]
    BY <1>13, <2>1 DEF Review, TypeOK, Row
  <2> QED
    BY <1>13, <2>2 DEF Review, TypeOK
<1>14. CASE UNCHANGED vars
  BY <1>14 DEF vars, TypeOK
<1> QED
  BY <1>1, <1>2, <1>3, <1>4, <1>5, <1>6, <1>7, <1>8, <1>9, <1>10, <1>11, <1>12,
     <1>13, <1>14 DEF Next

-----------------------------------------------------------------------------
(* No step takes an assessment away from a case or changes it. *)
LEMMA RowsKept ==
  ASSUME TypeOK, [Next]_vars, NEW r \in Reports, ~ Fresh(rows[r])
  PROVE  /\ ~ Fresh(rows'[r])
         /\ rows'[r].assessment = rows[r].assessment
<1>1. ASSUME NEW a \in Assessments, Analyze(a) PROVE rows'[r] = rows[r]
  <2>1. r # run.report
    BY <1>1 DEF Analyze
  <2> QED
    BY <1>1, <2>1 DEF Analyze, TypeOK
<1>2. CASE AnalyzeFails
  <2>1. r # run.report
    BY <1>2 DEF AnalyzeFails
  <2> QED
    BY <1>2, <2>1 DEF AnalyzeFails, TypeOK
<1>3. ASSUME NEW q \in Reports, Review(q)
      PROVE  ~ Fresh(rows'[r]) /\ rows'[r].assessment = rows[r].assessment
  <2>1. CASE q # r
    BY <1>3, <2>1 DEF Review, TypeOK
  <2>2. CASE q = r
    <3>1. rows[r] \in Row
      BY DEF Fresh, TypeOK
    <3>2. PICK st \in {"approved", "published"} : rows'[r] = [rows[r] EXCEPT !.state = st]
      BY <1>3, <2>2 DEF Review, TypeOK
    <3>3. rows'[r] \in Row /\ rows'[r].state = st /\ rows'[r].assessment = rows[r].assessment
      BY <3>1, <3>2 DEF Row
    <3>4. rows'[r] # Nil
      BY <3>3, NoRowAssumption
    <3>5. rows'[r] # Failed
      BY <3>3 DEF Failed
    <3> QED BY <3>3, <3>4, <3>5 DEF Fresh
  <2> QED BY <2>1, <2>2
<1>4. CASE UNCHANGED rows
  BY <1>4
<1>5. \/ \E a \in Assessments : Analyze(a)
      \/ AnalyzeFails
      \/ \E q \in Reports : Review(q)
      \/ UNCHANGED rows
  BY DEF Next, vars, Start, Scan, ScanSilently, ScanMissing, ScanFails, Import,
         ImportFails, Write, Tear, SkipReceipts, AnalyzeAgain, Stop, Edit
<1> QED
  BY <1>1, <1>2, <1>3, <1>4, <1>5

(* The analysis leaves a row that is backed: the provider's answer is what  *)
(* is saved, and what was saved is what the run goes on with.               *)
LEMMA AnalysisIsBacked ==
  ASSUME TypeOK, (\E a \in Assessments : Analyze(a)) \/ AnalyzeAgain
  PROVE  /\ run'.report = run.report
         /\ ~ Fresh(rows'[run.report])
         /\ rows'[run.report].assessment = run'.assessment
<1> USE DEF TypeOK
<1>1. run \in Run /\ run.report \in Reports
  BY DEF Run
<1>2. ASSUME NEW a \in Assessments, Analyze(a)
      PROVE  /\ run'.report = run.report
             /\ ~ Fresh(rows'[run.report])
             /\ rows'[run.report].assessment = run'.assessment
  <2>1. rows'[run.report] = [state |-> "pending_approval", assessment |-> a]
    BY <1>1, <1>2 DEF Analyze
  <2>2. rows'[run.report] \in Row
    BY <2>1 DEF Row
  <2>3. rows'[run.report] # Nil
    BY <2>2, NoRowAssumption
  <2>4. rows'[run.report] # Failed
    BY <2>1 DEF Failed
  <2>5. run' = [run EXCEPT !.assessment = a, !.item = run.item + 1]
    BY <1>2 DEF Analyze
  <2>6. run'.report = run.report /\ run'.assessment = a
    BY <1>1, <2>5 DEF Run
  <2> QED
    BY <2>1, <2>3, <2>4, <2>6 DEF Fresh
<1>3. CASE AnalyzeAgain
  <2>1. rows' = rows /\ ~ Fresh(rows[run.report])
    BY <1>3 DEF AnalyzeAgain
  <2>2. run' = [run EXCEPT !.assessment = rows[run.report].assessment,
                           !.item = run.item + 1]
    BY <1>3 DEF AnalyzeAgain
  <2>3. run'.report = run.report /\ run'.assessment = rows[run.report].assessment
    BY <1>1, <2>2 DEF Run
  <2> QED
    BY <2>1, <2>3
<1> QED
  BY <1>2, <1>3

(* Advancing moves to the next item of the run, or ends it. *)
LEMMA AdvanceIsNext ==
  ASSUME TypeOK, Advance, run' # Idle
  PROVE  /\ run'.phase = run.phase
         /\ run'.report = run.report
         /\ run'.assessment = run.assessment
         /\ run'.checks = run.checks
         /\ run'.item = run.item + 1
<1>1. run \in Run
  BY DEF TypeOK
<1>2. run' = [run EXCEPT !.item = run.item + 1]
  BY DEF Advance
<1> QED
  BY <1>1, <1>2 DEF Run

LEMMA ScansFirstStep ==
  ASSUME TypeOK, ScansFirst, [Next]_vars PROVE ScansFirst'
<1> SUFFICES ASSUME run'.phase = "scanning" PROVE run'.item = 1
  BY DEF ScansFirst
<1> USE DEF ScansFirst
<1>1. run \in Run
  BY DEF TypeOK
<1>2. CASE run' = run
  BY <1>2
<1>3. CASE run' = Idle
  BY <1>3 DEF Idle
<1>4. ASSUME NEW checks \in SUBSET Checks, Start(checks) PROVE run'.item = 1
  BY <1>4 DEF Start, Idle
<1>5. ASSUME NEW s \in External, Ran(s), run.phase = "scanning" PROVE run'.item = 1
  BY <1>1, <1>5 DEF Ran, Run
<1>6. CASE Import
  BY <1>1, <1>6 DEF Import, Run
<1>7. ASSUME Advance, run.phase = "writing" PROVE run'.item = 1
  BY <1>3, <1>7, AdvanceIsNext
<1>8. ASSUME NEW a, run' = [run EXCEPT !.assessment = a, !.item = @ + 1],
             run.phase = "writing"
      PROVE  run'.item = 1
  BY <1>1, <1>8 DEF Run
<1>9. CASE \E a \in Assessments : Analyze(a)
  BY <1>8, <1>9 DEF Analyze, At
<1>10. CASE AnalyzeAgain
  BY <1>8, <1>10 DEF AnalyzeAgain, At
<1>11. ASSUME NEW item \in Artifacts, Write(item) \/ Tear(item) PROVE run'.item = 1
  BY <1>3, <1>7, <1>11 DEF Write, Tear, End, At
<1>12. CASE SkipReceipts
  BY <1>7, <1>12 DEF SkipReceipts, At
<1>13. ASSUME NEW s \in External, Scan(s) \/ ScanSilently(s) PROVE run'.item = 1
  BY <1>5, <1>13 DEF Scan, ScanSilently, Running
<1> QED
  BY <1>2, <1>3, <1>4, <1>6, <1>9, <1>10, <1>11, <1>12, <1>13
  DEF Next, vars, ScanMissing, ScanFails, ImportFails, AnalyzeFails, Stop, End, Edit, Review

(* A step past the analysis: the run was past it before, or this is it. *)
LEMMA RunBackedStep ==
  ASSUME TypeOK, ScansFirst, RunIsBacked, [Next]_vars PROVE RunIsBacked'
<1> DEFINE Backed == ~ Fresh(rows'[run'.report])
                     /\ rows'[run'.report].assessment = run'.assessment
<1> SUFFICES ASSUME run'.phase = "writing", run'.item > 4 PROVE Backed
  BY DEF RunIsBacked
<1>1. run \in Run /\ run.item \in 1 .. 8 /\ run.report \in Reports
  BY OrderType DEF TypeOK, Run
<1>2. run' # Idle
  BY DEF Idle
<1>3. CASE run' = run
  BY <1>1, <1>3, RowsKept DEF RunIsBacked
<1>4. CASE (\E a \in Assessments : Analyze(a)) \/ AnalyzeAgain
  BY <1>4, AnalysisIsBacked
<1>5. ASSUME Advance, run.phase = "writing", run.item # 4 PROVE Backed
  <2>1. /\ run'.report = run.report
        /\ run'.assessment = run.assessment
        /\ run.item > 4
    BY <1>1, <1>2, <1>5, AdvanceIsNext
  <2> QED
    BY <1>1, <1>5, <2>1, RowsKept DEF RunIsBacked
<1>6. ASSUME NEW item \in Artifacts, Write(item) PROVE Backed
  <2>1. run.phase = "writing" /\ run.item # 4
    BY <1>6 DEF Write, At, Artifacts, Order
  <2> QED
    BY <1>5, <1>6, <2>1 DEF Write
<1>7. CASE SkipReceipts
  <2>1. run.phase = "writing" /\ run.item # 4
    BY <1>7 DEF SkipReceipts, At, Order
  <2> QED
    BY <1>5, <1>7, <2>1 DEF SkipReceipts
<1>8. CASE Import
  <2>1. run'.item = run.item
    BY <1>1, <1>8 DEF Import, Run
  <2> QED
    BY <1>8, <2>1 DEF Import, ScansFirst
<1>9. ASSUME NEW checks \in SUBSET Checks, Start(checks) PROVE FALSE
  BY <1>9 DEF Start, Idle
<1>10. ASSUME NEW s \in External, Scan(s) \/ ScanSilently(s) PROVE FALSE
  BY <1>1, <1>10 DEF Scan, ScanSilently, Running, Ran, Run
<1> QED
  BY <1>2, <1>3, <1>4, <1>6, <1>7, <1>8, <1>9, <1>10
  DEF Next, vars, ScanMissing, ScanFails, ImportFails, Tear, AnalyzeFails, Stop, End, Edit, Review

(* The pack is written past the analysis, when the run is backed; a row     *)
(* that backs it keeps its assessment.                                      *)
LEMMA PackStep ==
  ASSUME TypeOK, RunIsBacked, PackIsAPack, PackIsBacked, [Next]_vars
  PROVE  PackIsAPack' /\ PackIsBacked'
<1> DEFINE pack == artifacts["evidence-pack"]
           Backed(p) == /\ p \in [report : Reports, assessment : Assessments \cup {Nil}]
                        /\ ~ Fresh(rows'[p.report])
                        /\ rows'[p.report].assessment = p.assessment
<1> SUFFICES ASSUME Whole("evidence-pack")' PROVE Backed(pack')
  BY DEF PackIsAPack, PackIsBacked
<1>1. CASE pack' = pack
  <2>1. Whole("evidence-pack")
    BY <1>1 DEF Whole
  <2>2. pack \in [report : Reports, assessment : Assessments \cup {Nil}]
    BY <2>1 DEF PackIsAPack
  <2>3. pack.report \in Reports
    BY <2>2
  <2> QED
    BY <1>1, <2>1, <2>2, <2>3, RowsKept DEF PackIsBacked
<1>2. ASSUME Write("evidence-pack") PROVE Backed(pack')
  <2>1. pack' = [report |-> run.report, assessment |-> run.assessment]
    BY <1>2, OrderType DEF Write, Contents, TypeOK
  <2>2. run.phase = "writing" /\ run.item = 6
    BY <1>2, OrderType DEF Write, At, TypeOK, Run
  <2>3. run.report \in Reports /\ run.assessment \in Assessments \cup {Nil}
    BY DEF TypeOK, Run
  <2>4. rows' = rows
    BY <1>2 DEF Write
  <2> QED
    BY <2>1, <2>2, <2>3, <2>4 DEF RunIsBacked
<1>3. ASSUME NEW item \in Artifacts, item # "evidence-pack", Write(item) \/ Tear(item)
      PROVE  pack' = pack
  BY <1>3, OrderType DEF Write, Tear, TypeOK
<1>4. ASSUME Tear("evidence-pack") PROVE FALSE
  BY <1>4, OrderType DEF Tear, Whole, TypeOK
<1>5. \/ artifacts' = artifacts
      \/ \E item \in Artifacts : Write(item) \/ Tear(item)
  BY DEF Next, vars, Start, Scan, ScanSilently, ScanMissing, ScanFails, Import,
         ImportFails, SkipReceipts, Analyze, AnalyzeFails, AnalyzeAgain, Stop, Edit, Review
<1> QED
  BY <1>1, <1>2, <1>3, <1>4, <1>5

-----------------------------------------------------------------------------
(* What the files say of a run. *)

LEMMA OrderItems ==
  /\ Order[1] = "raw-scan" /\ Order[2] = "scanner-executions"
  /\ Order[3] = "evidence-case" /\ Order[4] = "analysis" /\ Order[5] = "assessment"
  /\ Order[6] = "evidence-pack" /\ Order[7] = "metrics"
  /\ Order[8] = "management-summary"
BY DEF Order

(* A run has no assessment before its analysis. *)
LEMMA AssessedLateStep ==
  ASSUME TypeOK, ScansFirst, AssessedLate, [Next]_vars PROVE AssessedLate'
<1> SUFFICES ASSUME run'.phase \in {"scanning", "writing"}, run'.item <= 4
             PROVE  run'.assessment = Nil
  BY DEF AssessedLate
<1>1. run \in Run /\ run.item \in 1 .. 8
  BY OrderType DEF TypeOK, Run
<1>2. run' # Idle
  BY DEF Idle
<1>3. CASE run' = run
  BY <1>3 DEF AssessedLate
<1>4. ASSUME NEW checks \in SUBSET Checks, Start(checks) PROVE run'.assessment = Nil
  BY <1>4 DEF Start, Idle
<1>5. ASSUME NEW s \in External, Scan(s) \/ ScanSilently(s) PROVE run'.assessment = Nil
  <2>1. run'.assessment = run.assessment /\ run'.item = run.item
    BY <1>1, <1>5 DEF Scan, ScanSilently, Ran, Run
  <2> QED
    BY <1>5, <2>1 DEF Scan, ScanSilently, Running, AssessedLate
<1>6. CASE Import
  <2>1. run'.assessment = run.assessment /\ run'.item = run.item
    BY <1>1, <1>6 DEF Import, Run
  <2> QED
    BY <1>6, <2>1 DEF Import, AssessedLate
<1>7. ASSUME Advance, run.phase = "writing" PROVE run'.assessment = Nil
  BY <1>1, <1>2, <1>7, AdvanceIsNext DEF AssessedLate
<1>8. ASSUME NEW item \in Artifacts, Write(item) PROVE run'.assessment = Nil
  BY <1>7, <1>8 DEF Write, At
<1>9. CASE SkipReceipts
  BY <1>7, <1>9 DEF SkipReceipts, At
<1>10. ASSUME NEW a, run' = [run EXCEPT !.assessment = a, !.item = @ + 1], At("analysis")
       PROVE  FALSE
  <2>1. run.item = 4
    BY <1>1, <1>10, OrderItems, OrderType DEF At
  <2>2. run'.item = run.item + 1
    BY <1>1, <1>10 DEF Run
  <2> QED
    BY <2>1, <2>2
<1>11. ASSUME NEW a \in Assessments, Analyze(a) PROVE FALSE
  BY <1>10, <1>11 DEF Analyze
<1>12. CASE AnalyzeAgain
  BY <1>10, <1>12 DEF AnalyzeAgain
<1> QED
  BY <1>2, <1>3, <1>4, <1>5, <1>6, <1>8, <1>9, <1>11, <1>12
  DEF Next, vars, ScanMissing, ScanFails, ImportFails, Tear, AnalyzeFails, Stop, End, Edit, Review

(* The next file, written or passed over, adds what it says of the run. *)
LEMMA WroteNext ==
  ASSUME TypeOK, RunWrote, AssessedLate,
         (\E item \in Artifacts : Write(item)) \/ SkipReceipts
  PROVE  run.phase = "writing" /\ Wrote(artifacts', run, run.item + 1)
<1> DEFINE Says(i) == artifacts'[Order[i]] = Contents(Order[i])
<1>1. /\ run.phase = "writing"
      /\ run.item \in 1 .. 8
      /\ artifacts \in [Artifacts -> File \cup {Nil, Torn}]
  BY OrderType DEF TypeOK, Run, Write, SkipReceipts, At
<1>2. Wrote(artifacts, run, run.item)
  BY <1>1 DEF RunWrote
<1>3. \A i \in {1, 2, 3, 5, 6, 7, 8} : Order[i] \in Artifacts
  BY OrderItems DEF Artifacts, Order
<1>4. CASE SkipReceipts
  <2>1. run.item = 2 /\ Executed(run) = {} /\ artifacts' = artifacts
    BY <1>1, <1>4, OrderItems DEF SkipReceipts, At, Skipped
  <2> QED
    BY <1>1, <1>2, <2>1 DEF Wrote
<1>5. ASSUME NEW item \in Artifacts, Write(item)
      PROVE  Wrote(artifacts', run, run.item + 1)
  <2>1. item = Order[run.item] /\ run.item # 4
    BY <1>1, <1>5, OrderItems DEF Write, At, Artifacts, Order
  <2>2. \A i \in {1, 2, 3, 5, 6, 7, 8} :
           i # run.item => artifacts'[Order[i]] = artifacts[Order[i]]
    <3> SUFFICES ASSUME NEW i \in {1, 2, 3, 5, 6, 7, 8}, i # run.item
                 PROVE  artifacts'[Order[i]] = artifacts[Order[i]]
      OBVIOUS
    <3>1. Order[i] # item
      BY <1>1, <2>1, OrderItems
    <3> QED BY <1>1, <1>3, <1>5, <3>1 DEF Write
  <2>3. Says(run.item)
    BY <1>1, <1>5, <2>1 DEF Write
  <2>4. CASE run.item \in {1, 2, 3}
    <3>1. run.assessment = Nil
      BY <1>1, <2>4 DEF AssessedLate
    <3> QED
      BY <1>2, <2>2, <2>3, <2>4, <3>1, OrderItems DEF Wrote, Contents
  <2>5. CASE run.item \in {5, 6}
    BY <1>2, <2>2, <2>3, <2>5, OrderItems DEF Wrote, Contents
  <2>6. CASE run.item \in {7, 8}
    BY <1>2, <2>2, <2>3, <2>6, OrderItems DEF Wrote, Contents
  <2> QED
    BY <1>1, <2>1, <2>4, <2>5, <2>6
<1> QED
  BY <1>1, <1>4, <1>5

(* Only the analysis changes the assessment of a run, and no file that      *)
(* carries one is written before it.                                        *)
LEMMA WroteKept ==
  ASSUME NEW r, NEW s, NEW n \in 1 .. 4, r.report = s.report, r.checks = s.checks,
         Wrote(artifacts, r, n)
  PROVE  Wrote(artifacts, s, n)
BY DEF Wrote, Executed

LEMMA RunWroteStep ==
  ASSUME TypeOK, ScansFirst, RunWrote, AssessedLate, [Next]_vars PROVE RunWrote'
<1> SUFFICES ASSUME run'.phase = "writing" PROVE Wrote(artifacts', run', run'.item)
  BY DEF RunWrote
<1>1. run \in Run /\ run.item \in 1 .. 8
  BY OrderType DEF TypeOK, Run
<1>2. run' # Idle
  BY DEF Idle
<1>3. CASE run' = run /\ artifacts' = artifacts
  BY <1>3 DEF RunWrote
<1>4. CASE (\E item \in Artifacts : Write(item)) \/ SkipReceipts
  <2>1. Wrote(artifacts', run, run.item + 1)
    BY <1>4, WroteNext
  <2>2. /\ run'.report = run.report
        /\ run'.assessment = run.assessment
        /\ run'.checks = run.checks
        /\ run'.item = run.item + 1
    BY <1>2, <1>4, AdvanceIsNext DEF Write, SkipReceipts
  <2> QED
    BY <2>1, <2>2 DEF Wrote, Executed, Metrics
<1>5. ASSUME NEW a, At("analysis"), artifacts' = artifacts,
             run' = [run EXCEPT !.assessment = a, !.item = run.item + 1]
      PROVE  Wrote(artifacts', run', run'.item)
  <2>1. run.phase = "writing" /\ run.item = 4
    BY <1>1, <1>5, OrderItems DEF At
  <2>2. run'.report = run.report /\ run'.checks = run.checks /\ run'.item = 5
    BY <1>1, <1>5, <2>1 DEF Run
  <2>3. Wrote(artifacts, run', 4)
    BY <2>1, <2>2, WroteKept DEF RunWrote
  <2> QED
    BY <1>5, <2>2, <2>3 DEF Wrote
<1>6. ASSUME NEW a \in Assessments, Analyze(a)
      PROVE  Wrote(artifacts', run', run'.item)
  BY <1>5, <1>6 DEF Analyze
<1>7. CASE AnalyzeAgain
  BY <1>5, <1>7 DEF AnalyzeAgain
<1>8. CASE Import
  <2>1. run'.item = 1
    BY <1>1, <1>8 DEF Import, ScansFirst, Run
  <2> QED
    BY <2>1 DEF Wrote
<1>9. ASSUME NEW checks \in SUBSET Checks, Start(checks) PROVE FALSE
  BY <1>9 DEF Start, Idle
<1>10. ASSUME NEW s \in External, Scan(s) \/ ScanSilently(s) PROVE FALSE
  BY <1>1, <1>10 DEF Scan, ScanSilently, Running, Ran, Run
<1> QED
  BY <1>2, <1>3, <1>4, <1>6, <1>7, <1>8, <1>9, <1>10
  DEF Next, vars, ScanMissing, ScanFails, ImportFails, Tear, AnalyzeFails, Stop, End, Edit, Review

(* A run completes by its last file; from then on nothing is written until  *)
(* the next run starts, and the row of its case keeps its assessment.       *)
LEMMA CompletedStep ==
  ASSUME IInv, [Next]_vars PROVE CompletedIsLast' /\ CompletedRunAgrees'
<1> DEFINE Agrees(r, files, stored) ==
             /\ r.report \in Reports
             /\ ~ Fresh(stored[r.report])
             /\ stored[r.report].assessment = r.assessment
             /\ Wrote(files, r, Len(Order) + 1)
<1> SUFFICES ASSUME Completed' PROVE run' = Idle /\ Agrees(last', artifacts', rows')
  BY DEF CompletedIsLast, CompletedRunAgrees, Fresh
<1> USE DEF IInv
<1>1. run \in Run /\ run.item \in 1 .. 8 /\ run.report \in Reports
  BY OrderType DEF TypeOK, Run
<1>2. CASE Completed /\ last' = last
  <2>1. run = Idle /\ Agrees(last, artifacts, rows)
    BY <1>2 DEF CompletedIsLast, CompletedRunAgrees
  <2>2. run' = Idle /\ artifacts' = artifacts
    <3>1. run.phase = "idle"
      BY <2>1 DEF Idle
    <3>2. ASSUME NEW checks \in SUBSET Checks, Start(checks) PROVE FALSE
      BY <1>2, <3>2 DEF Start, Completed, Idle
    <3> QED
      BY <2>1, <3>1, <3>2
      DEF Next, vars, Scan, ScanSilently, ScanMissing, ScanFails, Running, Import,
          ImportFails, Write, Tear, SkipReceipts, Analyze, AnalyzeFails, AnalyzeAgain,
          At, Stop, Edit, Review
  <2>3. ~ Fresh(rows'[last.report]) /\ rows'[last.report].assessment = last.assessment
    BY <2>1, RowsKept
  <2> QED
    BY <1>2, <2>1, <2>2, <2>3
<1>3. CASE ~ (Completed /\ last' = last)
  <2>1. last' # last /\ last' # Idle
    BY <1>3 DEF Completed, Idle
  <2>2. (\E item \in Artifacts : Write(item)) \/ SkipReceipts
    BY <2>1 DEF Next, vars, Start, Scan, ScanSilently, ScanMissing, ScanFails, Import,
         ImportFails, Tear, Analyze, AnalyzeFails, AnalyzeAgain, Stop, Edit, Review
  <2>3. Advance /\ rows' = rows
    BY <2>2 DEF Write, SkipReceipts
  <2>4. run.item = 8 /\ run' = Idle /\ last' = [run EXCEPT !.phase = "completed"]
    BY <1>1, <2>1, <2>3, OrderType DEF Advance
  <2>5. run.phase = "writing" /\ Wrote(artifacts', run, 9)
    BY <2>2, <2>4, WroteNext
  <2>6. /\ last'.report = run.report
        /\ last'.assessment = run.assessment
        /\ last'.checks = run.checks
    BY <1>1, <2>4 DEF Run
  <2>7. Wrote(artifacts', last', 9)
    BY <2>5, <2>6 DEF Wrote, Executed, Metrics
  <2>8. ~ Fresh(rows[run.report]) /\ rows[run.report].assessment = run.assessment
    BY <2>4, <2>5 DEF RunIsBacked
  <2> QED
    BY <1>1, <2>3, <2>4, <2>6, <2>7, <2>8, OrderType
<1> QED
  BY <1>2, <1>3

-----------------------------------------------------------------------------
(* What a run merges. *)

LEMMA HonestStep ==
  ASSUME TypeOK, ScansAreHonest, [Next]_vars PROVE ScansAreHonest'
<1>1. run \in Run
  BY DEF TypeOK
<1>2. Executed(run) \subseteq Allowed
  BY <1>1 DEF Run, Executed
<1>3. CASE run'.phase \notin {"scanning", "writing"}
  BY <1>3 DEF ScansAreHonest
<1>4. CASE run' = run /\ sarif' = sarif
  BY <1>4 DEF ScansAreHonest, Executed
<1>5. ASSUME NEW checks \in SUBSET Checks, Start(checks) PROVE ScansAreHonest'
  <2>1. /\ run'.phase = "scanning"
        /\ run'.checks = checks
        /\ run'.todo = checks \cap External
        /\ run'.report = run'.saw
    BY <1>5 DEF Start, Idle
  <2> QED
    BY <2>1 DEF ScansAreHonest, Executed
<1>6. ASSUME NEW s \in External, Scan(s) \/ ScanSilently(s) PROVE ScansAreHonest'
  <2>1. /\ run.phase = "scanning" /\ s \in run.todo
        /\ run'.phase = run.phase
        /\ run'.checks = run.checks
        /\ run'.report = run.report
        /\ run'.todo = run.todo \ {s}
        /\ run'.saw = [run.saw EXCEPT ![s] = tree]
    BY <1>1, <1>6 DEF Scan, ScanSilently, Running, Ran, Run
  <2>2. Executed(run') = Executed(run) /\ s \in Executed(run)
    BY <2>1 DEF Executed, ScansAreHonest
  <2>3. ASSUME NEW c \in Allowed, c # s PROVE run'.saw[c] = run.saw[c]
    BY <1>1, <2>1, <2>3 DEF Run, Reports
  <2>4. ASSUME NEW c \in External, c # s PROVE sarif'[c] = sarif[c]
    BY <1>6, <2>4 DEF Scan, ScanSilently, TypeOK
  <2>5. s \notin Silent => sarif'[s] = run'.saw[s]
    <3>1. s \in Allowed
      BY <1>2, <2>2
    <3> QED BY <1>1, <1>6, <2>1, <3>1 DEF Scan, ScanSilently, TypeOK, Run, Reports
  <2>6. Executed(run) \subseteq External
    BY DEF Executed
  <2>7. ASSUME NEW c \in Allowed \ Silent
        PROVE  IF c \in Executed(run') THEN c \in run'.todo \/ sarif'[c] = run'.saw[c]
                                      ELSE run'.report[c] = run'.saw[c]
    <3>1. CASE c = s
      BY <2>2, <2>5, <3>1
    <3>2. CASE c # s
      BY <2>1, <2>2, <2>3, <2>4, <2>6, <3>2 DEF ScansAreHonest
    <3> QED BY <3>1, <3>2
  <2> QED
    BY <2>1, <2>2, <2>7 DEF ScansAreHonest
<1>7. CASE Import
  <2>1. /\ run.phase = "scanning" /\ run.todo = {}
        /\ run'.phase = "writing"
        /\ run'.saw = run.saw
        /\ run'.report = [c \in Allowed |-> IF c \in Executed(run) THEN sarif[c]
                                                                 ELSE run.report[c]]
    BY <1>1, <1>7 DEF Import, Run
  <2> QED
    BY <2>1 DEF ScansAreHonest
<1>8. ASSUME run.phase = "writing", run'.phase = "writing", run'.report = run.report,
             run'.saw = run.saw
      PROVE  ScansAreHonest'
  BY <1>8 DEF ScansAreHonest
<1>9. CASE (\E item \in Artifacts : Write(item)) \/ SkipReceipts
  <2>1. run.phase = "writing"
    BY <1>9 DEF Write, SkipReceipts, At
  <2>2. CASE run' = Idle
    BY <1>3, <2>2 DEF Idle
  <2>3. CASE run' # Idle
    <3>1. run' = [run EXCEPT !.item = run.item + 1]
      BY <1>9, <2>3 DEF Write, SkipReceipts, Advance
    <3> QED BY <1>1, <1>8, <2>1, <3>1 DEF Run
  <2> QED BY <2>2, <2>3
<1>10. CASE (\E a \in Assessments : Analyze(a)) \/ AnalyzeAgain
  <2>1. run.phase = "writing"
    BY <1>10 DEF Analyze, AnalyzeAgain, At
  <2>2. run'.phase = run.phase /\ run'.report = run.report /\ run'.saw = run.saw
    BY <1>1, <1>10 DEF Analyze, AnalyzeAgain, Run
  <2> QED BY <1>8, <2>1, <2>2
<1>11. CASE run' = Idle
  BY <1>3, <1>11 DEF Idle
<1> QED
  BY <1>4, <1>5, <1>6, <1>7, <1>9, <1>10, <1>11
  DEF Next, vars, ScanMissing, ScanFails, ImportFails, Tear, AnalyzeFails, Stop, End, Edit, Review

LEMMA Invariance == IInv /\ [Next]_vars => IInv'
BY TypeStep, ScansFirstStep, RunBackedStep, PackStep, RunWroteStep, AssessedLateStep,
   CompletedStep, HonestStep DEF IInv

LEMMA Inductive == Spec => []IInv
BY InitInvariant, Invariance, PTL DEF Spec

(* The types hold in every reachable state; in particular the checks of a   *)
(* run are within what the scope authorises for the repository              *)
(* (assurance.authorize, cli.py:193-222).                                   *)
THEOREM TypeCorrect == Spec => []TypeOK
<1>1. IInv => TypeOK
  BY DEF IInv
<1> QED
  BY <1>1, Inductive, PTL

(* Whatever runs were killed or raised at whatever step, and whatever       *)
(* reviewers did in between: an evidence pack that can be read carries the  *)
(* assessment the repository holds for its case.                            *)
THEOREM PackBacked == Spec => []PackIsBacked
<1>1. IInv => PackIsBacked
  BY DEF IInv
<1> QED
  BY <1>1, Inductive, PTL

(* After a run that completed, every artifact is of that run and carries    *)
(* the assessment of the stored case, whatever runs before it were cut short*)
(* and whatever reviewers do until the next one starts (cli.py:113-178).    *)
THEOREM CompletedAgrees == Spec => []CompletedRunAgrees
<1>1. IInv => CompletedRunAgrees
  BY DEF IInv
<1> QED
  BY <1>1, Inductive, PTL

(* What a run merges of a scanner that writes its report or fails is what   *)
(* that scanner saw in this run (scanners.py:264-282, cli.py:240-252).      *)
THEOREM HonestIsFresh == Spec => []HonestReportIsFresh
<1>1. IInv => HonestReportIsFresh
  BY DEF IInv, ScansAreHonest, HonestReportIsFresh
<1> QED
  BY <1>1, Inductive, PTL

(* No case is analysed before the report it was made of, and the case, are  *)
(* on disk as they are (cli.py:113-150).                                    *)
THEOREM AnalysedPreserved == Spec => AnalysedIsPreserved
<1> DEFINE Preserved == \A r \in Reports : rows[r] = Nil /\ rows'[r] # Nil =>
             /\ artifacts["raw-scan"] = [report |-> r, assessment |-> Nil]
             /\ artifacts["evidence-case"] = [report |-> r, assessment |-> Nil]
<1>1. IInv /\ [Next]_vars => [Preserved]_vars
  <2> SUFFICES ASSUME IInv, [Next]_vars, NEW r \in Reports, rows[r] = Nil, rows'[r] # Nil
               PROVE  /\ artifacts["raw-scan"] = [report |-> r, assessment |-> Nil]
                      /\ artifacts["evidence-case"] = [report |-> r, assessment |-> Nil]
    OBVIOUS
  <2> USE DEF IInv
  <2>1. run \in Run /\ run.item \in 1 .. 8
    BY OrderType DEF TypeOK, Run
  <2>2. ASSUME NEW q \in Reports, Review(q) PROVE FALSE
    <3>1. q # r
      BY <2>2 DEF Review
    <3> QED BY <2>2, <3>1 DEF Review, TypeOK
  <2>3. (\E a \in Assessments : Analyze(a)) \/ AnalyzeFails
    BY <2>2 DEF Next, vars, Start, Scan, ScanSilently, ScanMissing, ScanFails, Import,
         ImportFails, Write, Tear, SkipReceipts, AnalyzeAgain, Stop, Edit
  <2>4. At("analysis") /\ r = run.report
    BY <2>3 DEF Analyze, AnalyzeFails, TypeOK
  <2>5. run.phase = "writing" /\ run.item = 4
    BY <2>1, <2>4, OrderItems DEF At
  <2> QED
    BY <2>4, <2>5 DEF RunWrote, Wrote
<1> QED
  BY <1>1, Inductive, PTL DEF Spec, AnalysedIsPreserved
=============================================================================
