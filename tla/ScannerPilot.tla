---------------------------- MODULE ScannerPilot ----------------------------
(* The pilot command (cli.py:103-258, scanners.py): scan an authorised      *)
(* checkout with the requested checks, import the SARIF files the scanners  *)
(* left, write the artifacts of the run and analyse its case in between.    *)
(* Output directory and database outlive the run.  A run may be killed or   *)
(* raise at any step, the checkout may change under it, and reviewers work  *)
(* on the stored cases at any time.  What a scanner finds is determined by  *)
(* the contents of the checkout, so a SARIF file stands for those.          *)
EXTENDS Integers, Sequences, FiniteSets

CONSTANTS
  Policy,      \* the built-in check, repository-policy
  Scanners,    \* the external checks, in the order pilot runs them
  Allowed,     \* the checks the scope authorises for the repository
  Silent,      \* scanners that may end with an accepted code and no output
  Trees,       \* contents of the checkout
  Assessments,
  MaxRuns,     \* pilots started (bound)
  Torn,        \* a file whose writing was cut short
  Nil          \* no file, no row, no finding

External == {Scanners[i] : i \in DOMAIN Scanners}
Checks == {Policy} \cup External

ASSUME ChecksAssumption == /\ Policy \notin External
                           /\ Allowed \subseteq Checks
                           /\ Silent \subseteq External
                           /\ \A i, j \in DOMAIN Scanners :
                                Scanners[i] = Scanners[j] => i = j
ASSUME ValuesAssumption == /\ {Torn, Nil} \cap (Trees \cup Assessments) = {}
                           /\ Torn # Nil
                           /\ MaxRuns \in Nat

(* What a merged report says: the tree each check saw, for those that may run.*)
Reports == [Allowed -> Trees \cup {Nil}]

(* Mutant: the case is analysed before anything is on disk. *)
OrderEarly == <<"analysis", "raw-scan", "scanner-executions", "evidence-case",
                "assessment", "evidence-pack", "metrics", "management-summary">>

Order == <<"raw-scan", "scanner-executions", "evidence-case", "analysis",
           "assessment", "evidence-pack", "metrics", "management-summary">>

Artifacts == {Order[i] : i \in DOMAIN Order} \ {"analysis"}

Row == [state : {"failed", "pending_approval", "approved", "published"},
        assessment : Assessments \cup {Nil}]

ASSUME NoRowAssumption == Nil \notin Row

VARIABLES
  tree,       \* the checkout
  sarif,      \* scanner -> its file in scanner-raw
  artifacts,  \* artifact -> its file in the directory of the repository
  rows,       \* report -> the row of its case, whose id is its fingerprint
  run,        \* the pilot that is running, or Idle
  last,       \* history: the run that completed last, if none began since
  runs        \* pilots started

vars == <<tree, sarif, artifacts, rows, run, last, runs>>

Nothing == [c \in Allowed |-> Nil]

Idle == [phase |-> "idle", checks |-> {}, todo |-> {}, report |-> Nothing,
         saw |-> Nothing, item |-> 1, assessment |-> Nil]

Init == /\ tree \in Trees
        /\ sarif = [s \in External |-> Nil]
        /\ artifacts = [a \in Artifacts |-> Nil]
        /\ rows = [r \in Reports |-> Nil]
        /\ run = Idle
        /\ last = Idle
        /\ runs = 0

End == run' = Idle

-----------------------------------------------------------------------------
(* Scanning *)

(* Mutant: the scope is asked about one of the checks only. *)
StartUnscoped(checks) ==
  /\ run = Idle
  /\ runs < MaxRuns
  /\ checks \cap Allowed # {}
  /\ LET seen == [Nothing EXCEPT ![Policy] = IF Policy \in checks THEN tree ELSE Nil]
     IN  run' = [Idle EXCEPT !.phase = "scanning",
                             !.checks = checks,
                             !.todo = checks \cap External,
                             !.report = seen,
                             !.saw = seen]
  /\ last' = Idle
  /\ runs' = runs + 1
  /\ UNCHANGED <<tree, sarif, artifacts, rows>>

(* pilot authorises every check before it runs the first; the policy scan   *)
(* comes before the external scanners.  A request outside the scope raises  *)
(* before it touches anything.                                              *)
Start(checks) ==
  /\ run = Idle
  /\ runs < MaxRuns
  /\ checks # {}
  /\ checks \subseteq Allowed
  /\ LET seen == [Nothing EXCEPT ![Policy] = IF Policy \in checks THEN tree ELSE Nil]
     IN  run' = [Idle EXCEPT !.phase = "scanning",
                             !.checks = checks,
                             !.todo = checks \cap External,
                             !.report = seen,
                             !.saw = seen]
  /\ last' = Idle
  /\ runs' = runs + 1
  /\ UNCHANGED <<tree, sarif, artifacts, rows>>

(* The next scanner is the first in the order of pilot. *)
Running(s) ==
  /\ run.phase = "scanning"
  /\ s \in run.todo
  /\ \E i \in DOMAIN Scanners : /\ Scanners[i] = s
                               /\ \A j \in 1 .. i - 1 : Scanners[j] \notin run.todo

Ran(s) == run' = [run EXCEPT !.todo = @ \ {s}, !.saw[s] = tree]

(* The scanner wrote its report and ended with an accepted code. *)
Scan(s) ==
  /\ Running(s)
  /\ sarif' = [sarif EXCEPT ![s] = tree]
  /\ Ran(s)
  /\ UNCHANGED <<tree, artifacts, rows, last, runs>>

(* It ended with an accepted code, as gitleaks does with 1 on an error of   *)
(* its own, and wrote nothing; the file is there from an earlier run.       *)
ScanSilently(s) ==
  /\ Running(s)
  /\ s \in Silent
  /\ sarif[s] # Nil
  /\ Ran(s)
  /\ UNCHANGED <<tree, sarif, artifacts, rows, last, runs>>

(* No file is there: "did not produce a SARIF report". *)
ScanMissing(s) ==
  /\ Running(s)
  /\ s \in Silent
  /\ sarif[s] = Nil
  /\ End
  /\ UNCHANGED <<tree, sarif, artifacts, rows, last, runs>>

(* Mutant: the time limit and the exit code are not looked at. *)
ScanFailsUnnoticed(s) ==
  /\ Running(s)
  /\ \E left \in {sarif[s], tree} \ {Nil} : sarif' = [sarif EXCEPT ![s] = left]
  /\ Ran(s)
  /\ UNCHANGED <<tree, artifacts, rows, last, runs>>

(* The time limit, another exit code, or the pilot killed under it (the     *)
(* sandbox dies with its parent): whatever the scanner had written stays.   *)
ScanFails(s) ==
  /\ Running(s)
  /\ \E left \in {sarif[s], tree, Torn} : sarif' = [sarif EXCEPT ![s] = left]
  /\ End
  /\ UNCHANGED <<tree, artifacts, rows, last, runs>>

(* The scanners whose executions a run imports and lists. *)
Executed(r) == r.checks \cap External

(* import_sarif of every execution, then merge_reports. *)
Import ==
  /\ run.phase = "scanning"
  /\ run.todo = {}
  /\ \A s \in Executed(run) : sarif[s] # Torn
  /\ run' = [run EXCEPT !.phase = "writing",
                        !.report = [c \in Allowed |->
                          IF c \in Executed(run) THEN sarif[c] ELSE @[c]]]
  /\ UNCHANGED <<tree, sarif, artifacts, rows, last, runs>>

(* A torn file is no JSON. *)
ImportFails ==
  /\ run.phase = "scanning"
  /\ run.todo = {}
  /\ \E s \in Executed(run) : sarif[s] = Torn
  /\ End
  /\ UNCHANGED <<tree, sarif, artifacts, rows, last, runs>>

-----------------------------------------------------------------------------
(* _process_assurance_report *)

At(item) == run.phase = "writing" /\ Order[run.item] = item

(* build_pilot_metrics, from which the management summary is made. *)
Metrics(r) == [report |-> r.report, assessment |-> r.assessment, executed |-> Executed(r)]

(* What the file says: the report, the assessment, or the pack of the two.  *)
Contents(item) ==
  CASE item = "scanner-executions" -> [executed |-> Executed(run)]
    [] item = "assessment" -> [assessment |-> run.assessment]
    [] item \in {"metrics", "management-summary"} -> Metrics(run)
    [] OTHER -> [report |-> run.report, assessment |-> run.assessment]

(* After the last file the command returns. *)
Advance ==
  IF run.item < Len(Order)
    THEN run' = [run EXCEPT !.item = @ + 1] /\ UNCHANGED last
    ELSE run' = Idle /\ last' = [run EXCEPT !.phase = "completed"]

Skipped(item) == item = "scanner-executions" /\ Executed(run) = {}

(* Mutant: a summary that is there is not written again. *)
WriteOnce(item) ==
  /\ At(item)
  /\ ~ Skipped(item)
  /\ artifacts' = [artifacts EXCEPT ![item] =
                     IF item \in {"metrics", "management-summary"} /\ @ # Nil
                       THEN @ ELSE Contents(item)]
  /\ Advance
  /\ UNCHANGED <<tree, sarif, rows, runs>>

Write(item) ==
  /\ At(item)
  /\ ~ Skipped(item)
  /\ artifacts' = [artifacts EXCEPT ![item] = Contents(item)]
  /\ Advance
  /\ UNCHANGED <<tree, sarif, rows, runs>>

(* Receipts are written only if there are any. *)
SkipReceipts ==
  /\ At("scanner-executions")
  /\ Skipped("scanner-executions")
  /\ Advance
  /\ UNCHANGED <<tree, sarif, artifacts, rows, runs>>

(* write_text truncates the file and then writes it. *)
Tear(item) ==
  /\ At(item)
  /\ ~ Skipped(item)
  /\ artifacts' = [artifacts EXCEPT ![item] = Torn]
  /\ End
  /\ UNCHANGED <<tree, sarif, rows, last, runs>>

Failed == [state |-> "failed", assessment |-> Nil]

(* Whether analyze calls the provider for this row. *)
Fresh(row) == row \in {Nil, Failed}

(* workflow.analyze of a new or failed case... *)
Analyze(a) ==
  /\ At("analysis")
  /\ Fresh(rows[run.report])
  /\ rows' = [rows EXCEPT ![run.report] = [state |-> "pending_approval",
                                           assessment |-> a]]
  /\ run' = [run EXCEPT !.assessment = a, !.item = @ + 1]
  /\ UNCHANGED <<tree, sarif, artifacts, last, runs>>

AnalyzeFails ==
  /\ At("analysis")
  /\ Fresh(rows[run.report])
  /\ rows' = [rows EXCEPT ![run.report] = Failed]
  /\ End
  /\ UNCHANGED <<tree, sarif, artifacts, last, runs>>

(* Mutant: the assessment is made anew for the files. *)
AnalyzeAgainAfresh ==
  /\ At("analysis")
  /\ ~ Fresh(rows[run.report])
  /\ \E a \in Assessments : run' = [run EXCEPT !.assessment = a, !.item = @ + 1]
  /\ UNCHANGED <<tree, sarif, artifacts, rows, last, runs>>

(* ... and of one that has been assessed, in whatever state it is. *)
AnalyzeAgain ==
  /\ At("analysis")
  /\ ~ Fresh(rows[run.report])
  /\ run' = [run EXCEPT !.assessment = rows[run.report].assessment, !.item = @ + 1]
  /\ UNCHANGED <<tree, sarif, artifacts, rows, last, runs>>

(* The run raises (no sandbox, no executable, a provider that the scope     *)
(* does not permit, a full disk) or is killed between two of its steps.     *)
Stop ==
  /\ run # Idle
  /\ End
  /\ UNCHANGED <<tree, sarif, artifacts, rows, last, runs>>

-----------------------------------------------------------------------------
(* The checkout changes, whether a pilot is running or not. *)
Edit(t) == /\ t # tree
           /\ tree' = t
           /\ UNCHANGED <<sarif, artifacts, rows, run, last, runs>>

(* A reviewer approves a case, or it is published (EvidenceWorkflow). *)
Review(r) ==
  /\ rows[r] # Nil
  /\ \/ /\ rows[r].state = "pending_approval"
        /\ rows' = [rows EXCEPT ![r].state = "approved"]
     \/ /\ rows[r].state = "approved"
        /\ rows' = [rows EXCEPT ![r].state = "published"]
  /\ UNCHANGED <<tree, sarif, artifacts, run, last, runs>>

Next == \/ \E checks \in SUBSET Checks : Start(checks)
        \/ \E s \in External : \/ Scan(s)
                               \/ ScanSilently(s)
                               \/ ScanMissing(s)
                               \/ ScanFails(s)
        \/ Import
        \/ ImportFails
        \/ \E item \in Artifacts : Write(item) \/ Tear(item)
        \/ SkipReceipts
        \/ \E a \in Assessments : Analyze(a)
        \/ AnalyzeFails
        \/ AnalyzeAgain
        \/ Stop
        \/ \E t \in Trees : Edit(t)
        \/ \E r \in Reports : Review(r)

Spec == Init /\ [][Next]_vars

-----------------------------------------------------------------------------
File == [report : Reports, assessment : Assessments \cup {Nil}]
        \cup [executed : SUBSET External]
        \cup [assessment : Assessments \cup {Nil}]
        \cup [report : Reports, assessment : Assessments \cup {Nil},
              executed : SUBSET External]

Run == [phase : {"idle", "scanning", "writing"}, checks : SUBSET Allowed,
        todo : SUBSET External, report : Reports, saw : Reports,
        item : DOMAIN Order, assessment : Assessments \cup {Nil}]

(* Every variable stays in its type: no check outside the scope is run.     *)
TypeOK == /\ tree \in Trees
          /\ sarif \in [External -> Trees \cup {Nil, Torn}]
          /\ artifacts \in [Artifacts -> File \cup {Nil, Torn}]
          /\ rows \in [Reports -> Row \cup {Nil}]
          /\ run \in Run
          /\ runs \in 0 .. MaxRuns

Completed == last.phase = "completed"

(* What the artifacts before the n-th say of run r in these files. *)
Wrote(files, r, n) ==
  /\ n > 1 => files["raw-scan"] = [report |-> r.report, assessment |-> Nil]
  /\ n > 2 /\ Executed(r) # {} =>
       files["scanner-executions"] = [executed |-> Executed(r)]
  /\ n > 3 => files["evidence-case"] = [report |-> r.report, assessment |-> Nil]
  /\ n > 5 => files["assessment"] = [assessment |-> r.assessment]
  /\ n > 6 => files["evidence-pack"] = [report |-> r.report, assessment |-> r.assessment]
  /\ \A i \in {7, 8} : n > i => files[Order[i]] = Metrics(r)

(* After a run that completed, every artifact is of that run's report, the  *)
(* later ones carry the assessment of the stored case, the metrics list the *)
(* scanners that ran, and nothing torn or stale from the runs before is left*)
(* among them; but for the receipts, which a run without external scanners  *)
(* leaves alone (cli.py:118).                                               *)
CompletedRunAgrees ==
  Completed =>
    /\ rows[last.report] # Nil /\ rows[last.report].assessment = last.assessment
    /\ Wrote(artifacts, last, Len(Order) + 1)

Whole(item) == artifacts[item] \notin {Nil, Torn}

(* Whenever runs were cut short, an evidence pack that can be read shows    *)
(* the assessment the repository holds for its case: what a reviewer reads  *)
(* is what he approves (the pack is written after the save, cli.py:150-163).*)
PackIsBacked ==
  Whole("evidence-pack") =>
    LET pack == artifacts["evidence-pack"]
        row == rows[pack.report]
    IN  ~ Fresh(row) /\ row.assessment = pack.assessment

(* What the run relies on after its analysis, whoever reviews meanwhile.    *)
RunIsBacked ==
  run.phase = "writing" /\ run.item > 4 =>
    /\ ~ Fresh(rows[run.report])
    /\ rows[run.report].assessment = run.assessment

(* While a run writes, nothing else does: what it has written is there. *)
RunWrote == run.phase = "writing" => Wrote(artifacts, run, run.item)

(* No file before the analysis carries an assessment. *)
AssessedLate ==
  run.phase \in {"scanning", "writing"} /\ run.item <= 4 => run.assessment = Nil

(* No run has begun since the last one completed. *)
CompletedIsLast ==
  Completed => run = Idle /\ last.report \in Reports /\ ~ Fresh(rows[last.report])

(* Nothing is written while the scanners run. *)
ScansFirst == run.phase = "scanning" => run.item = 1

PackIsAPack ==
  Whole("evidence-pack") =>
    artifacts["evidence-pack"] \in [report : Reports, assessment : Assessments \cup {Nil}]

(* A scanner that has run left what it saw, and no other file is merged. *)
ScansAreHonest ==
  /\ run.phase = "scanning" => run.todo \subseteq Executed(run)
  /\ \A c \in Allowed \ Silent :
       /\ run.phase = "scanning" =>
            IF c \in Executed(run) THEN c \in run.todo \/ sarif[c] = run.saw[c]
                                   ELSE run.report[c] = run.saw[c]
       /\ run.phase = "writing" => run.report[c] = run.saw[c]

IInv == /\ TypeOK /\ ScansFirst /\ RunIsBacked /\ PackIsAPack /\ PackIsBacked
        /\ RunWrote /\ AssessedLate /\ CompletedIsLast /\ CompletedRunAgrees
        /\ ScansAreHonest

(* A row has its case on record: the raw report and the case made of it were*)
(* written in full before the case was first analysed.  This is about the   *)
(* order of the steps and about kills; write_text does not sync, so a power *)
(* loss may still take the files and leave the row.                         *)
AnalysedIsPreserved ==
  [][\A r \in Reports : rows[r] = Nil /\ rows'[r] # Nil =>
       /\ artifacts["raw-scan"] = [report |-> r, assessment |-> Nil]
       /\ artifacts["evidence-case"] = [report |-> r, assessment |-> Nil]]_vars

(* What a run merges of a scanner that never ends quietly without output is *)
(* what the scanner saw in this run, not what a run before it left behind,  *)
(* torn or whole.                                                           *)
HonestReportIsFresh ==
  run.phase = "writing" =>
    \A c \in Allowed \ Silent : run.report[c] = run.saw[c]

(* "did not produce a SARIF report" (scanners.py:281-282): a scanner that   *)
(* wrote nothing ends the run, so what a run merges is what was seen in it. *)
ReportIsFresh == run.phase = "writing" => run.report = run.saw
=============================================================================
