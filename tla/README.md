# EvidenceFlow in TLA+

A verification project for the `evidenceflow` package (`src/evidenceflow/`):
TLA+ modules translated from the code, TLC configurations that check them on
small instances, and proofs that TLAPS checks for every value of the constants.
Line numbers below are those of the Python files under `src/evidenceflow/`;
`PROJECT.json` maps every definition to its lines.

## 1. The system

EvidenceFlow turns evidence about a repository (scanner output, or a prepared
case) into an assessment by a language model or a deterministic triage, holds
the assessment until a named reviewer approves it, and then exports it to a
handoff directory.  All durable state is one data directory: a SQLite database
of workflow records, export files, a hash-chained audit file, and the artifacts
of pilot runs.  Several processes work on it at once: the review console (a
threading HTTP server) and any number of CLI commands.

| Component | State | Operations | Interacts with |
|---|---|---|---|
| case workflow (`workflow.py`, `models.py`) | none of its own; a copy of a record during a call | `analyze`, `approve`, `publish` | repository, provider, publisher, audit log, one call after the other and no lock between them |
| durable stores (`persistence.py`) | rows by case id; export files by directory and case | `get`, `save` (in a transaction with a fingerprint check), `publish` (exists check, temporary file, `os.replace`) | workflow, console |
| audit log (`audit.py`) | the file; the cached last hash and a lock per object | open, `append`, `verify` | every process through its own object |
| model provider (`providers.py`) | the messages of one call | one HTTP request, schema repair, parsing | workflow (retries), endpoint |
| validators (`validation.py`) | none | three predicates | workflow, provider |
| scanner output to case (`assurance.py`) | none | SARIF import, policy scan, merge, selection, triage | pilot, workflow |
| pilot scope (`assurance.py`) | the scope file | `authorize`, provider URL check | pilot |
| scanner runner (`scanners.py`) | SARIF files in `scanner-raw`, which outlive a run | one fixed command per scanner in a sandbox | pilot, scanners |
| pilot command (`cli.py`) | the artifacts of a repository | authorise, scan, import, write, analyse, write | everything above |
| CLI approve / publish / status / verify-audit | none | one workflow call, or a read | workflow |
| review console (`web.py`) | a CSRF token; in each browser a page, as old as it may be | page, health, approve, publish, each request in its own thread | workflow, on shared stores and one `AuditLog` |
| reporting (`reporting.py`) | none | metrics, management summary | pilot |
| in-memory adapters, telemetry, evaluation | dictionaries, counters, ratios | | tests, metrics |
| demonstrators, scripts, site | recorded data | | nothing |

What is hard in this code:

- *Interleavings.* A record is read, worked on and written back in separate
  database calls, so another operator can act in between (`workflow.py:157`,
  `:138`); the publisher tests for a file and replaces it later
  (`persistence.py:119-134`); each audit object caches the last hash
  (`audit.py:17`).
- *Crashes and failures.* A process may die or an I/O call may raise between
  any two effects: between `os.replace` and the save, between the save and the
  audit append, in the middle of a line of the audit file, between two
  artifacts of a pilot.
- *Retries.* A retry loop around a repair loop around a request
  (`workflow.py:102`, `providers.py:88`); failed cases may be analysed again.
- *State that outlives its run.* SARIF files, receipts and artifacts of an
  earlier pilot are there when the next one runs; a reviewer's page is there
  while commands go on, and his form names a case and not an assessment
  (`web.py:200`).
- *Power loss.* The file of an export is synced and its directory is not
  (`persistence.py:133-134`), while the row and the audit line are.
- *Limits.* Results per file, observations and characters per case, attempts,
  repairs.

What makes the components correct: an export carries exactly what a named
reviewer approved (workflow, publisher); a row that offers an assessment offers
one the validators accepted (workflow); the log never reports what did not
happen, loses nothing it acknowledged, and verifies (audit log); an analysis
ends within its limits and completes only with a sound answer (provider);
nothing that needs review is lost between scanner and triage but by the stated
limits (assurance); what a pilot leaves behind belongs together and to what
its scanners saw (pilot, scanners); a reviewer decides about what he was shown,
and what the console answers him is so (console).

## 2. The modules

| Module | Models | Extends / composes |
|---|---|---|
| `ApprovalGate` | abstract: grants of decisions and releases of granted ones | |
| `CaseLifecycle` | abstract: the life of a case as the documentation draws it | |
| `EvidenceWorkflow` | workflow and durable stores, several operators | `INSTANCE`s both abstract modules with refinement mappings |
| `EvidenceWorkflowProofs` | proofs for any number of operators | |
| `SerialWorkflowProofs` | proofs for one operator at a time | extends the proofs above |
| `ReviewConsole`, `ReviewConsoleProofs` | console threads beside CLI commands | extends `EvidenceWorkflow`: a request is a workflow call on the same stores |
| `HandoffDirectory`, `HandoffDirectoryProofs` | the publisher's temporary files and renames on a file system that loses power | extends `EvidenceWorkflow` and opens its `ExportReplace` |
| `AuditLog`, `AuditLogProofs` | the audit file, its objects, threads and faults | |
| `ModelCall`, `ModelCallProofs` | one analysis by the HTTP provider with both loops | instantiates `EvidenceWorkflow` and implements its provider call |
| `AssuranceReport`, `AssuranceReportProofs` | from SARIF to a triaged case | |
| `ScannerPilot`, `ScannerPilotProofs` | pilot runs over the files they share | uses the analysis as one step and reviews as environment |
| `MC...` | values of the constants for TLC | |

### EvidenceWorkflow

`repository`, `exports` and `audit` are the shared stores; `task` says for each
operator which call it is in, where, and with which copy of the record;
`approvals` is a history variable.  One action is one call to a store, the
provider or the log together with the in-memory work up to the next, so another
operator may act between any two.  `Save` contains the fingerprint check of the
transaction (`persistence.py:65-72`).  `Interrupt` ends a call at any step of an
interruptible operator: a kill, or an exception of a store or the log.  A call
that returns or raises before it touches anything is a stuttering step.
Fingerprints stand for what they are of, so the idempotency key of an export is
the pair of evidence and assessment.  `LogRetry` and the step that follows a
provider's answer model `analyze`'s retry loop at the level of its records.
`WorkflowState.REJECTED` is declared in `models.py` and never assigned, so it is
not a state here.

### ReviewConsole

Some operators are `Handlers`, threads of the console; the others are
`Commands`.  `session` holds for each handler the page its browser was last
served (for each case the form its card offers and the assessment it shows),
the form that was submitted, and the answer.  `Get` is `do_GET`; `Post` and
`PostLate` are `do_POST` with its tests (`Refused`) in the order of the code;
`Serve` is a step of the workflow call and, when the call returns or raises
`WorkflowError`, the answer; `Drop` is any other exception or a kill, after
which the browser knows nothing.  A form that fails a test changes nothing and
has no action.  `do_POST` takes any form with the token, so `Submits` asks
nothing of the page: a form may be for a row that has moved on, for one the page
offers no form for, or for a case that is unknown.  `contested` (cases two analyses were in at
once) and `unanswered` (audit records of calls that were cut short) are history
variables that say where the guarantees end.

### HandoffDirectory

A publish goes through `mkstemp`, write, `fsync` and `os.replace`, four steps
where `EvidenceWorkflow` has one: `position` is the statement it is before, and
`temporary` what its temporary file holds.  `Replace` renames the file whatever
it holds and records in `unsynced` whether it was synced; that it always is
follows from the order of the steps.  `exports` is what the directories say to a
running system and `settled` what is on the disk.  `Raise` ends a call by an
exception, and its finally clause removes the temporary file; `Kill` leaves the
file, under a random name that nothing reads, and `abandoned` remembers the
directory.  `WriteBack` writes one entry out at any time, `PowerLoss` ends every
call and sets `exports` back to `settled`, `torn` are the files that were renamed
unsynced and met a power loss, and `lost` remembers paths whose last rename was
taken back.  Rows (`PRAGMA synchronous=FULL`) and audit lines (`fsync`) are
taken to survive.

### AuditLog

A line is its hash and the hash it names; a hash is a number given out once,
because it covers the timestamp.  A line that does not parse is `Scrap`.  `torn`
says that the last line has no newline, `durable` how many lines a power loss
cannot take.  `orderly` is history: so far at most one object was open at a time
and no append or sync has failed.  `Enter`, `Write`, `Sync`, `Leave` are the
steps of `append` under the object's lock; `WriteFails`, `SyncFails`, `Exit` and `PowerLoss` are the
faults, switched by the constant `Faults`.  A kill happens between the steps: a
record is flushed in one write, which a kill does not split; a full disk may.

### ModelCall

The endpoint's replies are the environment's choices: a message content
(`Receive`), a transient error (`Busy`), a refusal (`Refuse`), or a reply in a
shape no `except` clause names (`Break`).  A content belongs to a kind given by
the constants `Parsed`, `Crashing`, `Permitted`, `Grounded`, `Mistyped`.  The
outer loop's counter is `attempt`; the inner loop's is the length of
`conversation`.  A busy reply leaves the provider (`Busy`); what the workflow
does about it is the next step (`Retry`).  `requests` and `heard` are history.

`Call` is what `EvidenceWorkflow` keeps of the analysis in `task`: one operator
in the provider call of one case, with the attempts counted, and then the
outcome.  `ImplementsCall` says that every step of the two loops is one of the
provider's steps there, or none: what holds of the workflow with any provider
holds with this one.

### AssuranceReport

Texts are represented by their sizes.  An id names its tool, its run and its
number; `IdBefore`, any strict total order on the ids, is how their strings
compare.  A loop of the code is a recursive function of the number of rounds,
with the state of the loop as its value: `ImportResult`, `ImportRun` and
`ImportRuns` are the two loops of `import_sarif` with the limit tested before
each append, `SelectNext` and `SelectLoop` the loop of `report_to_case` with its
two `break`s, `Totals` and `ReviewsOf` a sum and a filter.  `Ordered` is
`sorted`: each item goes to the place given by the number of items before it,
and equal ones keep their order.  `Sources` adds the sentence; `Triage` is
`ScannerTriageProvider.analyze`, which takes a text that is not JSON for a low
review item.  `ResultsOf`, what a file holds, is written without the loops and
is what they are compared with.  A file has a size, a shape and runs, and `Refused`
tests them in the order of the code; runs and results are taken to be objects,
and a file where they are not raises like one of another shape.  Nothing keeps two
reports from carrying the slug of one tool: their ids may then be equal, and
`RejectInput` is `analyze` refusing the case.

### ScannerPilot

A run is a record that lives in `run`; `sarif`, `artifacts` and `rows` are the
files and the database and outlive it.  `Allowed` are the checks of the scope.  What a scanner finds is determined by
the contents of the checkout, so a SARIF file stands for those, and a report for
what each check saw; the case id contains the report's fingerprint, so a row is
found by its report.  `Metrics` is what `build_pilot_metrics` takes its figures
from.  `Order` is the order of the steps of
`_process_assurance_report`.  `Stop`, `Tear`, `ScanFails`, `ImportFails` and
`AnalyzeFails` end a run at any step.  `Edit` (someone changes the checkout) and
`Review` (an approval or a publication, as `EvidenceWorkflow` describes them)
are the environment.  Only one pilot runs at a time.

## 3. Runs

`pass` runs finish without error; `violation` runs have one property, taken
from a document, a test or a message of the program, that TLC refutes.

| Run | Question | Result |
|---|---|---|
| `workflow_shared` | two interruptible operators, two submissions, a provider that answers differently each time | exports approved, rows coherent, published rows backed by their file, log truthful, evidence pinned, implements `ApprovalGate` |
| `workflow_serial` | one operator killed anywhere, two cases | implements `CaseLifecycle`; approved cases can be exported |
| `workflow_regresses` | is a published row final? | no, section 5 |
| `console_beside_commands` | a console thread with a page of any age and two commands on one case, cut short anywhere | answers are so, a form of the page decides about what it showed, every effect is audited or its call was cut short |
| `handoff_power_loss` | two publishers, kills and power losses anywhere, fair steps | no torn export, survivors approved, a reported file is missing only if its rename was taken back, every call ends |
| `audit_faulty` | two processes, three threads, all faults | nothing acknowledged is lost, durable lines stay, and the file verifies while the log is used in order |
| `audit_two_processes` | does it verify for two processes as well? | no, section 5 |
| `model_call_guarded` | any replies in any order | requests bounded, conversations own, every step descends, implements the provider call of `EvidenceWorkflow` |
| `model_call_malformed` | does a malformed reply fail closed? | not always, section 5 |
| `assurance_pipeline` | merges of up to three reports at the limits, files that must be refused, tools that report twice | import exact, cases valid while tools differ, selection the longest prefix by severity, risk kept, triage grounded |
| `pilot_interrupted` | two runs cut short anywhere, a check outside the scope, reviews and edits in between | only checks of the scope run, completed runs agree, a readable pack is backed, no case is analysed before its report was written, honest scanners' reports are fresh |
| `pilot_silent` | is a scanner without output refused? | not always, section 5 |

Several properties say where a guarantee ends, and the condition is part of the
property, so that the runs (and the proofs) hold in every state of the full
system and not in a tamer one.  `OrderlyVerifies` promises a chain that verifies
until a second process opens the log or an append fails, and `AlwaysVerifies`
is refuted beyond; `EffectsAreAccounted` excuses the calls in `unanswered`, and
`SeenIsApproved` the cases in `contested` and the forms no page offers;
`CasesAreValid` the reports that share a tool; `ReportedIsThere` excuses the paths
in `lost`; `ReportIsFresh` speaks of every scanner and `HonestReportIsFresh` of
those that write their report or fail; `PublishedIsExported` promises the
content of the file only while the decisions on a case agree.

### Bounds

- `Attempts` is 2 or 3: one retry and, with 3, a retry that is neither first nor
  last.  Two operators suffice for every race found, each of which is between a
  stale copy and one other call; one case suffices where cases share no state,
  and `workflow_serial` has two.  Two evidences, two acceptable assessments and
  one that is not give a wrong fingerprint, another key and a rejection.
- `Tracked` names the audit events an instance remembers.  The log is a set, and
  an event nobody asks about would only multiply states.
- `console_beside_commands` has one handler, which can hold a page while the two
  commands analyse, approve and publish its case, and two assessments, so that
  an approval can be about the wrong one.  Two commands are needed for two
  analyses to meet.  A second handler acts on the stores as a command does, and
  the proofs cover any number.  `Attempts` is 1 there: retries belong to the
  other runs.  `MCForms` has the two forms that pass and one for each test of
  `do_POST`; `MaxLength` is 2 instead of 8192.
- `handoff_power_loss` has one path and two publishers, the smallest instance
  in which one file replaces another whose rename is not written out.  There is
  no bound on power losses.
- `MaxAppends` is 4: enough for two processes to append after each other and
  for one to come back after a crash.
- `Repairs` is 1 or 2.  The limits of `assurance.py` are scaled down together:
  2 bytes, 3 results, 4 observations, 7 characters, with files and selections at,
  below and above each.
  `LimitsAssumption` keeps the relation the program has between 90,000 and
  100,000 characters.  `MCIdBefore` compares tool, run and number, with the
  second run or result before the first, so that the order of the strings is not
  that of the results; sizes are 1, 7 and 8, so that a result may be at the size
  limit or beyond it by itself.
- `MaxRuns` is 2 pilots and `MaxReports` 3 reports: one run or report to leave
  something behind and one to find it, and a third report for a merge with the
  policy scan.
- `workflow_shared` uses symmetry in the operators, the evidences and the
  summaries, `console_beside_commands` in the commands and the assessments,
  `pilot_interrupted` in the trees and the assessments.  Nothing in those
  instances tells two members of one set apart, and none has a liveness
  property; `handoff_power_loss` has one and uses no symmetry.

### Fairness

`FairHandoffSpec` assumes weak fairness of the next step of each operator's
running call, the steps of its temporary file included, and nothing else: nobody
must start a call, no disk must fail, and no system must write a directory out.
The code justifies it: the HTTP request has a timeout, SQLite waits at most ten
seconds for its lock and then raises, file operations return, and no step waits
for another call.  Under it every call ends (`OperationsTerminate`), although
power may fail and other operators may go on for ever.  No other run needs
fairness; that the loops of `ModelCall` end is `EveryStepDescends`, a property of
single steps.

## 4. Proofs

Each theorem holds for every value of the constants that satisfies the named
`ASSUME`s of its module.

- **EvidenceWorkflow** (`TypeCorrect`, `ExportsApproved`, `RecordsCoherent`,
  `AuditTruthful`, `PublishedExported`, `EvidencePinned`, `GateImplemented`).  None of the safety
  properties is inductive alone: a call saves a copy it read earlier.  `IInv`
  adds what each copy may rely on (`TaskShape`: the copy has the shape its step
  implies; `TaskBacked`: what it was read from is durable), that approved rows
  have a recorded decision, and that decisions are about assessments the
  validators accept.  It says nothing of the audit log, because the handoff
  directory below keeps it and not the log's claims.  The step lemma has one
  case per action.  `AuditTruthful` adds `ReportsBorne`: each record in the log
  is borne out by the stores, and the stores only grow (`StoresGrow`).
  `PublishedExported` adds `RowsAreExported`, which is inductive relative to
  `IInv`: a row is saved as published only by a call that has seen or made its
  file, and files are replaced, never removed.  The refinement of
  `ApprovalGate` maps `approvals` to `granted` and `exports` to `released`.
- **SerialWorkflow** (`ApprovedExportable`, `LifecycleImplemented`), under the
  assumption `OneOperator`, written into the theorems.  `SerialInv` says that
  nothing a call relies on has moved since it was read (`CopyIsCurrent`) and
  that an export of a case says what its row says (`ExportsAreCurrent`).  With
  these each step is a step of `CaseLifecycle` or leaves the rows and exports
  as they are.  The kill between `os.replace` and the save is a case of its
  own: the row stays approved, and its next publish finds its own file.
- **ReviewConsole** (`WorkflowImplemented`, `ConsoleImplementsGate`,
  `ConsoleTypeCorrect`, `SeenApproved`, `EffectsAccounted`, `AnswersTrue`).  Every
  step of the console is a step of the workflow or leaves it alone, so the
  console implements `EvidenceWorkflow`, every theorem about that module holds
  behind it, and `IInv` carries over.  `SeenInv` relates a page to the row: as long
  as a case is not contested, a row still pending is the one a page shows,
  because nobody analyses it again.  `EffectsAreAccounted` is
  inductive relative to `IInv`, since it counts what a running call still owes;
  `AnswerInv` adds what a form's call has done at each step.
  `EffectsAccounted` and `AnswersTrue` are stated for instances that remember
  the events they are about.
- **HandoffDirectory** (`HandoffTypeCorrect`, `ExportsWhole`,
  `SurvivorsApproved`, `ReportedThere`).  A step is a step of the workflow, a
  step of the disk, or `PowerLoss`, which is none of the workflow's: `HandoffInv`
  is `IInv` with `SettledInv`, that what the disk says of a path has been
  approved as well.  `ReportedInv` says that the path a published row or an
  audited publication names holds a file or is in `lost`.  `ExportsWhole` needs
  `DiskInv`: a publish that is before its rename has synced its temporary file,
  so no path is `unsynced` and a power loss has nothing to cut off.
- **AuditLog** (`TypeCorrect`, `NothingIsLost`, `DurableStays`,
  `OrderlyIsVerified`).  `AckInv` says that an acknowledged record, or scrap in
  its place, is among the durable lines, and what a thread at each step has
  already put there.  `OrderlyInv` says that while the log is used in order the
  file is a chain and the cached hash is the last hash but for the thread inside
  the lock (`ChainInv`).
- **ModelCall** (`TypeCorrect`, `RequestsBounded`, `ConversationOwn`,
  `StepsDescend`, `CallImplemented`).  `Counted` carries the bound: earlier
  attempts used at most their share, and this one as many requests as it has
  refused answers, plus one on its way.  `CallGoesOn` goes through the steps
  against `EvidenceWorkflow`'s: within the loops `Call` stays as it is.
- **ScannerPilot** (`TypeCorrect`, `PackBacked`, `CompletedAgrees`,
  `HonestIsFresh`, `AnalysedPreserved`).  `IInv` adds that a run past
  its analysis carries the assessment of its row (`RunIsBacked`), that no run is
  past it while scanning (`ScansFirst`), that a readable pack has the fields
  of one, that the artifacts before the run's position are this run's
  (`RunWrote`), and what the scanners that ran have left (`ScansAreHonest`).
  The lemma `RowsKept` says that no step, a review included, takes an
  assessment away from a row.

- **AssuranceReport** (`TypeCorrect`, `ImportExact`, `CasesValid`,
  `SelectionLongest`, `RiskKept`, `TriageGrounded`), for files, runs, reports
  and limits of any size.  `IInv` is short: each phase's results are what the
  operators make of the reports, and no id comes twice in one report (`Distinct`),
  nor in all of them while their tools differ (`AllDistinct`).
  The work is in the operators.  `NatSetInduction` is induction for a set of
  numbers, from the library's minimal elements of well-founded relations, and
  needs no operator as a parameter; `LoopIsDefined` shows with it that
  a loop's recursive function exists, and `UpTo` carries an invariant along it.
  For the import the invariant is that the state agrees with the results gone
  through (`Agrees`); for the selection, that it is a prefix of the ordered
  observations within both limits, together with why it ended if it did
  (`IsSelection`).  That `Ordered` rearranges and sorts follows from counting:
  an observation that precedes another has fewer before it (`RankOrders`), so
  ranks are an injection of a finite set into itself.  `RiskIsKept` is the
  argument about the triage: the first observation in the order decides, and
  it is selected when it fits.

Only model-checked: liveness (`OperationsTerminate`), which needs fairness.

## 5. Findings

Four runs refute what a document or a message of the program says; the line is
quoted in `PROJECT.json`.

1. `workflow_regresses`: a slow `approve` writes its stale copy over a row that
   was published meanwhile (`workflow.py:157`), so a second `publish` does not
   return the prior receipt.
2. `audit_two_processes`: console and CLI fork the hash chain (`audit.py:17`,
   `:32`), and `verify()` stays false although nobody changed the file.
3. `model_call_malformed`: an empty `choices` list or a body that is not JSON
   leaves `analyze` by an exception without a row or a record
   (`providers.py:143`, `:155`).
4. `pilot_silent`: a SARIF file of an earlier run passes for this run's when
   the scanner ends with an accepted code and writes none (`scanners.py:281`).

Other boundaries, which the passing properties are stated within:

- Two publishers can both pass the exists check, and the later one replaces the
  export of another approved assessment (`persistence.py:119-134`); hence
  `DecisionsAgree` in `PublishedIsExported`.
- A process that dies between a save and its append leaves an approval that no
  later call audits (`workflow.py:157-158`), and a console request that ends
  this way is not answered (`web.py:203`); hence `unanswered`.
- The console approves by case (`web.py:200`).  If two analyses of a case ran at
  once, the slower one replaces the assessment a reviewer's page shows, and his
  form approves the other; hence `contested`.
- A power loss after `os.replace`, the save and the append may take the file
  away again (`persistence.py:134`), and a publish of the row then returns its
  old receipt and makes no file; hence `lost`.
- `fsync` or `chmod` raising after the write leaves a stale cached hash
  (`audit.py:40-42`), and `orderly` ends there.
- An observation that is beyond the size limit by itself ends the selection
  (`assurance.py:315`), so one that sorts first leaves the case without any, and
  the triage reports a low risk; hence the condition on the first observation in
  `RiskIsNotLost`.
- The sentence added to a case that has no observations, or had some omitted,
  is not JSON and counts as a review item in the triage's summary
  (`assurance.py:205`, `:225`); the risk is not affected.
- The slug of a tool's name is in the ids of its results and its report is not
  (`assurance.py:251`, `:261`), so results of two reports with one slug collide, and
  the workflow rejects the case; the three scanners of a pilot have different
  names.  Hence `ToolsApart` in `CasesAreValid`.
- The artifacts of a pilot are not synced, so `AnalysedIsPreserved` is about the
  order of the steps and about kills, not about a power loss.
- A run without external scanners leaves the receipts of an earlier run in
  place (`cli.py:118`); hence the condition in `CompletedRunAgrees`.
- A repeated run may meet its case approved or published, and its pack says
  `pending_approval` all the same (`assurance.py:366`); `PackIsBacked` speaks of
  the assessment and not of the state.

## 6. Not modelled

- Telemetry and evaluation: no state or control depends on them.  Of the reports
  only which report, assessment and executions they are made of, and when they
  are written; rounding and wording are layout.
- The command lines of the scanners and the sandbox: external.  The exit codes,
  time limits and files `_run` looks at are in `ScannerPilot`.
- The wording lists of `validate_assurance_assessment`, the date and path tests
  of `authorize`, the URL test of the egress rule: single pure conditions, each
  represented by the set of values that pass it.
- The demonstrators: offline scripts and recorded data.
- The in-memory adapters, which serve the tests and the demonstration.
- HTML and headers of the console, `/healthz` and `/api/cases`: layout and reads.
- Two pilots on one output directory at once (`cli.py:144`): `ScannerPilot` has
  one run at a time.  Every file of `scanner-raw` and every artifact is written
  in place without a lock, so no property of the pilot would survive a second
  run; what still holds, the workflow's own guarantees on the rows, is what
  `EvidenceWorkflow` checks and proves for any number of operators.

## 7. Plan

*Done:* the workflow over shared stores with its two abstract specifications;
the console and the commands over them; the handoff directory under power loss;
the audit log; the provider's loops; the assurance pipeline; the pilot.  Every
safety property of a passing run is proved for every value of the constants,
and so are the refinements.

*Left,* in the order of what an error would cost:

1. `EvidenceWorkflow` composed with `AuditLog`, so that a record in the set
   `audit` is a line of a file that verifies.
2. Two pilots on one output directory; the scope's expiry between two of them.
3. The in-memory adapters as a variant without the fingerprint check and with
   an idempotent publisher, against the same abstract specifications.
