-------------------------- MODULE EvidenceWorkflow --------------------------
(* EvidenceWorkflow (workflow.py) over the SQLiteRepository and the         *)
(* DirectoryPublisher (persistence.py), as the CLI and the review console   *)
(* run it: several operators (processes, or threads of the console) share   *)
(* one database, one set of export directories and one audit log, and       *)
(* nothing holds a lock from one storage call to the next.  One step here   *)
(* is one storage call, one provider call or one audit append together with *)
(* the in-memory work up to the next, so a call may be overtaken, or cut    *)
(* short, between any two of its effects.                                   *)
(* A call that returns or raises before it touches anything (an unknown     *)
(* case, a blank reviewer, approving a published case, evidence that        *)
(* differs from the stored one) is a stuttering step and has no action.     *)
EXTENDS Integers, FiniteSets

CONSTANTS
  Operators,     \* processes and console threads that run workflow calls
  Cases,         \* case ids
  Evidence,      \* fingerprints of submitted evidence cases
  Assessments,   \* fingerprints of assessments
  Reviewers,     \* reviewer names as typed
  Blank,         \* those that strip to nothing
  Destinations,  \* export directories
  Attempts,      \* RetryPolicy.attempts
  Usable,        \* the evidence validate_case accepts
  Answers,       \* the <<evidence, assessment>> pairs the provider may return
  Grounded,      \* the <<evidence, assessment>> pairs every validator accepts
  Interruptible, \* operators that a kill or an I/O error may stop anywhere
  Tracked,       \* the audit events this instance remembers (bound)
  Nil            \* None

Named == Reviewers \ Blank

(* WorkflowState without REJECTED, which nothing in the package assigns. *)
States == {"received", "pending_approval", "approved", "published", "failed"}

(* Events whose audit record says that something was stored. *)
Transitions == {"analysis_completed", "analysis_failed", "case_approved",
                "case_published"}

Events == Transitions \cup
  {"analysis_deduplicated", "analysis_retried", "input_rejected",
   "case_received", "provider_retry", "publish_deduplicated", "publish_blocked"}

ASSUME AttemptsAssumption == Attempts \in Nat \ {0}
ASSUME SetsAssumption == /\ Blank \subseteq Reviewers
                         /\ Usable \subseteq Evidence
                         /\ Answers \subseteq Evidence \X Assessments
                         /\ Grounded \subseteq Evidence \X Assessments
                         /\ Interruptible \subseteq Operators
                         /\ Tracked \subseteq Events
ASSUME NilAssumption ==
  Nil \notin Cases \cup Evidence \cup Assessments \cup Reviewers \cup Destinations

(* WorkflowRecord; a case stands for its fingerprint, a receipt for the     *)
(* directory it names.                                                      *)
Record == [evidence : Evidence, state : States, assessment : Assessments \cup {Nil},
           reviewer : Reviewers \cup {Nil}, receipt : Destinations \cup {Nil}]

Export == [evidence : Evidence, assessment : Assessments, reviewer : Named]

Entry == [event : Events, case : Cases, detail : Reviewers \cup Destinations \cup {Nil}]

Decision == [case : Cases, export : Export]

ASSUME NoRecordAssumption == Nil \notin Record \cup Export

VARIABLES
  repository,   \* case -> stored record, or Nil when there is no row
  exports,      \* <<destination, case>> -> exported file, or Nil
  audit,        \* the tracked audit records, as a set
  task,         \* operator -> the call it is in and how far it has come
  approvals     \* history: every decision a save has made durable

vars == <<repository, exports, audit, task, approvals>>

Steps ==
  {"idle",
   "deduplicated", "retried", "rejected", "received", "calling", "retrying",
   "failing", "failed", "completing", "completed",
   "approving", "approved",
   "publish_deduplicated", "publish_blocked", "exporting", "writing",
   "publishing", "published"}

Task == [step : Steps, case : Cases \cup {Nil}, attempt : 0 .. Attempts,
         record : Record \cup {Nil}, destination : Destinations \cup {Nil}]

Idle == [step |-> "idle", case |-> Nil, attempt |-> 0, record |-> Nil,
         destination |-> Nil]

-----------------------------------------------------------------------------

(* The record analyze builds for evidence e. *)
Received(e) == [evidence |-> e, state |-> "received", assessment |-> Nil,
                reviewer |-> Nil, receipt |-> Nil]

(* What an export says of a record; its first two fields are the key.       *)
Contents(rec) == [evidence |-> rec.evidence, assessment |-> rec.assessment,
                  reviewer |-> rec.reviewer]

SameKey(x, y) == x.evidence = y.evidence /\ x.assessment = y.assessment

Stored(c, s) == repository[c] # Nil /\ repository[c].state = s

At(o, s) == task[o].step = s

Begin(o, s, c, rec, d) ==
  /\ At(o, "idle")
  /\ task' = [task EXCEPT ![o] = [step |-> s, case |-> c, attempt |-> 0,
                                  record |-> rec, destination |-> d]]
  /\ UNCHANGED <<repository, exports, audit, approvals>>

Advance(o, s) == task' = [task EXCEPT ![o].step = s]

Return(o) == task' = [task EXCEPT ![o] = Idle]

(* AuditLog.append, at the level of what the log then says.  How the log    *)
(* stores it is module AuditLog's.                                          *)
Log(o, event, detail) ==
  audit' = IF event \in Tracked
             THEN audit \cup {[event |-> event, case |-> task[o].case,
                               detail |-> detail]}
             ELSE audit

(* Mutant: save without its fingerprint check. *)
AcceptsAnything(c, rec) == c \in Cases

(* SQLiteRepository.save accepts any record whose evidence is the row's.    *)
Accepts(c, rec) == repository[c] # Nil => repository[c].evidence = rec.evidence

Save(o) == repository' = [repository EXCEPT ![task[o].case] = task[o].record]

(* save raises PersistenceError, which no workflow method catches.          *)
Conflict(o, s) ==
  /\ At(o, s)
  /\ ~ Accepts(task[o].case, task[o].record)
  /\ Return(o)
  /\ UNCHANGED <<repository, exports, audit, approvals>>

Init == /\ repository = [c \in Cases |-> Nil]
        /\ exports = [path \in Destinations \X Cases |-> Nil]
        /\ audit = {}
        /\ task = [o \in Operators |-> Idle]
        /\ approvals = {}

-----------------------------------------------------------------------------
(* analyze *)

Submit(e) == IF e \in Usable THEN "received" ELSE "rejected"

(* No row: validate the case and go on. *)
Analyze(o, c, e) ==
  /\ repository[c] = Nil
  /\ Begin(o, Submit(e), c, Received(e), Nil)

(* The row is not failed: report it back, whatever its state. *)
AnalyzeAgain(o, c, e) ==
  /\ repository[c] # Nil
  /\ repository[c].evidence = e
  /\ repository[c].state # "failed"
  /\ Begin(o, "deduplicated", c, Received(e), Nil)

(* Mutant: a row that waits for its reviewer is analysed again as well. *)
AnalyzeRetryPending(o, c, e) ==
  /\ Stored(c, "failed") \/ Stored(c, "pending_approval")
  /\ repository[c].evidence = e
  /\ Begin(o, "retried", c, Received(e), Nil)

(* Mutant: so is a row that was approved. *)
AnalyzeRetryApproved(o, c, e) ==
  /\ Stored(c, "failed") \/ Stored(c, "approved")
  /\ repository[c].evidence = e
  /\ Begin(o, "retried", c, Received(e), Nil)

(* The row failed: try the same evidence again. *)
AnalyzeRetry(o, c, e) ==
  /\ Stored(c, "failed")
  /\ repository[c].evidence = e
  /\ Begin(o, "retried", c, Received(e), Nil)

LogDeduplicated(o) ==
  /\ At(o, "deduplicated")
  /\ Log(o, "analysis_deduplicated", Nil)
  /\ Return(o)
  /\ UNCHANGED <<repository, exports, approvals>>

LogRetried(o) ==
  /\ At(o, "retried")
  /\ Log(o, "analysis_retried", Nil)
  /\ Advance(o, Submit(task[o].record.evidence))
  /\ UNCHANGED <<repository, exports, approvals>>

LogRejected(o) ==
  /\ At(o, "rejected")
  /\ Log(o, "input_rejected", Nil)
  /\ Return(o)
  /\ UNCHANGED <<repository, exports, approvals>>

LogReceived(o) ==
  /\ At(o, "received")
  /\ Log(o, "case_received", Nil)
  /\ task' = [task EXCEPT ![o].step = "calling", ![o].attempt = 1]
  /\ UNCHANGED <<repository, exports, approvals>>

(* Mutant: the validators are not called. *)
ProviderAnswersUnchecked(o, a) ==
  /\ At(o, "calling")
  /\ <<task[o].record.evidence, a>> \in Answers
  /\ task' = [task EXCEPT ![o].step = "completing",
                          ![o].record.assessment = a,
                          ![o].record.state = "pending_approval"]
  /\ UNCHANGED <<repository, exports, audit, approvals>>

(* The provider returns an assessment and every validator accepts it. *)
ProviderAnswers(o, a) ==
  /\ At(o, "calling")
  /\ <<task[o].record.evidence, a>> \in Answers \cap Grounded
  /\ task' = [task EXCEPT ![o].step = "completing",
                          ![o].record.assessment = a,
                          ![o].record.state = "pending_approval"]
  /\ UNCHANGED <<repository, exports, audit, approvals>>

(* ProviderError, or an assessment some validator refuses: either way the   *)
(* record that is saved as failed carries no assessment.                    *)
ProviderFails(o) ==
  /\ At(o, "calling")
  /\ task' = [task EXCEPT ![o].step = "failing", ![o].record.state = "failed"]
  /\ UNCHANGED <<repository, exports, audit, approvals>>

(* TransientProviderError. *)
ProviderBusy(o) ==
  /\ At(o, "calling")
  /\ Advance(o, "retrying")
  /\ UNCHANGED <<repository, exports, audit, approvals>>

(* Anything else the provider or a validator raises (an IndexError on an    *)
(* empty choices list, an AttributeError on a quote that is no string) goes *)
(* past every handler of analyze.                                           *)
ProviderRaises(o) ==
  /\ At(o, "calling")
  /\ Return(o)
  /\ UNCHANGED <<repository, exports, audit, approvals>>

(* Mutant: one attempt too many. *)
LogRetryOffByOne(o) ==
  /\ At(o, "retrying")
  /\ Log(o, "provider_retry", Nil)
  /\ IF task[o].attempt > Attempts
       THEN task' = [task EXCEPT ![o].step = "failing",
                                 ![o].record.state = "failed"]
       ELSE task' = [task EXCEPT ![o].step = "calling", ![o].attempt = @ + 1]
  /\ UNCHANGED <<repository, exports, approvals>>

(* Mutant: attempts are not counted. *)
LogRetryForever(o) ==
  /\ At(o, "retrying")
  /\ Log(o, "provider_retry", Nil)
  /\ Advance(o, "calling")
  /\ UNCHANGED <<repository, exports, approvals>>

LogRetry(o) ==
  /\ At(o, "retrying")
  /\ Log(o, "provider_retry", Nil)
  /\ IF task[o].attempt = Attempts
       THEN task' = [task EXCEPT ![o].step = "failing",
                                 ![o].record.state = "failed"]
       ELSE task' = [task EXCEPT ![o].step = "calling", ![o].attempt = @ + 1]
  /\ UNCHANGED <<repository, exports, approvals>>

SaveFailed(o) ==
  /\ At(o, "failing")
  /\ Accepts(task[o].case, task[o].record)
  /\ Save(o)
  /\ Advance(o, "failed")
  /\ UNCHANGED <<exports, audit, approvals>>

LogFailed(o) ==
  /\ At(o, "failed")
  /\ Log(o, "analysis_failed", Nil)
  /\ Return(o)
  /\ UNCHANGED <<repository, exports, approvals>>

SaveCompleted(o) ==
  /\ At(o, "completing")
  /\ Accepts(task[o].case, task[o].record)
  /\ Save(o)
  /\ Advance(o, "completed")
  /\ UNCHANGED <<exports, audit, approvals>>

LogCompleted(o) ==
  /\ At(o, "completed")
  /\ Log(o, "analysis_completed", Nil)
  /\ Return(o)
  /\ UNCHANGED <<repository, exports, approvals>>

-----------------------------------------------------------------------------
(* approve *)

(* Mutant: the reviewer may be blank. *)
ApproveBlank(o, c, r) ==
  /\ Stored(c, "pending_approval")
  /\ Begin(o, "approving", c,
           [repository[c] EXCEPT !.state = "approved", !.reviewer = r], Nil)

Approve(o, c, r) ==
  /\ Stored(c, "pending_approval")
  /\ r \in Named
  /\ Begin(o, "approving", c,
           [repository[c] EXCEPT !.state = "approved", !.reviewer = r], Nil)

SaveApproved(o) ==
  /\ At(o, "approving")
  /\ Accepts(task[o].case, task[o].record)
  /\ Save(o)
  /\ approvals' = approvals \cup {[case |-> task[o].case,
                                   export |-> Contents(task[o].record)]}
  /\ Advance(o, "approved")
  /\ UNCHANGED <<exports, audit>>

LogApproved(o) ==
  /\ At(o, "approved")
  /\ Log(o, "case_approved", task[o].record.reviewer)
  /\ Return(o)
  /\ UNCHANGED <<repository, exports, approvals>>

-----------------------------------------------------------------------------
(* publish *)

(* Mutant: publish does not ask for approval. *)
PublishUnapproved(o, c, d) ==
  /\ Stored(c, "approved") \/ Stored(c, "pending_approval")
  /\ Begin(o, "exporting", c, repository[c], d)

Publish(o, c, d) ==
  /\ Stored(c, "approved")
  /\ Begin(o, "exporting", c, repository[c], d)

PublishAgain(o, c, d) ==
  /\ Stored(c, "published")
  /\ Begin(o, "publish_deduplicated", c, repository[c], d)

PublishEarly(o, c, d) ==
  /\ repository[c] # Nil
  /\ repository[c].state \notin {"approved", "published"}
  /\ Begin(o, "publish_blocked", c, repository[c], d)

LogPublishDeduplicated(o) ==
  /\ At(o, "publish_deduplicated")
  /\ Log(o, "publish_deduplicated", Nil)
  /\ Return(o)
  /\ UNCHANGED <<repository, exports, approvals>>

LogPublishBlocked(o) ==
  /\ At(o, "publish_blocked")
  /\ Log(o, "publish_blocked", Nil)
  /\ Return(o)
  /\ UNCHANGED <<repository, exports, approvals>>

Path(o) == <<task[o].destination, task[o].case>>

(* record.receipt and record.state, set once the publisher has returned. *)
Receipted(o) ==
  task' = [task EXCEPT ![o].step = "publishing",
                       ![o].record.state = "published",
                       ![o].record.receipt = task[o].destination]

(* DirectoryPublisher: the export is there already, for this key... *)
ExportFound(o) ==
  /\ At(o, "exporting")
  /\ exports[Path(o)] # Nil
  /\ SameKey(exports[Path(o)], task[o].record)
  /\ Receipted(o)
  /\ UNCHANGED <<repository, exports, audit, approvals>>

(* ... for another one, which raises PersistenceError... *)
ExportDiffers(o) ==
  /\ At(o, "exporting")
  /\ exports[Path(o)] # Nil
  /\ ~ SameKey(exports[Path(o)], task[o].record)
  /\ Return(o)
  /\ UNCHANGED <<repository, exports, audit, approvals>>

(* Mutant: the publication is logged before the file is in place. *)
ExportMissingLogged(o) ==
  /\ At(o, "exporting")
  /\ exports[Path(o)] = Nil
  /\ Log(o, "case_published", task[o].destination)
  /\ Advance(o, "writing")
  /\ UNCHANGED <<repository, exports, approvals>>

(* Mutant: the receipt is returned without moving the file into place. *)
ExportMissingUnwritten(o) ==
  /\ At(o, "exporting")
  /\ exports[Path(o)] = Nil
  /\ Receipted(o)
  /\ UNCHANGED <<repository, exports, audit, approvals>>

(* ... or is not there yet: write and sync a temporary file beside it. *)
ExportMissing(o) ==
  /\ At(o, "exporting")
  /\ exports[Path(o)] = Nil
  /\ Advance(o, "writing")
  /\ UNCHANGED <<repository, exports, audit, approvals>>

(* os.replace, which puts the file there whatever is there by now. *)
ExportReplace(o) ==
  /\ At(o, "writing")
  /\ exports' = [exports EXCEPT ![Path(o)] = Contents(task[o].record)]
  /\ Receipted(o)
  /\ UNCHANGED <<repository, audit, approvals>>

(* Mutant: nothing is logged after the save. *)
SavePublishedSilently(o) ==
  /\ At(o, "publishing")
  /\ Accepts(task[o].case, task[o].record)
  /\ Save(o)
  /\ Return(o)
  /\ UNCHANGED <<exports, audit, approvals>>

SavePublished(o) ==
  /\ At(o, "publishing")
  /\ Accepts(task[o].case, task[o].record)
  /\ Save(o)
  /\ Advance(o, "published")
  /\ UNCHANGED <<exports, audit, approvals>>

LogPublished(o) ==
  /\ At(o, "published")
  /\ Log(o, "case_published", task[o].record.receipt)
  /\ Return(o)
  /\ UNCHANGED <<repository, exports, approvals>>

-----------------------------------------------------------------------------
(* A kill, a full disk, a locked database or a log that cannot be written   *)
(* ends the call where it is.  What was stored stays stored.                *)
Interrupt(o) ==
  /\ o \in Interruptible
  /\ ~ At(o, "idle")
  /\ Return(o)
  /\ UNCHANGED <<repository, exports, audit, approvals>>

(* A caller starts a call that gets as far as a step of its own. *)
Start(o) ==
  \E c \in Cases :
    \/ \E e \in Evidence : \/ Analyze(o, c, e)
                           \/ AnalyzeAgain(o, c, e)
                           \/ AnalyzeRetry(o, c, e)
    \/ \E r \in Reviewers : Approve(o, c, r)
    \/ \E d \in Destinations : \/ Publish(o, c, d)
                               \/ PublishAgain(o, c, d)
                               \/ PublishEarly(o, c, d)

AnalyzeStep(o) ==
  \/ LogDeduplicated(o)
  \/ LogRetried(o)
  \/ LogRejected(o)
  \/ LogReceived(o)
  \/ \E a \in Assessments : ProviderAnswers(o, a)
  \/ ProviderFails(o)
  \/ ProviderBusy(o)
  \/ ProviderRaises(o)
  \/ LogRetry(o)
  \/ SaveFailed(o)
  \/ Conflict(o, "failing")
  \/ LogFailed(o)
  \/ SaveCompleted(o)
  \/ Conflict(o, "completing")
  \/ LogCompleted(o)

ApproveStep(o) ==
  \/ SaveApproved(o)
  \/ LogApproved(o)

PublishStep(o) ==
  \/ LogPublishDeduplicated(o)
  \/ LogPublishBlocked(o)
  \/ ExportFound(o)
  \/ ExportDiffers(o)
  \/ ExportMissing(o)
  \/ ExportReplace(o)
  \/ SavePublished(o)
  \/ LogPublished(o)

(* The next step of the call o is in. *)
Step(o) == AnalyzeStep(o) \/ ApproveStep(o) \/ PublishStep(o)

Next == \E o \in Operators : Start(o) \/ Step(o) \/ Interrupt(o)

Spec == Init /\ [][Next]_vars

-----------------------------------------------------------------------------
(* Every variable stays in its type. *)
TypeOK == /\ repository \in [Cases -> Record \cup {Nil}]
          /\ exports \in [Destinations \X Cases -> Export \cup {Nil}]
          /\ audit \subseteq Entry
          /\ task \in [Operators -> Task]
          /\ approvals \subseteq Decision

(* Whatever the interleaving and wherever calls die, a file in a handoff    *)
(* directory carries a decision that a named reviewer took about exactly    *)
(* that assessment of that evidence and that was durable before the export  *)
(* (publish's check of a record it read earlier, workflow.py:163-174).      *)
ExportsAreApproved ==
  \A d \in Destinations, c \in Cases :
    exports[<<d, c>>] # Nil => [case |-> c, export |-> exports[<<d, c>>]] \in approvals

(* The shape a stored record has in each state. *)
Coherent(rec) ==
  /\ rec.state # "received"
  /\ rec.state = "failed" <=> rec.assessment = Nil
  /\ rec.assessment # Nil => <<rec.evidence, rec.assessment>> \in Grounded
  /\ rec.state \in {"approved", "published"} <=> rec.reviewer # Nil
  /\ rec.reviewer \notin Blank
  /\ rec.state = "published" <=> rec.receipt # Nil

(* Fail closed: whichever stale copy a save writes back, a row that offers  *)
(* an assessment for review offers one that passed every validator, and a   *)
(* row has a reviewer and a receipt exactly when its state says so.         *)
RecordsAreCoherent == \A c \in Cases : repository[c] # Nil => Coherent(repository[c])

(* The log never runs ahead of the stores: an approval it reports had been  *)
(* saved, a publication it reports has its file, and an analysis it reports *)
(* left a row (audit.append follows the save in every method).              *)
AuditIsTruthful ==
  \A entry \in audit :
    /\ entry.event = "case_approved" =>
         \E decision \in approvals : /\ decision.case = entry.case
                                     /\ decision.export.reviewer = entry.detail
    /\ entry.event = "case_published" => exports[<<entry.detail, entry.case>>] # Nil
    /\ entry.event \in Transitions => repository[entry.case] # Nil

(* The first row of a case fixes its evidence for ever, although two        *)
(* analyses of different evidence may both have seen no row: the check in   *)
(* save (persistence.py:69-72) decides between them.                        *)
EvidenceIsPinned ==
  [][\A c \in Cases : repository[c] # Nil =>
       /\ repository'[c] # Nil
       /\ repository'[c].evidence = repository[c].evidence]_repository

(* All decisions taken on c so far are about one assessment of one evidence.*)
DecisionsAgree(c) ==
  \A x, y \in approvals : x.case = c /\ y.case = c => SameKey(x.export, y.export)

(* A row that says published names a directory that holds a file for it.    *)
(* The file says what the row says, unless decisions on two assessments of  *)
(* the case were taken: then a second publisher that passed the exists      *)
(* check before the first replaced the path may have put its file there     *)
(* (persistence.py:119-134).                                                *)
PublishedIsExported ==
  \A c \in Cases : Stored(c, "published") =>
    LET file == exports[<<repository[c].receipt, c>>]
    IN  file # Nil /\ (DecisionsAgree(c) => SameKey(file, repository[c]))

(* An approved case is never stuck behind an export of another assessment,  *)
(* which the publisher refuses for ever (persistence.py:121-122).           *)
ApprovedCanBeExported ==
  \A c \in Cases, d \in Destinations :
    Stored(c, "approved") /\ exports[<<d, c>>] # Nil
      => SameKey(exports[<<d, c>>], repository[c])

(* publish is idempotent from the first success on: a published row stays   *)
(* as it is, so the next publish returns the receipt and replays nothing.   *)
PublishedIsFinal ==
  [][\A c \in Cases : Stored(c, "published") => repository'[c] = repository[c]]_repository

(* An operator is about to write this record. *)
Owed(event, c, detail) ==
  \E o \in Operators :
    /\ task[o].case = c
    /\ \/ event = "case_approved" /\ At(o, "approved") /\ task[o].record.reviewer = detail
       \/ /\ event = "case_published"
          /\ task[o].step \in {"publishing", "published"}
          /\ task[o].destination = detail

(* The record is in the log, or a running call still owes it. *)
Audited(event, c, detail) ==
  [event |-> event, case |-> c, detail |-> detail] \in audit \/ Owed(event, c, detail)

(* A call ends: retries are bounded and no step waits for another call. *)
OperationsTerminate ==
  \A o \in Operators : ~ At(o, "idle") ~> At(o, "idle")

-----------------------------------------------------------------------------
(* The inductive invariant behind the safety properties: what the call an   *)
(* operator is in may rely on, although others went on in the meantime.     *)

(* The copy of the record that the call works on. *)
TaskShape(t) ==
  /\ t.step \in {"deduplicated", "retried", "rejected", "received", "calling",
                  "retrying"}
       => t.record = Received(t.record.evidence)
  /\ t.step \in {"failing", "failed"} => t.record.state = "failed"
  /\ t.step \in {"completing", "completed"} => t.record.state = "pending_approval"
  /\ t.step \in {"approving", "approved", "exporting", "writing"}
       => t.record.state = "approved"
  /\ t.step \in {"publishing", "published"}
       => t.record.state = "published" /\ t.record.receipt = t.destination
  /\ t.step \in {"failing", "failed", "completing", "completed", "approving",
                  "approved", "exporting", "writing", "publishing", "published"}
       => Coherent(t.record)
  /\ t.step \in {"exporting", "writing", "publishing", "published"}
       => t.destination \in Destinations

(* What the call of o has made durable, or has read as durable. *)
TaskBacked(o) ==
  /\ task[o].step \in {"approved", "exporting", "writing", "publishing", "published"}
       => [case |-> task[o].case, export |-> Contents(task[o].record)] \in approvals
  /\ task[o].step \in {"failed", "completed", "approved", "published"}
       => repository[task[o].case] # Nil
  /\ task[o].step \in {"publishing", "published"}
       => exports[Path(o)] # Nil

TaskOK(o) == ~ At(o, "idle") => /\ task[o].case \in Cases
                                /\ task[o].record \in Record
                                /\ TaskShape(task[o])
                                /\ TaskBacked(o)

RowsAreApproved ==
  \A c \in Cases : Stored(c, "approved") \/ Stored(c, "published")
    => [case |-> c, export |-> Contents(repository[c])] \in approvals

RowsAreExported ==
  \A c \in Cases : Stored(c, "published") =>
    exports[<<repository[c].receipt, c>>] # Nil

ApprovalsAreGrounded ==
  \A decision \in approvals :
    <<decision.export.evidence, decision.export.assessment>> \in Grounded

IInv == /\ TypeOK
        /\ \A o \in Operators : TaskOK(o)
        /\ RecordsAreCoherent
        /\ RowsAreApproved
        /\ ApprovalsAreGrounded
        /\ ExportsAreApproved

(* The invariant behind the properties of one operator at a time: nothing   *)
(* the call relies on has moved since it was read.                          *)
OneOperator == \A o, p \in Operators : o = p

Unassessed(c, e) ==
  repository[c] # Nil => repository[c].state = "failed" /\ repository[c].evidence = e

CopyIsCurrent(o) ==
  /\ task[o].step \in {"retried", "rejected", "received", "calling", "retrying",
                       "failing", "completing"}
       => Unassessed(task[o].case, task[o].record.evidence)
  /\ At(o, "approving")
       => /\ Stored(task[o].case, "pending_approval")
          /\ task[o].record = [repository[task[o].case] EXCEPT
                                 !.state = "approved", !.reviewer = task[o].record.reviewer]
  /\ task[o].step \in {"approved", "exporting", "writing"}
       => repository[task[o].case] = task[o].record
  /\ At(o, "writing") => exports[Path(o)] = Nil
  /\ At(o, "publishing")
       => /\ Stored(task[o].case, "approved")
          /\ task[o].record = [repository[task[o].case] EXCEPT
                                 !.state = "published", !.receipt = task[o].destination]
          /\ exports[Path(o)] = Contents(task[o].record)

(* Every export of a case says what its row says. *)
ExportsAreCurrent ==
  \A d \in Destinations, c \in Cases :
    exports[<<d, c>>] # Nil => /\ Stored(c, "approved") \/ Stored(c, "published")
                              /\ exports[<<d, c>>] = Contents(repository[c])

SerialInv == ExportsAreCurrent /\ \A o \in Operators : CopyIsCurrent(o)

Gate == INSTANCE ApprovalGate WITH granted <- approvals, released <- exports

(* The workflow implements the promise about exports: each step grants a    *)
(* named decision on an assessment that passed the validators, releases a   *)
(* decision granted before, or does neither.                                *)
ImplementsGate == Gate!Spec

Lifecycle == INSTANCE CaseLifecycle

(* One operator at a time, killed anywhere and as often as it may be, takes *)
(* every case through the life CaseLifecycle describes.                     *)
ImplementsLifecycle == Lifecycle!Spec
=============================================================================
