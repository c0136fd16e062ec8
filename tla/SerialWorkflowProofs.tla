------------------------ MODULE SerialWorkflowProofs ------------------------
(* What EvidenceWorkflow adds to its safety when one operator works at a    *)
(* time, for any number of cases and destinations, any provider, and kills  *)
(* wherever they hit: every case takes the life of CaseLifecycle.           *)
EXTENDS EvidenceWorkflowProofs

LEMMA OnlyCopy ==
  ASSUME OneOperator, NEW o \in Operators, CopyIsCurrent(o)', ExportsAreCurrent'
  PROVE  SerialInv'
  <1>1. \A p \in Operators : p = o
    BY DEF OneOperator
  <1> QED BY <1>1 DEF SerialInv

LEMMA RowsKeepExports ==
  ASSUME ExportsAreCurrent, UNCHANGED <<repository, exports>>
  PROVE  ExportsAreCurrent'
  BY DEF ExportsAreCurrent, Stored, Contents

LEMMA FoundRow ==
  ASSUME IInv, NEW c \in Cases, repository[c] # Nil
  PROVE  repository[c] \in Record /\ Coherent(repository[c])
  BY DEF IInv, TypeOK, RecordsAreCoherent

-----------------------------------------------------------------------------
(* Starting a call: its copy is the row that was read.                      *)

LEMMA SerialAnalyzeStarts ==
  ASSUME IInv, SerialInv, OneOperator, NEW o \in Operators, NEW c \in Cases,
         NEW e \in Evidence,
         Analyze(o, c, e) \/ AnalyzeAgain(o, c, e) \/ AnalyzeRetry(o, c, e)
  PROVE  SerialInv'
  <1>1. PICK s \in {"deduplicated", "retried", "rejected", "received"} :
          /\ Begin(o, s, c, Received(e), Nil)
          /\ s # "deduplicated" => Unassessed(c, e)
    BY DEF Analyze, AnalyzeAgain, AnalyzeRetry, Submit, Unassessed, Stored
  <1>2. task'[o] = [step |-> s, case |-> c, attempt |-> 0,
                    record |-> Received(e), destination |-> Nil]
    BY <1>1, ReceivedRecord, BeginMoves DEF Steps
  <1>3. UNCHANGED <<repository, exports>>
    BY <1>1 DEF Begin
  <1>4. CopyIsCurrent(o)'
    BY <1>1, <1>2, <1>3, ReceivedRecord DEF CopyIsCurrent, Unassessed, At
  <1> QED BY <1>3, <1>4, RowsKeepExports, OnlyCopy DEF SerialInv

LEMMA SerialApproveStarts ==
  ASSUME IInv, SerialInv, OneOperator, NEW o \in Operators, NEW c \in Cases,
         NEW r \in Reviewers, Approve(o, c, r)
  PROVE  SerialInv'
  <1> DEFINE rec == [repository[c] EXCEPT !.state = "approved", !.reviewer = r]
  <1>1. Stored(c, "pending_approval") /\ Begin(o, "approving", c, rec, Nil)
    BY DEF Approve
  <1>2. rec \in Record /\ rec.reviewer = r
    BY <1>1, FoundRow DEF Stored, Record, States
  <1>3. task'[o] = [step |-> "approving", case |-> c, attempt |-> 0,
                    record |-> rec, destination |-> Nil]
    BY <1>1, <1>2, BeginMoves DEF Steps
  <1>4. UNCHANGED <<repository, exports>>
    BY <1>1 DEF Begin
  <1>5. /\ task'[o].step = "approving" /\ task'[o].case = c /\ task'[o].record = rec
    BY <1>3
  <1>6. CopyIsCurrent(o)'
    <2>1. Stored(c, "pending_approval")'
      BY <1>1, <1>4 DEF Stored
    <2>2. rec = [repository'[c] EXCEPT !.state = "approved", !.reviewer = rec.reviewer]
      BY <1>2, <1>4
    <2> QED BY <1>5, <2>1, <2>2 DEF CopyIsCurrent, At, Stored
  <1> QED BY <1>4, <1>6, RowsKeepExports, OnlyCopy DEF SerialInv

LEMMA SerialPublishStarts ==
  ASSUME IInv, SerialInv, OneOperator, NEW o \in Operators, NEW c \in Cases,
         NEW d \in Destinations,
         Publish(o, c, d) \/ PublishAgain(o, c, d) \/ PublishEarly(o, c, d)
  PROVE  SerialInv'
  <1>1. PICK s \in {"exporting", "publish_deduplicated", "publish_blocked"} :
          repository[c] # Nil /\ Begin(o, s, c, repository[c], d)
    BY DEF Publish, PublishAgain, PublishEarly, Stored
  <1>2. task'[o] = [step |-> s, case |-> c, attempt |-> 0,
                    record |-> repository[c], destination |-> d]
    BY <1>1, FoundRow, BeginMoves DEF Steps
  <1>3. UNCHANGED <<repository, exports>>
    BY <1>1 DEF Begin
  <1>4. CopyIsCurrent(o)'
    BY <1>1, <1>2, <1>3 DEF CopyIsCurrent, At
  <1> QED BY <1>3, <1>4, RowsKeepExports, OnlyCopy DEF SerialInv

-----------------------------------------------------------------------------
(* Steps that leave the stores alone.                                       *)

LEMMA SerialReturn ==
  ASSUME IInv, SerialInv, OneOperator, NEW o \in Operators, Return(o),
         UNCHANGED <<repository, exports>>
  PROVE  SerialInv'
  <1>1. task'[o].step = "idle"
    BY DEF Return, Idle, IInv, TypeOK
  <1>2. CopyIsCurrent(o)'
    BY <1>1 DEF CopyIsCurrent, At
  <1> QED BY <1>2, RowsKeepExports, OnlyCopy DEF SerialInv

(* Up to the save of an analysis only the submitted evidence matters.       *)
Analysing == {"retried", "rejected", "received", "calling", "retrying",
              "failing", "completing"}

LEMMA SerialAnalysing ==
  ASSUME IInv, SerialInv, OneOperator, NEW o \in Operators,
         task[o].step \in Analysing, task'[o].step \in Analysing,
         task'[o].case = task[o].case,
         task'[o].record.evidence = task[o].record.evidence,
         UNCHANGED <<repository, exports>>
  PROVE  SerialInv'
  <1>1. Unassessed(task[o].case, task[o].record.evidence)
    BY DEF SerialInv, CopyIsCurrent, Analysing
  <1>2. CopyIsCurrent(o)'
    BY <1>1 DEF CopyIsCurrent, Unassessed, Analysing, At
  <1> QED BY <1>2, RowsKeepExports, OnlyCopy DEF SerialInv

LEMMA SerialAnalyzeMoves ==
  ASSUME IInv, SerialInv, OneOperator, NEW o \in Operators,
         \/ LogRetried(o) \/ LogReceived(o) \/ ProviderFails(o) \/ ProviderBusy(o)
         \/ LogRetry(o) \/ \E a \in Assessments : ProviderAnswers(o, a)
  PROVE  SerialInv'
  <1>1. /\ task[o].step \in {"retried", "received", "calling", "retrying"}
        /\ UNCHANGED <<repository, exports>>
    BY DEF LogRetried, LogReceived, ProviderFails, ProviderBusy, LogRetry,
           ProviderAnswers, At
  <1>2. task[o] \in Task /\ task[o].record \in Record
    BY <1>1, RunningCall DEF At
  <1>3. /\ task'[o].step \in Analysing
        /\ task'[o].case = task[o].case
        /\ task'[o].record.evidence = task[o].record.evidence
    <2>1. CASE LogRetried(o) \/ ProviderBusy(o)
      BY <1>2, <2>1 DEF LogRetried, ProviderBusy, Advance, Submit, Analysing,
                        IInv, TypeOK, Task
    <2>2. CASE LogReceived(o)
      BY <1>2, <2>2 DEF LogReceived, Analysing, IInv, TypeOK, Task
    <2>3. CASE ProviderFails(o)
      BY <1>2, <2>3 DEF ProviderFails, Analysing, IInv, TypeOK, Task, Record
    <2>4. CASE LogRetry(o)
      BY <1>2, <2>4 DEF LogRetry, Analysing, IInv, TypeOK, Task, Record
    <2>5. ASSUME NEW a \in Assessments, ProviderAnswers(o, a)
          PROVE  <1>3!:
      BY <1>2, <2>5 DEF ProviderAnswers, Analysing, IInv, TypeOK, Task, Record
    <2> QED BY <2>1, <2>2, <2>3, <2>4, <2>5
  <1> QED BY <1>1, <1>3, SerialAnalysing DEF Analysing

(* o has found or made the file it publishes: what it saves as published    *)
(* is the row it read, and the file says the same.                          *)
LEMMA SerialReceipted ==
  ASSUME IInv, SerialInv, OneOperator, NEW o \in Operators, Receipted(o),
         task[o].step \in {"exporting", "writing"},
         repository' = repository, ExportsAreCurrent',
         exports'[Path(o)] = Contents(task[o].record)
  PROVE  SerialInv'
  <1>1. /\ task[o] \in Task /\ task[o].record \in Record
        /\ TaskShape(task[o])
    BY RunningCall DEF At
  <1>2. /\ repository[task[o].case] = task[o].record
        /\ task[o].record.state = "approved"
        /\ task[o].destination \in Destinations
    BY <1>1 DEF SerialInv, CopyIsCurrent, TaskShape
  <1>3. PICK rec : rec = [task[o].record EXCEPT !.state = "published",
                                                !.receipt = task[o].destination]
    OBVIOUS
  <1>4. /\ task'[o].step = "publishing" /\ task'[o].case = task[o].case
        /\ task'[o].record = rec /\ task'[o].destination = task[o].destination
    BY <1>1, <1>3 DEF Receipted, IInv, TypeOK, Task, Record
  <1>5. Contents(rec) = Contents(task[o].record)
    BY <1>1, <1>3 DEF Contents, Record
  <1>6. repository'[task[o].case] # Nil /\ repository'[task[o].case].state = "approved"
    BY <1>1, <1>2, NoRecordAssumption
  <1>7. exports'[<<task[o].destination, task[o].case>>] = Contents(rec)
    BY <1>5 DEF Path
  <1>8. rec = [repository'[task[o].case] EXCEPT !.state = "published",
                                                !.receipt = task[o].destination]
    BY <1>2, <1>3
  <1>9. CopyIsCurrent(o)'
    BY <1>4, <1>6, <1>7, <1>8 DEF CopyIsCurrent, At, Path, Contents, Stored
  <1> QED BY <1>9, OnlyCopy

LEMMA SerialExportFound ==
  ASSUME IInv, SerialInv, OneOperator, NEW o \in Operators, ExportFound(o)
  PROVE  SerialInv'
  <1>1. /\ task[o].step = "exporting" /\ exports[Path(o)] # Nil
        /\ Receipted(o) /\ UNCHANGED <<repository, exports>>
    BY DEF ExportFound, At
  <1>2. task[o].case \in Cases /\ task[o].destination \in Destinations
    BY <1>1, RunningCall DEF At, TaskShape
  <1>3. repository[task[o].case] = task[o].record
    BY <1>1 DEF SerialInv, CopyIsCurrent
  <1>4. exports[Path(o)] = Contents(task[o].record)
    BY <1>1, <1>2, <1>3 DEF SerialInv, ExportsAreCurrent, Path
  <1>5. ExportsAreCurrent'
    BY <1>1, RowsKeepExports DEF SerialInv
  <1> QED BY <1>1, <1>4, <1>5, SerialReceipted

LEMMA SerialExportMissing ==
  ASSUME IInv, SerialInv, OneOperator, NEW o \in Operators, ExportMissing(o)
  PROVE  SerialInv'
  <1>1. /\ task[o].step = "exporting" /\ exports[Path(o)] = Nil
        /\ Advance(o, "writing") /\ UNCHANGED <<repository, exports>>
    BY DEF ExportMissing, At
  <1>2. /\ task'[o].step = "writing" /\ task'[o].case = task[o].case
        /\ task'[o].record = task[o].record
        /\ task'[o].destination = task[o].destination
    BY <1>1, AdvanceMoves DEF Steps
  <1>3. repository[task[o].case] = task[o].record
    BY <1>1 DEF SerialInv, CopyIsCurrent
  <1>4. CopyIsCurrent(o)'
    BY <1>1, <1>2, <1>3 DEF CopyIsCurrent, At, Path
  <1> QED BY <1>1, <1>4, RowsKeepExports, OnlyCopy DEF SerialInv

LEMMA SerialExportReplace ==
  ASSUME IInv, SerialInv, OneOperator, NEW o \in Operators, ExportReplace(o)
  PROVE  SerialInv'
  <1>1. /\ task[o].step = "writing"
        /\ exports' = [exports EXCEPT ![Path(o)] = Contents(task[o].record)]
        /\ Receipted(o) /\ repository' = repository
    BY DEF ExportReplace, At
  <1>2. /\ task[o].case \in Cases /\ task[o].destination \in Destinations
        /\ task[o].record \in Record /\ task[o].record.state = "approved"
    BY <1>1, RunningCall DEF At, TaskShape
  <1>3. repository[task[o].case] = task[o].record
    BY <1>1 DEF SerialInv, CopyIsCurrent
  <1>4. Stored(task[o].case, "approved")
    BY <1>2, <1>3, NoRecordAssumption DEF Stored
  <1>5. Path(o) \in Destinations \X Cases /\ Path(o) = <<task[o].destination, task[o].case>>
    BY <1>2 DEF Path
  <1>6. exports'[Path(o)] = Contents(task[o].record)
    BY <1>1, <1>5 DEF IInv, TypeOK
  <1>7. ExportsAreCurrent'
    <2> SUFFICES ASSUME NEW d \in Destinations, NEW c \in Cases, exports'[<<d, c>>] # Nil
                 PROVE  /\ Stored(c, "approved") \/ Stored(c, "published")
                        /\ exports'[<<d, c>>] = Contents(repository[c])
      BY <1>1 DEF ExportsAreCurrent, Stored, Contents
    <2>1. CASE <<d, c>> = Path(o)
      BY <1>3, <1>4, <1>5, <1>6, <2>1
    <2>2. CASE <<d, c>> # Path(o)
      BY <1>1, <2>2 DEF SerialInv, ExportsAreCurrent, IInv, TypeOK
    <2> QED BY <2>1, <2>2
  <1> QED BY <1>1, <1>6, <1>7, SerialReceipted

-----------------------------------------------------------------------------
(* Saves: the row becomes the copy, and no export of another row is left.   *)

LEMMA SavedRow ==
  ASSUME IInv, NEW o \in Operators, Save(o), task[o].case \in Cases
  PROVE  /\ repository'[task[o].case] = task[o].record
         /\ \A c \in Cases \ {task[o].case} : repository'[c] = repository[c]
  BY DEF Save, IInv, TypeOK

(* A row that is neither approved nor published has no export. *)
LEMMA SerialSaveExports ==
  ASSUME IInv, SerialInv, NEW o \in Operators, Save(o), task[o].case \in Cases,
         ~ Stored(task[o].case, "approved"), ~ Stored(task[o].case, "published"),
         exports' = exports
  PROVE  ExportsAreCurrent'
  <1> SUFFICES ASSUME NEW d \in Destinations, NEW c \in Cases, exports[<<d, c>>] # Nil
               PROVE  /\ Stored(c, "approved")' \/ Stored(c, "published")'
                      /\ exports[<<d, c>>] = Contents(repository'[c])
    BY DEF ExportsAreCurrent, Contents
  <1>1. c # task[o].case
    BY DEF SerialInv, ExportsAreCurrent
  <1>2. repository'[c] = repository[c]
    BY <1>1, SavedRow
  <1> QED BY <1>2 DEF SerialInv, ExportsAreCurrent, Stored

LEMMA SerialSaveAnalysis ==
  ASSUME IInv, SerialInv, OneOperator, NEW o \in Operators,
         SaveFailed(o) \/ SaveCompleted(o)
  PROVE  SerialInv'
  <1>1. /\ task[o].step \in {"failing", "completing"} /\ Save(o) /\ exports' = exports
        /\ Advance(o, "failed") \/ Advance(o, "completed")
    BY DEF SaveFailed, SaveCompleted, At
  <1>2. task[o].case \in Cases
    BY <1>1, RunningCall DEF At
  <1>3. ~ Stored(task[o].case, "approved") /\ ~ Stored(task[o].case, "published")
    BY <1>1 DEF SerialInv, CopyIsCurrent, Unassessed, Stored
  <1>4. task'[o].step \in {"failed", "completed"}
    BY <1>1, AdvanceMoves DEF Steps
  <1>5. CopyIsCurrent(o)'
    BY <1>4 DEF CopyIsCurrent, At
  <1> QED BY <1>1, <1>2, <1>3, <1>5, SerialSaveExports, OnlyCopy

LEMMA SerialSaveApproved ==
  ASSUME IInv, SerialInv, OneOperator, NEW o \in Operators, SaveApproved(o)
  PROVE  SerialInv'
  <1>1. /\ task[o].step = "approving" /\ Save(o) /\ exports' = exports
        /\ Advance(o, "approved")
    BY DEF SaveApproved, At
  <1>2. task[o].case \in Cases
    BY <1>1, RunningCall DEF At
  <1>3. ~ Stored(task[o].case, "approved") /\ ~ Stored(task[o].case, "published")
    BY <1>1 DEF SerialInv, CopyIsCurrent, Stored, At
  <1>4. /\ task'[o].step = "approved" /\ task'[o].case = task[o].case
        /\ task'[o].record = task[o].record
    BY <1>1, AdvanceMoves DEF Steps
  <1>5. CopyIsCurrent(o)'
    BY <1>1, <1>2, <1>4, SavedRow DEF CopyIsCurrent, At
  <1> QED BY <1>1, <1>2, <1>3, <1>5, SerialSaveExports, OnlyCopy

LEMMA SerialSavePublished ==
  ASSUME IInv, SerialInv, OneOperator, NEW o \in Operators, SavePublished(o)
  PROVE  SerialInv'
  <1>1. /\ task[o].step = "publishing" /\ Save(o) /\ exports' = exports
        /\ Advance(o, "published")
    BY DEF SavePublished, At
  <1>2. /\ task[o].case \in Cases /\ task[o].record \in Record
        /\ task[o].record.state = "published"
    BY <1>1, RunningCall DEF At, TaskShape
  <1>3. /\ Stored(task[o].case, "approved")
        /\ task[o].record = [repository[task[o].case] EXCEPT
                              !.state = "published", !.receipt = task[o].destination]
    BY <1>1 DEF SerialInv, CopyIsCurrent, At
  <1>4. Contents(task[o].record) = Contents(repository[task[o].case])
    BY <1>2, <1>3, FoundRow DEF Contents, Stored, Record
  <1>5. ExportsAreCurrent'
    <2> SUFFICES ASSUME NEW d \in Destinations, NEW c \in Cases, exports[<<d, c>>] # Nil
                 PROVE  /\ Stored(c, "approved")' \/ Stored(c, "published")'
                        /\ exports[<<d, c>>] = Contents(repository'[c])
      BY <1>1 DEF ExportsAreCurrent, Contents
    <2>1. /\ Stored(c, "approved") \/ Stored(c, "published")
          /\ exports[<<d, c>>] = Contents(repository[c])
      BY DEF SerialInv, ExportsAreCurrent
    <2>2. CASE c = task[o].case
      BY <1>1, <1>2, <1>4, <2>1, <2>2, SavedRow, NoRecordAssumption DEF Stored
    <2>3. CASE c # task[o].case
      BY <1>1, <1>2, <2>1, <2>3, SavedRow DEF Stored
    <2> QED BY <2>2, <2>3
  <1>6. task'[o].step = "published"
    BY <1>1, AdvanceMoves DEF Steps
  <1>7. CopyIsCurrent(o)'
    BY <1>6 DEF CopyIsCurrent, At
  <1> QED BY <1>5, <1>7, OnlyCopy

-----------------------------------------------------------------------------

LEMMA SerialStep ==
  ASSUME IInv, SerialInv, OneOperator, NEW o \in Operators, Step(o) \/ Interrupt(o)
  PROVE  SerialInv'
  <1>1. CASE \/ LogDeduplicated(o) \/ LogRejected(o) \/ ProviderRaises(o)
             \/ Conflict(o, "failing") \/ LogFailed(o)
             \/ Conflict(o, "completing") \/ LogCompleted(o) \/ LogApproved(o)
             \/ LogPublishDeduplicated(o) \/ LogPublishBlocked(o)
             \/ ExportDiffers(o) \/ LogPublished(o) \/ Interrupt(o)
    <2>1. Return(o) /\ UNCHANGED <<repository, exports>>
      BY <1>1 DEF LogDeduplicated, LogRejected, ProviderRaises, Conflict, LogFailed,
                  LogCompleted, LogApproved, LogPublishDeduplicated,
                  LogPublishBlocked, ExportDiffers, LogPublished, Interrupt
    <2> QED BY <2>1, SerialReturn
  <1>2. CASE \/ LogRetried(o) \/ LogReceived(o) \/ ProviderFails(o)
             \/ ProviderBusy(o) \/ LogRetry(o)
             \/ \E a \in Assessments : ProviderAnswers(o, a)
    BY <1>2, SerialAnalyzeMoves
  <1>3. CASE \/ SaveFailed(o) \/ SaveCompleted(o) \/ SaveApproved(o) \/ SavePublished(o)
    BY <1>3, SerialSaveAnalysis, SerialSaveApproved, SerialSavePublished
  <1>4. CASE ExportFound(o) \/ ExportMissing(o) \/ ExportReplace(o)
    BY <1>4, SerialExportFound, SerialExportMissing, SerialExportReplace
  <1> QED BY <1>1, <1>2, <1>3, <1>4 DEF Step, AnalyzeStep, ApproveStep, PublishStep

LEMMA SerialNext ==
  ASSUME OneOperator
  PROVE  IInv /\ SerialInv /\ [Next]_vars => SerialInv'
  <1> SUFFICES ASSUME IInv, SerialInv, [Next]_vars PROVE SerialInv'
    OBVIOUS
  <1>1. CASE UNCHANGED vars
    BY <1>1 DEF vars, SerialInv, ExportsAreCurrent, CopyIsCurrent, Unassessed,
                Stored, Contents, Path, At
  <1>2. ASSUME NEW o \in Operators, Start(o)
        PROVE  SerialInv'
    BY <1>2, SerialAnalyzeStarts, SerialApproveStarts, SerialPublishStarts DEF Start
  <1>3. ASSUME NEW o \in Operators, Step(o) \/ Interrupt(o)
        PROVE  SerialInv'
    BY <1>3, SerialStep
  <1> QED BY <1>1, <1>2, <1>3 DEF Next

LEMMA SerialInit == Init => SerialInv
  BY DEF Init, SerialInv, ExportsAreCurrent, CopyIsCurrent, At, Idle

LEMMA SerialInvariance ==
  ASSUME OneOperator
  PROVE  Spec => []SerialInv
  <1>1. IInv /\ SerialInv /\ [Next]_vars => SerialInv'
    BY SerialNext
  <1> QED BY <1>1, SerialInit, Invariance, PTL DEF Spec

(* With one operator at a time an approved case is never stuck behind an    *)
(* export of another assessment: the publisher's comparison                 *)
(* (persistence.py:119-122) refuses only what two operators can bring about.*)
THEOREM ApprovedExportable ==
  ASSUME OneOperator
  PROVE  Spec => []ApprovedCanBeExported
  <1>1. ExportsAreCurrent => ApprovedCanBeExported
    <2> SUFFICES ASSUME ExportsAreCurrent, NEW c \in Cases, NEW d \in Destinations,
                        exports[<<d, c>>] # Nil
                 PROVE  SameKey(exports[<<d, c>>], repository[c])
      BY DEF ApprovedCanBeExported
    <2>1. exports[<<d, c>>] = Contents(repository[c])
      BY DEF ExportsAreCurrent
    <2> QED BY <2>1 DEF SameKey, Contents
  <1>2. SerialInv => ExportsAreCurrent
    BY DEF SerialInv
  <1> QED BY <1>1, <1>2, SerialInvariance, PTL

-----------------------------------------------------------------------------
(* Refinement of CaseLifecycle *)

LEMMA LifecycleInit == Init => Lifecycle!Init
  BY DEF Init, Lifecycle!Init

(* The record an analysis saves has only what Fail or Propose puts there.   *)
LEMMA AnalysedRecord ==
  ASSUME NEW rec \in Record, Coherent(rec), rec.state \in {"failed", "pending_approval"}
  PROVE  rec = Lifecycle!Record(rec.state, rec.evidence, rec.assessment, Nil, Nil)
  <1>1. rec.reviewer = Nil /\ rec.receipt = Nil
    BY DEF Coherent
  <1> QED BY <1>1 DEF Record, Lifecycle!Record

LEMMA LifecycleAnalysis ==
  ASSUME IInv, SerialInv, NEW o \in Operators, SaveFailed(o) \/ SaveCompleted(o)
  PROVE  Lifecycle!Next
  <1>1. /\ task[o].step \in {"failing", "completing"} /\ Save(o) /\ exports' = exports
        /\ SaveFailed(o) => task[o].step = "failing"
        /\ SaveCompleted(o) => task[o].step = "completing"
    BY DEF SaveFailed, SaveCompleted, At
  <1>2. PICK c \in Cases : c = task[o].case
    BY <1>1, RunningCall DEF At
  <1>3. PICK rec \in Record : rec = task[o].record
    BY <1>1, RunningCall DEF At
  <1>4. /\ Coherent(rec)
        /\ rec.state = IF SaveFailed(o) THEN "failed" ELSE "pending_approval"
    BY <1>1, <1>3, RunningCall DEF At, TaskShape
  <1>5. rec = Lifecycle!Record(rec.state, rec.evidence, rec.assessment, Nil, Nil)
    BY <1>4, AnalysedRecord
  <1>6. Lifecycle!Open(c, rec.evidence)
    BY <1>1, <1>2, <1>3
       DEF SerialInv, CopyIsCurrent, Unassessed, Lifecycle!Open, Lifecycle!In
  <1>7. repository' = [repository EXCEPT ![c] = rec]
    BY <1>1, <1>2, <1>3 DEF Save
  <1>8. rec.evidence \in Evidence
    BY DEF Record
  <1>9. CASE SaveFailed(o)
    <2>1. rec.assessment = Nil /\ rec.state = "failed"
      BY <1>4, <1>9 DEF Coherent
    <2>2. Lifecycle!Fail(c, rec.evidence)
      BY <1>1, <1>5, <1>6, <1>7, <2>1 DEF Lifecycle!Fail
    <2> QED BY <1>8, <2>2 DEF Lifecycle!Next
  <1>10. CASE ~ SaveFailed(o)
    <2>1. /\ rec.assessment # Nil /\ rec.state = "pending_approval"
          /\ <<rec.evidence, rec.assessment>> \in Grounded
      BY <1>4, <1>10 DEF Coherent
    <2>2. rec.assessment \in Assessments
      BY <2>1 DEF Record
    <2>3. Lifecycle!Propose(c, rec.evidence, rec.assessment)
      BY <1>1, <1>5, <1>6, <1>7, <2>1 DEF Lifecycle!Propose
    <2> QED BY <1>8, <2>2, <2>3 DEF Lifecycle!Next
  <1> QED BY <1>9, <1>10

LEMMA LifecycleApproval ==
  ASSUME IInv, SerialInv, NEW o \in Operators, SaveApproved(o)
  PROVE  Lifecycle!Next
  <1>1. /\ task[o].step = "approving" /\ exports' = exports
        /\ repository' = [repository EXCEPT ![task[o].case] = task[o].record]
    BY DEF SaveApproved, Save, At
  <1>2. PICK c \in Cases : c = task[o].case
    BY <1>1, RunningCall DEF At
  <1>3. PICK r : r = task[o].record.reviewer
    OBVIOUS
  <1>4. r \in Named
    <2>1. /\ task[o].record \in Record /\ Coherent(task[o].record)
          /\ task[o].record.state = "approved"
      BY <1>1, RunningCall DEF At, TaskShape
    <2> QED BY <1>3, <2>1 DEF Coherent, Record, Named
  <1>5. /\ Stored(c, "pending_approval")
        /\ task[o].record = [repository[c] EXCEPT !.state = "approved", !.reviewer = r]
    BY <1>1, <1>2, <1>3 DEF SerialInv, CopyIsCurrent, At
  <1>6. repository' = [repository EXCEPT ![c].state = "approved", ![c].reviewer = r]
    BY <1>1, <1>2, <1>5 DEF IInv, TypeOK
  <1>7. Lifecycle!Approve(c, r)
    BY <1>1, <1>5, <1>6 DEF Stored, Lifecycle!Approve, Lifecycle!In
  <1> QED BY <1>4, <1>7 DEF Lifecycle!Next

LEMMA LifecycleRelease ==
  ASSUME IInv, SerialInv, NEW o \in Operators, ExportReplace(o)
  PROVE  Lifecycle!Next
  <1>1. /\ task[o].step = "writing" /\ repository' = repository
        /\ exports' = [exports EXCEPT ![Path(o)] = Contents(task[o].record)]
    BY DEF ExportReplace, At
  <1>2. /\ task[o].case \in Cases /\ task[o].destination \in Destinations
        /\ task[o].record \in Record /\ task[o].record.state = "approved"
    BY <1>1, RunningCall DEF At, TaskShape
  <1>3. repository[task[o].case] = task[o].record /\ exports[Path(o)] = Nil
    BY <1>1 DEF SerialInv, CopyIsCurrent, At
  <1>4. Lifecycle!In(task[o].case, "approved")
    BY <1>2, <1>3, NoRecordAssumption DEF Lifecycle!In
  <1>5. Lifecycle!Release(task[o].case, task[o].destination)
    BY <1>1, <1>3, <1>4 DEF Path, Contents, Lifecycle!Release, Lifecycle!Contents
  <1> QED BY <1>2, <1>5 DEF Lifecycle!Next

LEMMA LifecyclePublication ==
  ASSUME IInv, SerialInv, NEW o \in Operators, SavePublished(o)
  PROVE  Lifecycle!Next
  <1>1. /\ task[o].step = "publishing" /\ exports' = exports
        /\ repository' = [repository EXCEPT ![task[o].case] = task[o].record]
    BY DEF SavePublished, Save, At
  <1>2. PICK c \in Cases, d \in Destinations : c = task[o].case /\ d = task[o].destination
    BY <1>1, RunningCall DEF At, TaskShape
  <1>3. /\ Stored(c, "approved")
        /\ task[o].record = [repository[c] EXCEPT !.state = "published", !.receipt = d]
        /\ exports[<<d, c>>] = Contents(task[o].record)
    BY <1>1, <1>2 DEF SerialInv, CopyIsCurrent, At, Path
  <1>4. Contents(task[o].record) = Lifecycle!Contents(repository[c])
    BY <1>3, FoundRow DEF Stored, Record, Contents, Lifecycle!Contents
  <1>5. repository' = [repository EXCEPT ![c].state = "published", ![c].receipt = d]
    BY <1>1, <1>2, <1>3 DEF IInv, TypeOK
  <1>6. Lifecycle!Publish(c, d)
    BY <1>1, <1>3, <1>4, <1>5 DEF Stored, Lifecycle!Publish, Lifecycle!In
  <1> QED BY <1>6 DEF Lifecycle!Next

(* One operator at a time, killed anywhere and as often as it may be, takes *)
(* every case through the life of CaseLifecycle: each save and each         *)
(* os.replace is its step of that life, and nothing else touches a row or   *)
(* an export.                                                               *)
THEOREM LifecycleImplemented ==
  ASSUME OneOperator
  PROVE  Spec => ImplementsLifecycle
  <1>1. IInv /\ SerialInv /\ [Next]_vars => [Lifecycle!Next]_(Lifecycle!vars)
    <2> SUFFICES ASSUME IInv, SerialInv, [Next]_vars
                 PROVE  Lifecycle!Next \/ UNCHANGED Lifecycle!vars
      OBVIOUS
    <2>1. CASE UNCHANGED <<repository, exports, approvals>>
      BY <2>1 DEF Lifecycle!vars
    <2>2. ASSUME NEW o \in Operators, Stores(o)
          PROVE  Lifecycle!Next
      BY <2>2, LifecycleAnalysis, LifecycleApproval, LifecycleRelease,
         LifecyclePublication DEF Stores
    <2> QED BY <2>1, <2>2, StoreSteps
  <1> QED BY <1>1, LifecycleInit, Invariance, SerialInvariance, PTL
          DEF Spec, ImplementsLifecycle, Lifecycle!Spec
=============================================================================
