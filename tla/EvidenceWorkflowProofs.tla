----------------------- MODULE EvidenceWorkflowProofs -----------------------
(* Safety of EvidenceWorkflow for any number of operators, cases and        *)
(* destinations, any number of attempts, any provider and any interruption. *)
EXTENDS EvidenceWorkflow, TLAPS

(* Operators other than o are where they were. *)
Moves(o) == /\ task' \in [Operators -> Task]
            /\ \A p \in Operators \ {o} : task'[p] = task[p]

(* What steps of others may do to the state an operator relies on. *)
Grows == /\ approvals \subseteq approvals'
         /\ \A c \in Cases : repository[c] # Nil => repository'[c] # Nil
         /\ \A path \in Destinations \X Cases : exports[path] # Nil => exports'[path] # Nil

(* What a call relies on survives every step that only adds.                *)
LEMMA BackingSurvives ==
  ASSUME NEW o \in Operators, task[o] \in Task, TaskOK(o), task'[o] = task[o], Grows
  PROVE  TaskOK(o)'
  <1>1. CASE At(o, "idle")
    BY <1>1 DEF TaskOK, At
  <1>2. CASE ~ At(o, "idle")
    <2>1. task[o].case \in Cases /\ task[o].record \in Record
          /\ TaskShape(task[o]) /\ TaskBacked(o)
      BY <1>2 DEF TaskOK
    <2>2. TaskShape(task[o])'
      BY <2>1 DEF TaskShape, Coherent
    <2>3. TaskBacked(o)'
      <3>1. task[o].step \in {"publishing", "published"} => Path(o) \in Destinations \X Cases
        BY <2>1 DEF TaskShape, Path
      <3> QED BY <2>1, <3>1 DEF TaskBacked, Grows, Path, Contents
    <2> QED BY <2>1, <2>2, <2>3 DEF TaskOK, At
  <1> QED BY <1>1, <1>2

LEMMA OthersKeep ==
  ASSUME IInv, NEW o \in Operators, Moves(o), Grows, TaskOK(o)'
  PROVE  (\A p \in Operators : TaskOK(p))'
  <1> SUFFICES ASSUME NEW p \in Operators PROVE TaskOK(p)'
    OBVIOUS
  <1>1. CASE p = o
    BY <1>1
  <1>2. CASE p # o
    <2>1. task[p] \in Task /\ TaskOK(p) /\ task'[p] = task[p]
      BY <1>2 DEF IInv, TypeOK, Moves
    <2> QED BY <2>1, BackingSurvives
  <1> QED BY <1>1, <1>2

-----------------------------------------------------------------------------
(* Steps that leave the stores alone: o moves on, and may append to the log *)
(* an event that the stores bear out.                                       *)

LEMMA StoresKept ==
  ASSUME IInv, NEW o \in Operators, Moves(o), TaskOK(o)',
         UNCHANGED <<repository, exports, approvals>>,
         (audit \subseteq Entry)'
  PROVE  IInv'
  <1>1. Grows
    BY DEF Grows
  <1>2. (\A p \in Operators : TaskOK(p))'
    BY <1>1, OthersKeep
  <1>3. TypeOK'
    BY DEF IInv, TypeOK, Moves
  <1>4. (RecordsAreCoherent /\ RowsAreApproved /\ ApprovalsAreGrounded
           /\ ExportsAreApproved)'
    BY DEF IInv, RecordsAreCoherent, RowsAreApproved, ApprovalsAreGrounded,
           ExportsAreApproved, Coherent, Stored, Contents
  <1> QED BY <1>2, <1>3, <1>4 DEF IInv

LEMMA LogIsTyped ==
  ASSUME IInv, NEW o \in Operators, task[o].case \in Cases,
         NEW event \in Events, NEW detail \in Reviewers \cup Destinations \cup {Nil},
         Log(o, event, detail)
  PROVE  (audit \subseteq Entry)'
  BY DEF Log, IInv, TypeOK, Entry

(* Returning, and going on with a copy that fits the next step.             *)
LEMMA ReturnMoves ==
  ASSUME IInv, NEW o \in Operators, Return(o)
  PROVE  Moves(o) /\ TaskOK(o)'
  <1>1. Idle \in Task
    BY AttemptsAssumption DEF Idle, Task, Steps
  <1>2. Moves(o) /\ task'[o] = Idle
    BY <1>1 DEF IInv, TypeOK, Return, Moves
  <1> QED BY <1>2 DEF TaskOK, At, Idle

LEMMA BeginMoves ==
  ASSUME IInv, NEW o \in Operators, NEW s \in Steps, NEW c \in Cases,
         NEW rec \in Record, NEW d \in Destinations \cup {Nil},
         Begin(o, s, c, rec, d)
  PROVE  /\ Moves(o)
         /\ task'[o] = [step |-> s, case |-> c, attempt |-> 0, record |-> rec,
                        destination |-> d]
  BY AttemptsAssumption DEF Begin, IInv, TypeOK, Moves, Task

LEMMA EditMoves ==
  ASSUME IInv, NEW o \in Operators, NEW t \in Task, task' = [task EXCEPT ![o] = t]
  PROVE  Moves(o) /\ task'[o] = t
  BY DEF IInv, TypeOK, Moves

(* o goes on with another attempt. *)
LEMMA EditAttempt ==
  ASSUME IInv, NEW o \in Operators, task[o] \in Task, NEW s \in Steps,
         NEW n \in 0 .. Attempts,
         task' = [task EXCEPT ![o] = [task[o] EXCEPT !.step = s, !.attempt = n]]
  PROVE  /\ Moves(o)
         /\ task'[o].step = s /\ task'[o].case = task[o].case
         /\ task'[o].record = task[o].record
  <1>1. PICK t : t = [task[o] EXCEPT !.step = s, !.attempt = n]
    OBVIOUS
  <1>2. /\ t \in Task
        /\ t.step = s /\ t.case = task[o].case /\ t.record = task[o].record
    BY <1>1 DEF Task
  <1> QED BY <1>1, <1>2, EditMoves

LEMMA AdvanceMoves ==
  ASSUME IInv, NEW o \in Operators, NEW s \in Steps, Advance(o, s)
  PROVE  /\ Moves(o)
         /\ task'[o] = [task[o] EXCEPT !.step = s]
         /\ task'[o].step = s /\ task'[o].case = task[o].case
         /\ task'[o].record = task[o].record
         /\ task'[o].destination = task[o].destination
  <1>1. task[o] \in Task
    BY DEF IInv, TypeOK
  <1>2. [task[o] EXCEPT !.step = s] \in Task
    BY <1>1 DEF Task
  <1> QED BY <1>1, <1>2 DEF Advance, IInv, TypeOK, Moves, Task

LEMMA RunningCall ==
  ASSUME IInv, NEW o \in Operators, ~ At(o, "idle")
  PROVE  /\ task[o] \in Task
         /\ task[o].case \in Cases
         /\ task[o].record \in Record
         /\ TaskShape(task[o])
         /\ TaskBacked(o)
  BY DEF IInv, TypeOK, TaskOK

-----------------------------------------------------------------------------
(* analyze *)

LEMMA ReceivedRecord ==
  ASSUME NEW e \in Evidence
  PROVE  Received(e) \in Record /\ Received(e).evidence = e
  BY DEF Received, Record, States

(* A step that only moves o preserves the log as well as the stores. *)
LEMMA MoveKeeps ==
  ASSUME IInv, NEW o \in Operators, Moves(o), TaskOK(o)',
         UNCHANGED <<repository, exports, audit, approvals>>
  PROVE  IInv'
  <1>1. (audit \subseteq Entry)'
    BY DEF IInv, TypeOK
  <1> QED BY <1>1, StoresKept

LEMMA AnalyzeStarts ==
  ASSUME IInv, NEW o \in Operators, NEW c \in Cases, NEW e \in Evidence,
         Analyze(o, c, e) \/ AnalyzeAgain(o, c, e) \/ AnalyzeRetry(o, c, e)
  PROVE  IInv'
  <1>1. PICK s \in {"deduplicated", "retried", "rejected", "received"} :
          Begin(o, s, c, Received(e), Nil)
    BY DEF Analyze, AnalyzeAgain, AnalyzeRetry, Submit
  <1>2. /\ Moves(o)
        /\ task'[o] = [step |-> s, case |-> c, attempt |-> 0,
                       record |-> Received(e), destination |-> Nil]
    BY <1>1, ReceivedRecord, BeginMoves DEF Steps
  <1>3. TaskOK(o)'
    BY <1>2, ReceivedRecord DEF TaskOK, TaskShape, TaskBacked
  <1> QED BY <1>1, <1>2, <1>3, MoveKeeps DEF Begin

(* Appending an event about nothing stored, then returning. *)
LEMMA LogAndReturn ==
  ASSUME IInv, NEW o \in Operators, ~ At(o, "idle"), Return(o),
         NEW event \in Events \ Transitions, Log(o, event, Nil),
         UNCHANGED <<repository, exports, approvals>>
  PROVE  IInv'
  <1>1. (audit \subseteq Entry)'
    BY RunningCall, LogIsTyped
  <1>2. Moves(o) /\ TaskOK(o)'
    BY ReturnMoves
  <1> QED BY <1>1, <1>2, StoresKept

LEMMA LogsKeep ==
  ASSUME IInv, NEW o \in Operators,
         \/ LogDeduplicated(o) \/ LogRejected(o)
         \/ LogPublishDeduplicated(o) \/ LogPublishBlocked(o)
  PROVE  IInv'
  <1>1. PICK event \in Events \ Transitions : Log(o, event, Nil)
    BY DEF LogDeduplicated, LogRejected, LogPublishDeduplicated,
           LogPublishBlocked, Events, Transitions
  <1>2. ~ At(o, "idle") /\ Return(o) /\ UNCHANGED <<repository, exports, approvals>>
    BY DEF LogDeduplicated, LogRejected, LogPublishDeduplicated,
           LogPublishBlocked, At
  <1> QED BY <1>1, <1>2, LogAndReturn

(* Copies of the record in the steps before anything is saved. *)
LEMMA FreshCopy ==
  ASSUME IInv, NEW o \in Operators, TaskShape(task[o]),
         task[o].step \in {"retried", "received", "calling", "retrying"},
         task[o].record \in Record
  PROVE  /\ task[o].record = Received(task[o].record.evidence)
         /\ task[o].record.state = "received"
         /\ task[o].record.assessment = Nil
         /\ task[o].record.reviewer = Nil
         /\ task[o].record.receipt = Nil
  BY DEF TaskShape, Received

LEMMA LogRetriedKeeps ==
  ASSUME IInv, NEW o \in Operators, LogRetried(o)
  PROVE  IInv'
  <1>1. /\ task[o].step = "retried"
        /\ Log(o, "analysis_retried", Nil)
        /\ Advance(o, Submit(task[o].record.evidence))
        /\ UNCHANGED <<repository, exports, approvals>>
    BY DEF LogRetried, At
  <1>2. task[o].case \in Cases /\ task[o].record \in Record /\ TaskShape(task[o])
    BY <1>1, RunningCall DEF At
  <1>3. PICK s \in {"received", "rejected"} : Advance(o, s)
    BY <1>1 DEF Submit
  <1>4. /\ Moves(o)
        /\ task'[o].step = s /\ task'[o].case = task[o].case
        /\ task'[o].record = task[o].record
    BY <1>3, AdvanceMoves DEF Steps
  <1>5. TaskOK(o)'
    BY <1>1, <1>2, <1>4, FreshCopy DEF TaskOK, TaskShape, TaskBacked, At
  <1>6. (audit \subseteq Entry)'
    BY <1>1, <1>2, LogIsTyped DEF Transitions, Events
  <1> QED BY <1>1, <1>4, <1>5, <1>6, StoresKept

LEMMA LogReceivedKeeps ==
  ASSUME IInv, NEW o \in Operators, LogReceived(o)
  PROVE  IInv'
  <1>1. /\ task[o].step = "received"
        /\ Log(o, "case_received", Nil)
        /\ task' = [task EXCEPT ![o].step = "calling", ![o].attempt = 1]
        /\ UNCHANGED <<repository, exports, approvals>>
    BY DEF LogReceived, At
  <1>2. /\ task[o] \in Task /\ task[o].case \in Cases
        /\ task[o].record \in Record /\ TaskShape(task[o])
    BY <1>1, RunningCall DEF At
  <1>3. /\ Moves(o)
        /\ task'[o].step = "calling" /\ task'[o].case = task[o].case
        /\ task'[o].record = task[o].record
    <2>1. 1 \in 0 .. Attempts
      BY AttemptsAssumption
    <2>2. task' = [task EXCEPT ![o] = [task[o] EXCEPT !.step = "calling",
                                                      !.attempt = 1]]
      BY <1>1, <1>2 DEF IInv, TypeOK
    <2> QED BY <1>2, <2>1, <2>2, EditAttempt DEF Steps
  <1>4. TaskOK(o)'
    BY <1>1, <1>2, <1>3, FreshCopy DEF TaskOK, TaskShape, TaskBacked, At
  <1>5. (audit \subseteq Entry)'
    BY <1>1, <1>2, LogIsTyped DEF Transitions, Events
  <1> QED BY <1>1, <1>3, <1>4, <1>5, StoresKept

(* The copies that are about to be saved. *)
LEMMA CompletedCopy ==
  ASSUME IInv, NEW o \in Operators, TaskShape(task[o]), task[o].step = "calling",
         task[o].record \in Record, NEW a \in Assessments,
         <<task[o].record.evidence, a>> \in Grounded,
         NEW rec, rec = [task[o].record EXCEPT !.assessment = a,
                                               !.state = "pending_approval"]
  PROVE  rec \in Record /\ rec.state = "pending_approval" /\ Coherent(rec)
  <1>1. rec \in Record
    BY DEF Record, States
  <1>2. a # Nil /\ Nil \notin Blank
    BY NilAssumption, SetsAssumption
  <1> QED BY <1>1, <1>2, FreshCopy DEF Coherent, Record

LEMMA FailedCopy ==
  ASSUME IInv, NEW o \in Operators, TaskShape(task[o]),
         task[o].step \in {"calling", "retrying"}, task[o].record \in Record,
         NEW rec, rec = [task[o].record EXCEPT !.state = "failed"]
  PROVE  rec \in Record /\ rec.state = "failed" /\ Coherent(rec)
  <1>1. rec \in Record
    BY DEF Record, States
  <1>2. Nil \notin Blank
    BY NilAssumption, SetsAssumption
  <1> QED BY <1>1, <1>2, FreshCopy DEF Coherent, Record

(* o goes on with another copy of the record. *)
LEMMA EditCopy ==
  ASSUME IInv, NEW o \in Operators, task[o] \in Task, NEW s \in Steps,
         NEW rec \in Record,
         task' = [task EXCEPT ![o] = [task[o] EXCEPT !.step = s, !.record = rec]]
  PROVE  /\ Moves(o)
         /\ task'[o].step = s /\ task'[o].case = task[o].case
         /\ task'[o].record = rec /\ task'[o].destination = task[o].destination
  <1>1. PICK t : t = [task[o] EXCEPT !.step = s, !.record = rec]
    OBVIOUS
  <1>2. /\ t \in Task
        /\ t.step = s /\ t.case = task[o].case
        /\ t.record = rec /\ t.destination = task[o].destination
    BY <1>1 DEF Task
  <1> QED BY <1>1, <1>2, EditMoves

LEMMA ProviderAnswersKeeps ==
  ASSUME IInv, NEW o \in Operators, NEW a \in Assessments, ProviderAnswers(o, a)
  PROVE  IInv'
  <1>1. /\ task[o].step = "calling"
        /\ <<task[o].record.evidence, a>> \in Grounded
        /\ task' = [task EXCEPT ![o].step = "completing",
                                ![o].record.assessment = a,
                                ![o].record.state = "pending_approval"]
        /\ UNCHANGED <<repository, exports, audit, approvals>>
    BY DEF ProviderAnswers, At
  <1>2. /\ task[o] \in Task /\ task[o].case \in Cases
        /\ task[o].record \in Record /\ TaskShape(task[o])
    BY <1>1, RunningCall DEF At
  <1>3. PICK rec : rec = [task[o].record EXCEPT !.assessment = a,
                                                !.state = "pending_approval"]
    OBVIOUS
  <1>4. rec \in Record /\ rec.state = "pending_approval" /\ Coherent(rec)
    BY <1>1, <1>2, <1>3, CompletedCopy
  <1>5. task' = [task EXCEPT ![o] = [task[o] EXCEPT !.step = "completing",
                                                    !.record = rec]]
    BY <1>1, <1>2, <1>3 DEF IInv, TypeOK
  <1>6. /\ Moves(o)
        /\ task'[o].step = "completing" /\ task'[o].case = task[o].case
        /\ task'[o].record = rec
    BY <1>2, <1>4, <1>5, EditCopy DEF Steps
  <1>7. TaskOK(o)'
    BY <1>2, <1>4, <1>6 DEF TaskOK, TaskShape, TaskBacked, At, Coherent
  <1> QED BY <1>1, <1>6, <1>7, MoveKeeps

(* o goes on to save its record as failed, having perhaps logged a retry.   *)
LEMMA FailingCopy ==
  ASSUME IInv, NEW o \in Operators, task[o].step \in {"calling", "retrying"},
         task' = [task EXCEPT ![o].step = "failing", ![o].record.state = "failed"]
  PROVE  Moves(o) /\ TaskOK(o)'
  <1>1. /\ task[o] \in Task /\ task[o].case \in Cases
        /\ task[o].record \in Record /\ TaskShape(task[o])
    BY RunningCall DEF At
  <1>2. PICK rec : rec = [task[o].record EXCEPT !.state = "failed"]
    OBVIOUS
  <1>3. rec \in Record /\ rec.state = "failed" /\ Coherent(rec)
    BY <1>1, <1>2, FailedCopy
  <1>4. task' = [task EXCEPT ![o] = [task[o] EXCEPT !.step = "failing",
                                                    !.record = rec]]
    BY <1>1, <1>2 DEF IInv, TypeOK
  <1>5. /\ Moves(o)
        /\ task'[o].step = "failing" /\ task'[o].case = task[o].case
        /\ task'[o].record = rec
    BY <1>1, <1>3, <1>4, EditCopy DEF Steps
  <1>6. TaskOK(o)'
    BY <1>1, <1>3, <1>5 DEF TaskOK, TaskShape, TaskBacked, At, Coherent
  <1> QED BY <1>5, <1>6

LEMMA ProviderFailsKeeps ==
  ASSUME IInv, NEW o \in Operators, ProviderFails(o)
  PROVE  IInv'
  BY FailingCopy, MoveKeeps DEF ProviderFails, At

LEMMA ProviderBusyKeeps ==
  ASSUME IInv, NEW o \in Operators, ProviderBusy(o)
  PROVE  IInv'
  <1>1. /\ task[o].step = "calling"
        /\ UNCHANGED <<repository, exports, audit, approvals>>
    BY DEF ProviderBusy, At
  <1>2. task[o].case \in Cases /\ task[o].record \in Record /\ TaskShape(task[o])
    BY <1>1, RunningCall DEF At
  <1>3. /\ Moves(o)
        /\ task'[o].step = "retrying" /\ task'[o].case = task[o].case
        /\ task'[o].record = task[o].record
    BY AdvanceMoves DEF ProviderBusy, Steps
  <1>4. TaskOK(o)'
    BY <1>1, <1>2, <1>3, FreshCopy DEF TaskOK, TaskShape, TaskBacked, At
  <1> QED BY <1>1, <1>3, <1>4, MoveKeeps

LEMMA LogRetryKeeps ==
  ASSUME IInv, NEW o \in Operators, LogRetry(o)
  PROVE  IInv'
  <1>1. /\ task[o].step = "retrying"
        /\ Log(o, "provider_retry", Nil)
        /\ UNCHANGED <<repository, exports, approvals>>
    BY DEF LogRetry, At
  <1>2. /\ task[o] \in Task /\ task[o].case \in Cases
        /\ task[o].record \in Record /\ TaskShape(task[o])
    BY <1>1, RunningCall DEF At
  <1>3. (audit \subseteq Entry)'
    BY <1>1, <1>2, LogIsTyped DEF Transitions, Events
  <1>4. Moves(o) /\ TaskOK(o)'
    <2>1. CASE task[o].attempt = Attempts
      BY <1>1, <2>1, FailingCopy DEF LogRetry
    <2>2. CASE task[o].attempt # Attempts
      <3>1. task[o].attempt + 1 \in 0 .. Attempts
        <4>1. task[o].attempt \in 0 .. Attempts
          BY <1>2 DEF Task
        <4> QED BY <2>2, <4>1, AttemptsAssumption
      <3>2. task' = [task EXCEPT ![o] = [task[o] EXCEPT !.step = "calling",
                                           !.attempt = task[o].attempt + 1]]
        BY <1>2, <2>2 DEF LogRetry, IInv, TypeOK
      <3>3. /\ Moves(o)
            /\ task'[o].step = "calling" /\ task'[o].case = task[o].case
            /\ task'[o].record = task[o].record
        BY <1>2, <3>1, <3>2, EditAttempt DEF Steps
      <3>4. TaskOK(o)'
        BY <1>1, <1>2, <3>3, FreshCopy DEF TaskOK, TaskShape, TaskBacked, At
      <3> QED BY <3>3, <3>4
    <2> QED BY <2>1, <2>2
  <1> QED BY <1>1, <1>3, <1>4, StoresKept

LEMMA ReturnKeeps ==
  ASSUME IInv, NEW o \in Operators, Return(o),
         UNCHANGED <<repository, exports, audit, approvals>>
  PROVE  IInv'
  BY ReturnMoves, MoveKeeps

-----------------------------------------------------------------------------
(* Saving *)

LEMMA SaveKeeps ==
  ASSUME IInv, NEW o \in Operators, task[o].case \in Cases,
         task[o].record \in Record, Coherent(task[o].record),
         Save(o), Moves(o), TaskOK(o)', UNCHANGED <<exports, audit>>,
         approvals \subseteq approvals', (approvals \subseteq Decision)',
         ApprovalsAreGrounded',
         task[o].record.state \in {"approved", "published"}
           => [case |-> task[o].case, export |-> Contents(task[o].record)] \in approvals'
  PROVE  IInv'
  <1>1. /\ repository' \in [Cases -> Record \cup {Nil}]
        /\ repository'[task[o].case] = task[o].record
        /\ \A c \in Cases : c # task[o].case => repository'[c] = repository[c]
    BY DEF IInv, TypeOK, Save
  <1>2. task[o].record # Nil
    BY NoRecordAssumption
  <1>3. Grows
    BY <1>1, <1>2 DEF Grows
  <1>4. (\A p \in Operators : TaskOK(p))'
    BY <1>3, OthersKeep
  <1>5. TypeOK'
    BY <1>1 DEF IInv, TypeOK, Moves
  <1>6. RecordsAreCoherent'
    BY <1>1 DEF IInv, RecordsAreCoherent, Coherent
  <1>7. RowsAreApproved'
    <2> SUFFICES ASSUME NEW c \in Cases,
                        (Stored(c, "approved") \/ Stored(c, "published"))'
                 PROVE  ([case |-> c, export |-> Contents(repository[c])] \in approvals)'
      BY DEF RowsAreApproved
    <2>1. CASE c = task[o].case
      BY <1>1, <2>1 DEF Stored, Contents
    <2>2. CASE c # task[o].case
      <3>1. repository'[c] = repository[c]
        BY <1>1, <2>2
      <3>2. [case |-> c, export |-> Contents(repository[c])] \in approvals
        BY <3>1 DEF Stored, IInv, RowsAreApproved
      <3> QED BY <3>1, <3>2 DEF Contents
    <2> QED BY <2>1, <2>2
  <1>8. ExportsAreApproved'
    BY DEF IInv, ExportsAreApproved
  <1> QED BY <1>4, <1>5, <1>6, <1>7, <1>8 DEF IInv

LEMMA SaveFailedKeeps ==
  ASSUME IInv, NEW o \in Operators, SaveFailed(o)
  PROVE  IInv'
  <1>1. /\ task[o].step = "failing" /\ Save(o) /\ Advance(o, "failed")
        /\ UNCHANGED <<exports, audit, approvals>>
    BY DEF SaveFailed, At
  <1>2. /\ task[o].case \in Cases /\ task[o].record \in Record
        /\ task[o].record.state = "failed" /\ Coherent(task[o].record)
    BY <1>1, RunningCall DEF At, TaskShape
  <1>3. /\ Moves(o)
        /\ task'[o].step = "failed" /\ task'[o].case = task[o].case
        /\ task'[o].record = task[o].record
    BY <1>1, AdvanceMoves DEF Steps
  <1>4. repository'[task[o].case] # Nil
    BY <1>1, <1>2, NoRecordAssumption DEF Save, IInv, TypeOK
  <1>5. TaskOK(o)'
    BY <1>2, <1>3, <1>4 DEF TaskOK, TaskShape, TaskBacked, At, Coherent
  <1>6. (approvals \subseteq Decision)' /\ ApprovalsAreGrounded'
    BY <1>1 DEF IInv, TypeOK, ApprovalsAreGrounded
  <1> QED BY <1>1, <1>2, <1>3, <1>5, <1>6, SaveKeeps

LEMMA SaveCompletedKeeps ==
  ASSUME IInv, NEW o \in Operators, SaveCompleted(o)
  PROVE  IInv'
  <1>1. /\ task[o].step = "completing" /\ Save(o) /\ Advance(o, "completed")
        /\ UNCHANGED <<exports, audit, approvals>>
    BY DEF SaveCompleted, At
  <1>2. /\ task[o].case \in Cases /\ task[o].record \in Record
        /\ task[o].record.state = "pending_approval" /\ Coherent(task[o].record)
    BY <1>1, RunningCall DEF At, TaskShape
  <1>3. /\ Moves(o)
        /\ task'[o].step = "completed" /\ task'[o].case = task[o].case
        /\ task'[o].record = task[o].record
    BY <1>1, AdvanceMoves DEF Steps
  <1>4. repository'[task[o].case] # Nil
    BY <1>1, <1>2, NoRecordAssumption DEF Save, IInv, TypeOK
  <1>5. TaskOK(o)'
    BY <1>2, <1>3, <1>4 DEF TaskOK, TaskShape, TaskBacked, At, Coherent
  <1>6. (approvals \subseteq Decision)' /\ ApprovalsAreGrounded'
    BY <1>1 DEF IInv, TypeOK, ApprovalsAreGrounded
  <1> QED BY <1>1, <1>2, <1>3, <1>5, <1>6, SaveKeeps

(* What a coherent record in these states can be exported as. *)
LEMMA ApprovedContents ==
  ASSUME NEW rec \in Record, Coherent(rec), rec.state \in {"approved", "published"}
  PROVE  /\ Contents(rec) \in Export
         /\ rec.reviewer \in Reviewers
         /\ <<rec.evidence, rec.assessment>> \in Grounded
  BY DEF Coherent, Contents, Export, Record, Named

LEMMA SaveApprovedKeeps ==
  ASSUME IInv, NEW o \in Operators, SaveApproved(o)
  PROVE  IInv'
  <1> DEFINE decision == [case |-> task[o].case, export |-> Contents(task[o].record)]
  <1>1. /\ task[o].step = "approving" /\ Save(o) /\ Advance(o, "approved")
        /\ approvals' = approvals \cup {decision}
        /\ UNCHANGED <<exports, audit>>
    BY DEF SaveApproved, At
  <1>2. /\ task[o].case \in Cases /\ task[o].record \in Record
        /\ task[o].record.state = "approved" /\ Coherent(task[o].record)
    BY <1>1, RunningCall DEF At, TaskShape
  <1>3. /\ Moves(o)
        /\ task'[o].step = "approved" /\ task'[o].case = task[o].case
        /\ task'[o].record = task[o].record
    BY <1>1, AdvanceMoves DEF Steps
  <1>4. repository'[task[o].case] # Nil
    BY <1>1, <1>2, NoRecordAssumption DEF Save, IInv, TypeOK
  <1>5. TaskOK(o)'
    BY <1>1, <1>2, <1>3, <1>4 DEF TaskOK, TaskShape, TaskBacked, At, Coherent, Contents
  <1>6. /\ Contents(task[o].record) \in Export
        /\ <<task[o].record.evidence, task[o].record.assessment>> \in Grounded
    BY <1>2, ApprovedContents
  <1>7. (approvals \subseteq Decision)'
    BY <1>1, <1>2, <1>6 DEF IInv, TypeOK, Decision
  <1>8. ApprovalsAreGrounded'
    <2>1. \A x \in approvals :
            <<x.export.evidence, x.export.assessment>> \in Grounded
      BY DEF IInv, ApprovalsAreGrounded
    <2>2. <<decision.export.evidence, decision.export.assessment>> \in Grounded
      BY <1>6 DEF Contents
    <2>3. \A x \in approvals' :
            <<x.export.evidence, x.export.assessment>> \in Grounded
      BY <1>1, <2>1, <2>2
    <2> QED BY <2>3 DEF ApprovalsAreGrounded
  <1> QED BY <1>1, <1>2, <1>3, <1>5, <1>7, <1>8, SaveKeeps

LEMMA SavePublishedKeeps ==
  ASSUME IInv, NEW o \in Operators, SavePublished(o)
  PROVE  IInv'
  <1>1. /\ task[o].step = "publishing" /\ Save(o) /\ Advance(o, "published")
        /\ UNCHANGED <<exports, audit, approvals>>
    BY DEF SavePublished, At
  <1>2. /\ task[o].case \in Cases /\ task[o].record \in Record
        /\ TaskShape(task[o]) /\ TaskBacked(o)
    BY <1>1, RunningCall DEF At
  <1>3. /\ Moves(o)
        /\ task'[o].step = "published" /\ task'[o].case = task[o].case
        /\ task'[o].record = task[o].record
        /\ task'[o].destination = task[o].destination
    BY <1>1, AdvanceMoves DEF Steps
  <1>4. repository'[task[o].case] # Nil
    BY <1>1, <1>2, NoRecordAssumption DEF Save, IInv, TypeOK
  <1>5. TaskOK(o)'
    BY <1>1, <1>2, <1>3, <1>4
       DEF TaskOK, TaskShape, TaskBacked, At, Coherent, Contents, Path
  <1>6. (approvals \subseteq Decision)' /\ ApprovalsAreGrounded'
    BY <1>1 DEF IInv, TypeOK, ApprovalsAreGrounded
  <1>7. /\ Coherent(task[o].record)
        /\ [case |-> task[o].case, export |-> Contents(task[o].record)] \in approvals
    BY <1>1, <1>2 DEF TaskShape, TaskBacked
  <1> QED BY <1>1, <1>2, <1>3, <1>5, <1>6, <1>7, SaveKeeps

-----------------------------------------------------------------------------
(* Logging what was saved *)

LEMMA LogSavedKeeps ==
  ASSUME IInv, NEW o \in Operators, LogFailed(o) \/ LogCompleted(o)
  PROVE  IInv'
  <1>1. /\ task[o].step \in {"failed", "completed"} /\ Return(o)
        /\ UNCHANGED <<repository, exports, approvals>>
    BY DEF LogFailed, LogCompleted, At
  <1>2. PICK event \in {"analysis_failed", "analysis_completed"} : Log(o, event, Nil)
    BY DEF LogFailed, LogCompleted
  <1>3. (audit \subseteq Entry)'
    BY <1>1, <1>2, RunningCall, LogIsTyped DEF At, Events, Transitions
  <1> QED BY <1>1, <1>3, ReturnMoves, StoresKept

LEMMA LogApprovedKeeps ==
  ASSUME IInv, NEW o \in Operators, LogApproved(o)
  PROVE  IInv'
  <1>1. /\ task[o].step = "approved" /\ Return(o)
        /\ Log(o, "case_approved", task[o].record.reviewer)
        /\ UNCHANGED <<repository, exports, approvals>>
    BY DEF LogApproved, At
  <1>2. /\ task[o].case \in Cases /\ task[o].record \in Record
        /\ task[o].record.state = "approved" /\ Coherent(task[o].record)
    BY <1>1, RunningCall DEF At, TaskShape
  <1>3. task[o].record.reviewer \in Reviewers
    BY <1>2, ApprovedContents
  <1>4. (audit \subseteq Entry)'
    BY <1>1, <1>2, <1>3, LogIsTyped DEF Events, Transitions
  <1> QED BY <1>1, <1>4, ReturnMoves, StoresKept

LEMMA LogPublishedKeeps ==
  ASSUME IInv, NEW o \in Operators, LogPublished(o)
  PROVE  IInv'
  <1>1. /\ task[o].step = "published" /\ Return(o)
        /\ Log(o, "case_published", task[o].record.receipt)
        /\ UNCHANGED <<repository, exports, approvals>>
    BY DEF LogPublished, At
  <1>2. /\ task[o].case \in Cases
        /\ task[o].record.receipt = task[o].destination
        /\ task[o].destination \in Destinations
    BY <1>1, RunningCall DEF At, TaskShape
  <1>3. (audit \subseteq Entry)'
    BY <1>1, <1>2, LogIsTyped DEF Events, Transitions
  <1> QED BY <1>1, <1>3, ReturnMoves, StoresKept

-----------------------------------------------------------------------------
(* approve and publish *)

LEMMA ApproveStarts ==
  ASSUME IInv, NEW o \in Operators, NEW c \in Cases, NEW r \in Reviewers,
         Approve(o, c, r)
  PROVE  IInv'
  <1>1. /\ repository[c] # Nil /\ repository[c].state = "pending_approval"
        /\ r \in Named
        /\ UNCHANGED <<repository, exports, audit, approvals>>
    BY DEF Approve, Stored, Begin
  <1>2. repository[c] \in Record /\ Coherent(repository[c])
    BY <1>1 DEF IInv, TypeOK, RecordsAreCoherent
  <1>3. PICK rec : rec = [repository[c] EXCEPT !.state = "approved", !.reviewer = r]
    OBVIOUS
  <1>4. r # Nil /\ r \notin Blank
    BY <1>1, NilAssumption DEF Named
  <1>5. rec \in Record /\ rec.state = "approved"
    BY <1>2, <1>3 DEF Record, States
  <1>6. Coherent(rec)
    BY <1>1, <1>2, <1>3, <1>4 DEF Coherent, Record
  <1>7. /\ Moves(o)
        /\ task'[o] = [step |-> "approving", case |-> c, attempt |-> 0,
                       record |-> rec, destination |-> Nil]
    BY <1>3, <1>5, BeginMoves DEF Approve, Steps
  <1>8. TaskOK(o)'
    BY <1>5, <1>6, <1>7 DEF TaskOK, TaskShape, TaskBacked, At, Coherent
  <1> QED BY <1>1, <1>7, <1>8, MoveKeeps

LEMMA PublishStarts ==
  ASSUME IInv, NEW o \in Operators, NEW c \in Cases, NEW d \in Destinations,
         Publish(o, c, d)
  PROVE  IInv'
  <1>1. /\ repository[c] # Nil /\ repository[c].state = "approved"
        /\ Begin(o, "exporting", c, repository[c], d)
        /\ UNCHANGED <<repository, exports, audit, approvals>>
    BY DEF Publish, Stored, Begin
  <1>2. /\ repository[c] \in Record /\ Coherent(repository[c])
        /\ [case |-> c, export |-> Contents(repository[c])] \in approvals
    BY <1>1 DEF IInv, TypeOK, RecordsAreCoherent, RowsAreApproved, Stored
  <1>3. PICK rec : rec = repository[c]
    OBVIOUS
  <1>4. /\ Moves(o)
        /\ task'[o] = [step |-> "exporting", case |-> c, attempt |-> 0,
                       record |-> rec, destination |-> d]
    BY <1>1, <1>2, <1>3, BeginMoves DEF Steps
  <1>5. TaskOK(o)'
    BY <1>1, <1>2, <1>3, <1>4 DEF TaskOK, TaskShape, TaskBacked, At, Coherent, Contents
  <1> QED BY <1>1, <1>4, <1>5, MoveKeeps

LEMMA PublishRefused ==
  ASSUME IInv, NEW o \in Operators, NEW c \in Cases, NEW d \in Destinations,
         PublishAgain(o, c, d) \/ PublishEarly(o, c, d)
  PROVE  IInv'
  <1>1. /\ repository[c] # Nil
        /\ UNCHANGED <<repository, exports, audit, approvals>>
    BY DEF PublishAgain, PublishEarly, Stored, Begin
  <1>2. PICK s \in {"publish_deduplicated", "publish_blocked"} :
          Begin(o, s, c, repository[c], d)
    BY DEF PublishAgain, PublishEarly
  <1>3. repository[c] \in Record
    BY <1>1 DEF IInv, TypeOK
  <1>4. PICK rec : rec = repository[c]
    OBVIOUS
  <1>5. /\ Moves(o)
        /\ task'[o] = [step |-> s, case |-> c, attempt |-> 0,
                       record |-> rec, destination |-> d]
    BY <1>2, <1>3, <1>4, BeginMoves DEF Steps
  <1>6. TaskOK(o)'
    BY <1>3, <1>4, <1>5 DEF TaskOK, TaskShape, TaskBacked, At
  <1> QED BY <1>1, <1>5, <1>6, MoveKeeps

(* The copy publish goes on with once it has a receipt. *)
LEMMA ReceiptedMoves ==
  ASSUME IInv, NEW o \in Operators, task[o].step \in {"exporting", "writing"},
         Receipted(o), UNCHANGED <<repository, approvals>>,
         exports'[Path(o)] # Nil
  PROVE  Moves(o) /\ TaskOK(o)'
  <1>1. /\ task[o] \in Task /\ task[o].case \in Cases /\ task[o].record \in Record
        /\ TaskShape(task[o]) /\ TaskBacked(o)
    BY RunningCall DEF At
  <1>2. /\ Coherent(task[o].record) /\ task[o].record.state = "approved"
        /\ task[o].destination \in Destinations
        /\ [case |-> task[o].case, export |-> Contents(task[o].record)] \in approvals
    BY <1>1 DEF TaskShape, TaskBacked
  <1>3. PICK rec : rec = [task[o].record EXCEPT !.state = "published",
                                                !.receipt = task[o].destination]
    OBVIOUS
  <1>4. /\ rec \in Record /\ rec.state = "published"
        /\ rec.receipt = task[o].destination
        /\ Contents(rec) = Contents(task[o].record)
    BY <1>1, <1>2, <1>3 DEF Record, States, Contents
  <1>5. task[o].destination # Nil
    BY <1>2, NilAssumption
  <1>6. Coherent(rec)
    BY <1>1, <1>2, <1>3, <1>5 DEF Coherent, Record
  <1>7. task' = [task EXCEPT ![o] = [task[o] EXCEPT !.step = "publishing",
                                                    !.record = rec]]
    BY <1>1, <1>3 DEF Receipted, IInv, TypeOK
  <1>8. /\ Moves(o)
        /\ task'[o].step = "publishing" /\ task'[o].case = task[o].case
        /\ task'[o].record = rec /\ task'[o].destination = task[o].destination
    BY <1>1, <1>4, <1>7, EditCopy DEF Steps
  <1>9. TaskOK(o)'
    BY <1>1, <1>2, <1>4, <1>6, <1>8
       DEF TaskOK, TaskShape, TaskBacked, At, Coherent, Contents, Path
  <1> QED BY <1>8, <1>9

LEMMA ExportFoundKeeps ==
  ASSUME IInv, NEW o \in Operators, ExportFound(o)
  PROVE  IInv'
  BY ReceiptedMoves, MoveKeeps DEF ExportFound, At

LEMMA ExportMissingKeeps ==
  ASSUME IInv, NEW o \in Operators, ExportMissing(o)
  PROVE  IInv'
  <1>1. /\ task[o].step = "exporting" /\ Advance(o, "writing")
        /\ UNCHANGED <<repository, exports, audit, approvals>>
    BY DEF ExportMissing, At
  <1>2. /\ task[o].case \in Cases /\ task[o].record \in Record
        /\ TaskShape(task[o]) /\ TaskBacked(o)
    BY <1>1, RunningCall DEF At
  <1>3. /\ Moves(o)
        /\ task'[o].step = "writing" /\ task'[o].case = task[o].case
        /\ task'[o].record = task[o].record
        /\ task'[o].destination = task[o].destination
    BY <1>1, AdvanceMoves DEF Steps
  <1>4. TaskOK(o)'
    BY <1>1, <1>2, <1>3 DEF TaskOK, TaskShape, TaskBacked, At, Coherent, Contents
  <1> QED BY <1>1, <1>3, <1>4, MoveKeeps

LEMMA ExportReplaceKeeps ==
  ASSUME IInv, NEW o \in Operators, ExportReplace(o)
  PROVE  IInv'
  <1>1. /\ task[o].step = "writing" /\ Receipted(o)
        /\ exports' = [exports EXCEPT ![Path(o)] = Contents(task[o].record)]
        /\ UNCHANGED <<repository, audit, approvals>>
    BY DEF ExportReplace, At
  <1>2. /\ task[o].case \in Cases /\ task[o].record \in Record
        /\ TaskShape(task[o]) /\ TaskBacked(o)
    BY <1>1, RunningCall DEF At
  <1>3. /\ Coherent(task[o].record) /\ task[o].record.state = "approved"
        /\ Path(o) \in Destinations \X Cases
        /\ [case |-> task[o].case, export |-> Contents(task[o].record)] \in approvals
    BY <1>1, <1>2 DEF TaskShape, TaskBacked, Path
  <1>4. Contents(task[o].record) \in Export /\ Contents(task[o].record) # Nil
    BY <1>2, <1>3, ApprovedContents, NoRecordAssumption
  <1>5. /\ exports' \in [Destinations \X Cases -> Export \cup {Nil}]
        /\ exports'[Path(o)] = Contents(task[o].record)
        /\ \A path \in Destinations \X Cases :
             path # Path(o) => exports'[path] = exports[path]
    BY <1>1, <1>3, <1>4 DEF IInv, TypeOK
  <1>6. Moves(o) /\ TaskOK(o)'
    BY <1>1, <1>4, <1>5, ReceiptedMoves
  <1>7. Grows
    BY <1>1, <1>4, <1>5 DEF Grows
  <1>8. (\A p \in Operators : TaskOK(p))'
    BY <1>6, <1>7, OthersKeep
  <1>9. TypeOK'
    BY <1>1, <1>5, <1>6 DEF IInv, TypeOK, Moves
  <1>10. ExportsAreApproved'
    <2> SUFFICES ASSUME NEW d \in Destinations, NEW c \in Cases,
                        exports'[<<d, c>>] # Nil
                 PROVE  [case |-> c, export |-> exports'[<<d, c>>]] \in approvals
      BY <1>1 DEF ExportsAreApproved
    <2>1. CASE <<d, c>> = Path(o)
      BY <1>3, <1>5, <2>1 DEF Path
    <2>2. CASE <<d, c>> # Path(o)
      <3>1. exports'[<<d, c>>] = exports[<<d, c>>]
        BY <1>5, <2>2
      <3> QED BY <3>1 DEF IInv, ExportsAreApproved
    <2> QED BY <2>1, <2>2
  <1>11. (RecordsAreCoherent /\ RowsAreApproved /\ ApprovalsAreGrounded)'
    BY <1>1 DEF IInv, RecordsAreCoherent, RowsAreApproved, ApprovalsAreGrounded,
                Coherent, Stored, Contents
  <1> QED BY <1>8, <1>9, <1>10, <1>11 DEF IInv

-----------------------------------------------------------------------------
(* The inductive invariant *)

LEMMA InitEstablishes == Init => IInv
  <1> SUFFICES ASSUME Init PROVE IInv
    OBVIOUS
  <1>1. Idle \in Task
    BY AttemptsAssumption DEF Idle, Task, Steps
  <1>2. TypeOK
    BY <1>1 DEF Init, TypeOK
  <1>3. \A o \in Operators : TaskOK(o)
    BY DEF Init, TaskOK, At, Idle
  <1>4. RecordsAreCoherent /\ RowsAreApproved /\ ApprovalsAreGrounded
    BY DEF Init, RecordsAreCoherent, RowsAreApproved, ApprovalsAreGrounded, Stored
  <1>5. ExportsAreApproved
    BY DEF Init, ExportsAreApproved
  <1> QED BY <1>2, <1>3, <1>4, <1>5 DEF IInv

LEMMA StartKeeps ==
  ASSUME IInv, NEW o \in Operators, Start(o)
  PROVE  IInv'
  <1> PICK c \in Cases :
        \/ \E e \in Evidence :
             Analyze(o, c, e) \/ AnalyzeAgain(o, c, e) \/ AnalyzeRetry(o, c, e)
        \/ \E r \in Reviewers : Approve(o, c, r)
        \/ \E d \in Destinations :
             Publish(o, c, d) \/ PublishAgain(o, c, d) \/ PublishEarly(o, c, d)
    BY DEF Start
  <1> QED BY AnalyzeStarts, ApproveStarts, PublishStarts, PublishRefused

LEMMA AnalyzeStepKeeps ==
  ASSUME IInv, NEW o \in Operators, AnalyzeStep(o)
  PROVE  IInv'
  <1>1. CASE LogDeduplicated(o) \/ LogRejected(o)
    BY <1>1, LogsKeep
  <1>2. CASE LogRetried(o)
    BY <1>2, LogRetriedKeeps
  <1>3. CASE LogReceived(o)
    BY <1>3, LogReceivedKeeps
  <1>4. CASE \E a \in Assessments : ProviderAnswers(o, a)
    BY <1>4, ProviderAnswersKeeps
  <1>5. CASE ProviderFails(o)
    BY <1>5, ProviderFailsKeeps
  <1>6. CASE ProviderBusy(o)
    BY <1>6, ProviderBusyKeeps
  <1>7. CASE ProviderRaises(o) \/ Conflict(o, "failing") \/ Conflict(o, "completing")
    BY <1>7, ReturnKeeps DEF ProviderRaises, Conflict
  <1>8. CASE LogRetry(o)
    BY <1>8, LogRetryKeeps
  <1>9. CASE SaveFailed(o)
    BY <1>9, SaveFailedKeeps
  <1>10. CASE SaveCompleted(o)
    BY <1>10, SaveCompletedKeeps
  <1>11. CASE LogFailed(o) \/ LogCompleted(o)
    BY <1>11, LogSavedKeeps
  <1> QED BY <1>1, <1>2, <1>3, <1>4, <1>5, <1>6, <1>7, <1>8, <1>9, <1>10, <1>11
          DEF AnalyzeStep

LEMMA PublishStepKeeps ==
  ASSUME IInv, NEW o \in Operators, PublishStep(o)
  PROVE  IInv'
  <1>1. CASE LogPublishDeduplicated(o) \/ LogPublishBlocked(o)
    BY <1>1, LogsKeep
  <1>2. CASE ExportFound(o)
    BY <1>2, ExportFoundKeeps
  <1>3. CASE ExportDiffers(o)
    BY <1>3, ReturnKeeps DEF ExportDiffers
  <1>4. CASE ExportMissing(o)
    BY <1>4, ExportMissingKeeps
  <1>5. CASE ExportReplace(o)
    BY <1>5, ExportReplaceKeeps
  <1>6. CASE SavePublished(o)
    BY <1>6, SavePublishedKeeps
  <1>7. CASE LogPublished(o)
    BY <1>7, LogPublishedKeeps
  <1> QED BY <1>1, <1>2, <1>3, <1>4, <1>5, <1>6, <1>7 DEF PublishStep

LEMMA NextKeeps == IInv /\ [Next]_vars => IInv'
  <1> SUFFICES ASSUME IInv, [Next]_vars PROVE IInv'
    OBVIOUS
  <1>1. CASE UNCHANGED vars
    <2>1. UNCHANGED <<repository, exports, audit, task, approvals>>
      BY <1>1 DEF vars
    <2>2. TypeOK' /\ ExportsAreApproved'
      BY <2>1 DEF IInv, TypeOK, ExportsAreApproved
    <2>3. RecordsAreCoherent' /\ RowsAreApproved' /\ ApprovalsAreGrounded'
      BY <2>1 DEF IInv, RecordsAreCoherent, RowsAreApproved, ApprovalsAreGrounded,
                  Coherent, Stored, Contents
    <2>4. ASSUME NEW o \in Operators
          PROVE  TaskOK(o)'
      <3>1. task[o] \in Task /\ TaskOK(o) /\ task'[o] = task[o] /\ Grows
        BY <2>1 DEF IInv, TypeOK, Grows
      <3> QED BY <3>1, BackingSurvives
    <2> QED BY <2>1, <2>2, <2>3, <2>4 DEF IInv
  <1>2. ASSUME NEW o \in Operators, Start(o) \/ Step(o) \/ Interrupt(o)
        PROVE  IInv'
    <2>1. CASE Start(o)
      BY <2>1, StartKeeps
    <2>2. CASE AnalyzeStep(o)
      BY <2>2, AnalyzeStepKeeps
    <2>3. CASE ApproveStep(o)
      BY <2>3, SaveApprovedKeeps, LogApprovedKeeps DEF ApproveStep
    <2>4. CASE PublishStep(o)
      BY <2>4, PublishStepKeeps
    <2>5. CASE Interrupt(o)
      BY <2>5, ReturnKeeps DEF Interrupt
    <2> QED BY <1>2, <2>1, <2>2, <2>3, <2>4, <2>5 DEF Step
  <1> QED BY <1>1, <1>2 DEF Next

THEOREM Invariance == Spec => []IInv
  BY InitEstablishes, NextKeeps, PTL DEF Spec

(* Every reachable state has the types the module declares. *)
THEOREM TypeCorrect == Spec => []TypeOK
  <1>1. IInv => TypeOK
    BY DEF IInv
  <1> QED BY <1>1, Invariance, PTL

(* No export without a durable decision of a named reviewer about exactly   *)
(* its contents, however many operators interleave or die in between.       *)
THEOREM ExportsApproved == Spec => []ExportsAreApproved
  <1>1. IInv => ExportsAreApproved
    BY DEF IInv
  <1> QED BY <1>1, Invariance, PTL

(* Analysis fails closed, and a row's reviewer, receipt and state agree,    *)
(* whichever stale copies are written back.                                 *)
THEOREM RecordsCoherent == Spec => []RecordsAreCoherent
  <1>1. IInv => RecordsAreCoherent
    BY DEF IInv
  <1> QED BY <1>1, Invariance, PTL

-----------------------------------------------------------------------------
(* A call moves only its own operator. *)

(* One step of the call of o. *)
Call(o) == Start(o) \/ Step(o) \/ Interrupt(o)

LEMMA CallMoves ==
  ASSUME IInv, NEW o \in Operators, Call(o)
  PROVE  Moves(o)
  <1>1. IInv'
    BY NextKeeps DEF Call, Next
  <1>2. ASSUME NEW p \in Operators \ {o}
        PROVE  task'[p] = task[p]
    <2>1. task \in [Operators -> Task]
      BY DEF IInv, TypeOK
    <2>2. CASE Start(o)
      BY <2>1, <2>2 DEF Start, Analyze, AnalyzeAgain, AnalyzeRetry, Approve, Publish,
                        PublishAgain, PublishEarly, Begin
    <2>3. CASE AnalyzeStep(o)
      BY <2>1, <2>3 DEF AnalyzeStep, LogDeduplicated, LogRetried, LogRejected,
                LogReceived, ProviderAnswers, ProviderFails, ProviderBusy,
                ProviderRaises, LogRetry, Conflict, LogFailed, LogCompleted,
                SaveFailed, SaveCompleted, Advance, Return
    <2>4. CASE ApproveStep(o)
      BY <2>1, <2>4 DEF ApproveStep, SaveApproved, LogApproved, Advance, Return
    <2>5. CASE PublishStep(o)
      BY <2>1, <2>5 DEF PublishStep, LogPublishDeduplicated, LogPublishBlocked,
                ExportFound, ExportDiffers, ExportMissing, ExportReplace,
                SavePublished, LogPublished, Receipted, Advance, Return
    <2>6. CASE Interrupt(o)
      BY <2>1, <2>6 DEF Interrupt, Return
    <2> QED BY <2>2, <2>3, <2>4, <2>5, <2>6 DEF Call, Step
  <1> QED BY <1>1, <1>2 DEF Moves, IInv, TypeOK

-----------------------------------------------------------------------------
(* Steps *)

Pins == \A c \in Cases : repository[c] # Nil =>
          /\ repository'[c] # Nil
          /\ repository'[c].evidence = repository[c].evidence

LEMMA SavePins ==
  ASSUME IInv, NEW o \in Operators, ~ At(o, "idle"), Save(o),
         Accepts(task[o].case, task[o].record)
  PROVE  Pins
  <1>1. task[o].case \in Cases /\ task[o].record \in Record
    BY RunningCall
  <1>2. task[o].record # Nil
    BY <1>1, NoRecordAssumption
  <1> QED BY <1>1, <1>2 DEF Pins, Save, Accepts, IInv, TypeOK

LEMMA StartsAreQuiet ==
  ASSUME NEW o \in Operators, Start(o)
  PROVE  UNCHANGED <<repository, exports, audit, approvals>>
  <1>1. PICK c \in Cases :
          \/ \E e \in Evidence :
               Analyze(o, c, e) \/ AnalyzeAgain(o, c, e) \/ AnalyzeRetry(o, c, e)
          \/ \E r \in Reviewers : Approve(o, c, r)
          \/ \E d \in Destinations :
               Publish(o, c, d) \/ PublishAgain(o, c, d) \/ PublishEarly(o, c, d)
    BY DEF Start
  <1>2. \E s, rec, d : Begin(o, s, c, rec, d)
    <2>1. CASE \E e \in Evidence :
               Analyze(o, c, e) \/ AnalyzeAgain(o, c, e) \/ AnalyzeRetry(o, c, e)
      BY <2>1 DEF Analyze, AnalyzeAgain, AnalyzeRetry
    <2>2. CASE \E r \in Reviewers : Approve(o, c, r)
      BY <2>2 DEF Approve
    <2>3. CASE \E d \in Destinations :
               Publish(o, c, d) \/ PublishAgain(o, c, d) \/ PublishEarly(o, c, d)
      BY <2>3 DEF Publish, PublishAgain, PublishEarly
    <2> QED BY <1>1, <2>1, <2>2, <2>3
  <1> QED BY <1>2 DEF Begin

(* The only steps that change a store. *)
Stores(o) == \/ SaveFailed(o) \/ SaveCompleted(o) \/ SavePublished(o)
             \/ SaveApproved(o) \/ ExportReplace(o)

LEMMA OthersAreQuiet ==
  ASSUME NEW o \in Operators, Step(o) \/ Interrupt(o), ~ Stores(o)
  PROVE  UNCHANGED <<repository, exports, approvals>>
  <1>1. CASE AnalyzeStep(o)
    BY <1>1 DEF Stores, AnalyzeStep, LogDeduplicated, LogRetried, LogRejected,
                LogReceived, ProviderAnswers, ProviderFails, ProviderBusy,
                ProviderRaises, LogRetry, Conflict, LogFailed, LogCompleted
  <1>2. CASE ApproveStep(o)
    BY <1>2 DEF Stores, ApproveStep, LogApproved
  <1>3. CASE PublishStep(o)
    BY <1>3 DEF Stores, PublishStep, LogPublishDeduplicated, LogPublishBlocked,
                ExportFound, ExportDiffers, ExportMissing, LogPublished
  <1>4. CASE Interrupt(o)
    BY <1>4 DEF Interrupt
  <1> QED BY <1>1, <1>2, <1>3, <1>4 DEF Step

LEMMA StoreSteps ==
  ASSUME [Next]_vars
  PROVE  \/ UNCHANGED <<repository, exports, approvals>>
         \/ \E o \in Operators : Stores(o)
  BY StartsAreQuiet, OthersAreQuiet DEF Next, vars

LEMMA NextPins == IInv /\ [Next]_vars => [Pins]_repository
  <1> SUFFICES ASSUME IInv, [Next]_vars, repository' # repository PROVE Pins
    OBVIOUS
  <1>1. PICK o \in Operators : Stores(o)
    BY StoreSteps
  <1>2. SaveFailed(o) \/ SaveCompleted(o) \/ SaveApproved(o) \/ SavePublished(o)
    BY <1>1 DEF Stores, ExportReplace
  <1>3. ~ At(o, "idle") /\ Save(o) /\ Accepts(task[o].case, task[o].record)
    BY <1>2 DEF SaveFailed, SaveCompleted, SaveApproved, SavePublished, At
  <1> QED BY <1>3, SavePins

(* The evidence of a case never changes once a row exists: save's check of  *)
(* the fingerprint decides any race between analyses of different evidence. *)
THEOREM EvidencePinned == Spec => EvidenceIsPinned
  <1>1. IInv /\ [Next]_vars => [Pins]_repository
    BY NextPins
  <1> QED BY <1>1, Invariance, PTL DEF Spec, EvidenceIsPinned, Pins

-----------------------------------------------------------------------------
(* What the log reports *)

(* The stores only grow: no row, no file and no decision goes away. *)
LEMMA StoresGrow == IInv /\ [Next]_vars => Grows
  <1> SUFFICES ASSUME IInv, [Next]_vars PROVE Grows
    OBVIOUS
  <1>1. \A c \in Cases : repository[c] # Nil => repository'[c] # Nil
    BY NextPins DEF Pins
  <1>2. CASE UNCHANGED <<repository, exports, approvals>>
    BY <1>2 DEF Grows
  <1>3. ASSUME NEW o \in Operators, Stores(o)
        PROVE  Grows
    <2>1. CASE ExportReplace(o)
      <3>1. /\ exports' = [exports EXCEPT ![Path(o)] = Contents(task[o].record)]
            /\ approvals' = approvals /\ task[o].step = "writing"
        BY <2>1 DEF ExportReplace, At
      <3>2. /\ task[o].record \in Record /\ Coherent(task[o].record)
            /\ task[o].record.state = "approved"
        BY <3>1, RunningCall DEF At, TaskShape
      <3>3. Contents(task[o].record) # Nil
        BY <3>2, ApprovedContents, NoRecordAssumption
      <3> QED BY <1>1, <3>1, <3>3 DEF Grows, IInv, TypeOK
    <2>2. CASE SaveFailed(o) \/ SaveCompleted(o) \/ SavePublished(o) \/ SaveApproved(o)
      BY <1>1, <2>2 DEF SaveFailed, SaveCompleted, SavePublished, SaveApproved, Grows
    <2> QED BY <1>3, <2>1, <2>2 DEF Stores
  <1> QED BY <1>2, <1>3, StoreSteps

(* What has to hold for the log to report this event of c. *)
Borne(event, c, detail) ==
  /\ event = "case_approved" =>
       \E decision \in approvals : /\ decision.case = c
                                   /\ decision.export.reviewer = detail
  /\ event = "case_published" => detail \in Destinations /\ exports[<<detail, c>>] # Nil
  /\ event \in Transitions => repository[c] # Nil

LEMMA LogBorne ==
  ASSUME NEW o, NEW event, NEW detail, Log(o, event, detail),
         Borne(event, task[o].case, detail)
  PROVE  \A entry \in audit' \ audit : Borne(entry.event, entry.case, entry.detail)
  BY DEF Log

(* A call reports only what it has made durable or has read as durable. *)
LEMMA Reports ==
  ASSUME IInv, NEW o \in Operators, Start(o) \/ Step(o) \/ Interrupt(o)
  PROVE  \A entry \in audit' \ audit : Borne(entry.event, entry.case, entry.detail)
  <1>1. CASE \/ LogDeduplicated(o) \/ LogRejected(o) \/ LogRetried(o) \/ LogReceived(o)
             \/ LogRetry(o) \/ LogPublishDeduplicated(o) \/ LogPublishBlocked(o)
    <2>1. PICK event \in Events \ Transitions : Log(o, event, Nil)
      BY <1>1 DEF LogDeduplicated, LogRejected, LogRetried, LogReceived, LogRetry,
                  LogPublishDeduplicated, LogPublishBlocked, Events, Transitions
    <2> QED BY <2>1, LogBorne DEF Borne, Transitions
  <1>2. CASE LogFailed(o) \/ LogCompleted(o)
    <2>1. PICK event \in {"analysis_failed", "analysis_completed"} : Log(o, event, Nil)
      BY <1>2 DEF LogFailed, LogCompleted
    <2>2. repository[task[o].case] # Nil
      BY <1>2, RunningCall DEF LogFailed, LogCompleted, At, TaskBacked
    <2> QED BY <2>1, <2>2, LogBorne DEF Borne
  <1>3. CASE LogApproved(o)
    <2>1. /\ repository[task[o].case] # Nil
          /\ [case |-> task[o].case, export |-> Contents(task[o].record)] \in approvals
      BY <1>3, RunningCall DEF LogApproved, At, TaskBacked
    <2>2. Borne("case_approved", task[o].case, task[o].record.reviewer)
      BY <2>1 DEF Borne, Contents
    <2> QED BY <1>3, <2>2, LogBorne DEF LogApproved
  <1>4. CASE LogPublished(o)
    <2>1. /\ repository[task[o].case] # Nil /\ exports[Path(o)] # Nil
          /\ task[o].record.receipt = task[o].destination
          /\ task[o].destination \in Destinations
      BY <1>4, RunningCall DEF LogPublished, At, TaskBacked, TaskShape
    <2>2. Borne("case_published", task[o].case, task[o].record.receipt)
      BY <2>1 DEF Borne, Path
    <2> QED BY <1>4, <2>2, LogBorne DEF LogPublished
  <1>5. CASE audit' = audit
    BY <1>5
  <1>6. CASE Start(o)
    BY <1>5, <1>6, StartsAreQuiet
  <1>7. CASE AnalyzeStep(o)
    BY <1>1, <1>2, <1>5, <1>7 DEF AnalyzeStep, ProviderAnswers, ProviderFails, ProviderBusy,
       ProviderRaises, SaveFailed, SaveCompleted, Conflict
  <1>8. CASE ApproveStep(o)
    BY <1>3, <1>5, <1>8 DEF ApproveStep, SaveApproved
  <1>9. CASE PublishStep(o)
    BY <1>1, <1>4, <1>5, <1>9 DEF PublishStep, ExportFound, ExportDiffers, ExportMissing,
       ExportReplace, SavePublished
  <1>10. CASE Interrupt(o)
    BY <1>5, <1>10 DEF Interrupt
  <1> QED BY <1>6, <1>7, <1>8, <1>9, <1>10 DEF Step

ReportsBorne == \A entry \in audit : Borne(entry.event, entry.case, entry.detail)

LEMMA NextBorne == IInv /\ ReportsBorne /\ [Next]_vars => ReportsBorne'
  <1> SUFFICES ASSUME IInv, ReportsBorne, [Next]_vars, NEW entry \in audit'
               PROVE  Borne(entry.event, entry.case, entry.detail)'
    BY DEF ReportsBorne
  <1>1. entry.case \in Cases
    BY NextKeeps DEF IInv, TypeOK, Entry
  <1>2. Borne(entry.event, entry.case, entry.detail)
    <2>1. CASE entry \in audit
      BY <2>1 DEF ReportsBorne
    <2>2. CASE entry \notin audit
      <3>1. audit' # audit
        BY <2>2
      <3>2. PICK o \in Operators : Start(o) \/ Step(o) \/ Interrupt(o)
        BY <3>1 DEF Next, vars
      <3> QED BY <2>2, <3>2, Reports
    <2> QED BY <2>1, <2>2
  <1> QED BY <1>1, <1>2, StoresGrow DEF Borne, Grows

(* What the audit log says was stored had been stored. *)
THEOREM AuditTruthful == Spec => []AuditIsTruthful
  <1>1. Init => ReportsBorne
    BY DEF Init, ReportsBorne
  <1>2. ReportsBorne => AuditIsTruthful
    BY DEF ReportsBorne, Borne, AuditIsTruthful
  <1> QED BY <1>1, <1>2, NextBorne, Invariance, PTL DEF Spec

-----------------------------------------------------------------------------
(* Published rows *)

(* A row is saved as published only by a call that has seen or made its     *)
(* file.                                                                    *)
LEMMA PublishedRow ==
  ASSUME IInv, [Next]_vars, NEW c \in Cases, Stored(c, "published")'
  PROVE  \/ Stored(c, "published") /\ repository'[c] = repository[c]
         \/ exports[<<repository'[c].receipt, c>>] # Nil
  <1>1. CASE repository'[c] = repository[c]
    BY <1>1 DEF Stored
  <1>2. CASE repository'[c] # repository[c]
    <2>1. PICK o \in Operators : Stores(o)
      BY <1>2, StoreSteps
    <2>2. /\ SaveFailed(o) \/ SaveCompleted(o) \/ SaveApproved(o) \/ SavePublished(o)
          /\ Save(o)
      BY <1>2, <2>1 DEF Stores, ExportReplace, SaveFailed, SaveCompleted, SaveApproved,
                        SavePublished
    <2>3. /\ task[o].case \in Cases /\ task[o].record \in Record
          /\ TaskShape(task[o]) /\ TaskBacked(o)
      BY <2>2, RunningCall
         DEF SaveFailed, SaveCompleted, SaveApproved, SavePublished, At
    <2>4. c = task[o].case /\ repository'[c] = task[o].record
      BY <1>2, <2>2, <2>3 DEF Save, IInv, TypeOK
    <2>5. task[o].record.state = "published"
      BY <2>4 DEF Stored
    <2>6. At(o, "publishing")
      BY <2>2, <2>3, <2>5
         DEF SaveFailed, SaveCompleted, SaveApproved, SavePublished, At, TaskShape
    <2> QED BY <2>3, <2>4, <2>6 DEF At, TaskBacked, TaskShape, Path
  <1> QED BY <1>1, <1>2

LEMMA PublishedReceipt ==
  ASSUME IInv, NEW c \in Cases, Stored(c, "published")
  PROVE  repository[c].receipt \in Destinations
  BY DEF IInv, TypeOK, RecordsAreCoherent, Stored, Coherent, Record

LEMMA NextExported == IInv /\ RowsAreExported /\ [Next]_vars => RowsAreExported'
  <1> SUFFICES ASSUME IInv, RowsAreExported, [Next]_vars,
                      NEW c \in Cases, Stored(c, "published")'
               PROVE  exports'[<<repository'[c].receipt, c>>] # Nil
    BY DEF RowsAreExported
  <1>1. exports[<<repository'[c].receipt, c>>] # Nil
    BY PublishedRow DEF RowsAreExported
  <1>2. repository'[c].receipt \in Destinations
    BY NextKeeps DEF IInv, TypeOK, RecordsAreCoherent, Stored, Coherent, Record
  <1> QED BY <1>1, <1>2, StoresGrow DEF Grows

(* Both the file and the row are decisions on the case.                     *)
LEMMA FileAndRowAgree ==
  ASSUME IInv, NEW c \in Cases, Stored(c, "published"), DecisionsAgree(c),
         exports[<<repository[c].receipt, c>>] # Nil
  PROVE  SameKey(exports[<<repository[c].receipt, c>>], repository[c])
  <1>1. [case |-> c, export |-> exports[<<repository[c].receipt, c>>]] \in approvals
    BY PublishedReceipt DEF IInv, ExportsAreApproved
  <1>2. [case |-> c, export |-> Contents(repository[c])] \in approvals
    BY DEF IInv, RowsAreApproved
  <1>3. SameKey(exports[<<repository[c].receipt, c>>], Contents(repository[c]))
    BY <1>1, <1>2 DEF DecisionsAgree
  <1> QED BY <1>3 DEF SameKey, Contents

LEMMA ExportedImplies == IInv /\ RowsAreExported => PublishedIsExported
  BY FileAndRowAgree DEF RowsAreExported, PublishedIsExported

(* A published row has its file at every moment and after every crash, and  *)
(* the file says what the row says unless the decisions on the case differ. *)
THEOREM PublishedExported == Spec => []PublishedIsExported
  <1>1. Init => RowsAreExported
    BY DEF Init, RowsAreExported, Stored
  <1>2. Spec => []RowsAreExported
    BY <1>1, NextExported, Invariance, PTL DEF Spec
  <1> QED BY <1>2, Invariance, ExportedImplies, PTL

-----------------------------------------------------------------------------
(* Refinement *)

LEMMA GateInit == Init => Gate!Init
  BY DEF Init, Gate!Init

LEMMA GateStep == IInv /\ [Next]_vars => [Gate!Next]_(Gate!vars)
  <1> SUFFICES ASSUME IInv, [Next]_vars PROVE Gate!Next \/ UNCHANGED Gate!vars
    OBVIOUS
  <1>1. CASE UNCHANGED <<repository, exports, approvals>>
    BY <1>1 DEF Gate!vars
  <1>2. ASSUME NEW o \in Operators, Stores(o)
        PROVE  Gate!Next \/ UNCHANGED Gate!vars
    <2>1. CASE SaveFailed(o) \/ SaveCompleted(o) \/ SavePublished(o)
      BY <2>1 DEF SaveFailed, SaveCompleted, SavePublished, Gate!vars
    <2>2. CASE SaveApproved(o)
      <3>1. /\ task[o].case \in Cases /\ task[o].record \in Record
            /\ task[o].record.state = "approved" /\ Coherent(task[o].record)
        BY <2>2, RunningCall DEF SaveApproved, At, TaskShape
      <3>2. /\ Contents(task[o].record) \in Gate!Export
            /\ <<task[o].record.evidence, task[o].record.assessment>> \in Grounded
        BY <3>1, ApprovedContents DEF Export, Gate!Export
      <3>3. Gate!Grant(task[o].case, Contents(task[o].record))
        BY <2>2, <3>2 DEF SaveApproved, Gate!Grant, Contents
      <3> QED BY <3>1, <3>2, <3>3 DEF Gate!Next
    <2>3. CASE ExportReplace(o)
      <3>1. /\ task[o].case \in Cases /\ task[o].record \in Record
            /\ TaskShape(task[o]) /\ TaskBacked(o) /\ task[o].step = "writing"
        BY <2>3, RunningCall DEF ExportReplace, At
      <3>2. /\ task[o].destination \in Destinations
            /\ task[o].record.state = "approved" /\ Coherent(task[o].record)
            /\ [case |-> task[o].case, export |-> Contents(task[o].record)] \in approvals
        BY <3>1 DEF TaskShape, TaskBacked
      <3>3. Contents(task[o].record) \in Gate!Export
        BY <3>1, <3>2, ApprovedContents DEF Export, Gate!Export
      <3>4. Gate!Release(task[o].destination, task[o].case, Contents(task[o].record))
        BY <2>3, <3>2 DEF ExportReplace, Path, Gate!Release
      <3> QED BY <3>1, <3>2, <3>3, <3>4 DEF Gate!Next
    <2> QED BY <1>2, <2>1, <2>2, <2>3 DEF Stores
  <1> QED BY <1>1, <1>2, StoreSteps

(* The workflow implements ApprovalGate: its decisions are the gate's       *)
(* grants, os.replace is the gate's release, and nothing else touches       *)
(* either.                                                                  *)
THEOREM GateImplemented == Spec => ImplementsGate
  <1>1. Init => Gate!Init
    BY GateInit
  <1>2. IInv /\ [Next]_vars => [Gate!Next]_(Gate!vars)
    BY GateStep
  <1> QED BY <1>1, <1>2, Invariance, PTL DEF Spec, ImplementsGate, Gate!Spec
=============================================================================
