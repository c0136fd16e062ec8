------------------------ MODULE ReviewConsoleProofs ------------------------
(* The promises of ReviewConsole for any number of handlers and commands,   *)
(* any forms, any provider and any interruption.                            *)
EXTENDS ReviewConsole, EvidenceWorkflowProofs

LEMMA ConsoleSteps ==
  ASSUME [ConsoleNext]_allVars
  PROVE  [Next]_vars
  <1>1. CASE UNCHANGED allVars
    BY <1>1 DEF allVars
  <1>2. ASSUME NEW h \in Handlers, NEW f \in Forms, Post(h, f)
        PROVE  Next
    <2>1. h \in Operators /\ f.case \in Cases /\ f \in Form
      BY <1>2, ConsoleAssumption DEF Post, Submits, Refused, Form
    <2>2. f.path = "/approve" => f.reviewer \in Reviewers
      BY <1>2 DEF Post, Submits, Refused, Named
    <2>3. Start(h)
      BY <1>2, <2>1, <2>2, ConsoleAssumption DEF Post, Start
    <2> QED BY <2>1, <2>3 DEF Next
  <1>3. ASSUME NEW h \in Handlers, Serve(h) \/ Drop(h)
        PROVE  Next
    BY <1>3, ConsoleAssumption DEF Serve, Drop, Next
  <1>4. ASSUME NEW h \in Handlers, NEW f \in Forms, Get(h) \/ PostLate(h, f)
        PROVE  UNCHANGED vars
    BY <1>4 DEF Get, PostLate
  <1>5. ASSUME NEW h \in Handlers, Get(h)
        PROVE  UNCHANGED vars
    BY <1>5 DEF Get
  <1>6. ASSUME NEW o \in Commands, Command(o) \/ CutShort(o)
        PROVE  Next
    BY <1>6 DEF Command, CutShort, Commands, Next
  <1> QED BY <1>1, <1>2, <1>3, <1>4, <1>5, <1>6 DEF ConsoleNext

(* The console's threads and the commands beside them, seen through the     *)
(* stores and the calls they are in, are one run of the workflow: a page, a *)
(* refused form, a late answer and a command cut short are no new steps, so *)
(* what is proved of the workflow holds with the console in front of it.    *)
THEOREM WorkflowImplemented == ConsoleSpec => Spec
  <1>1. ConsoleInit => Init
    BY DEF ConsoleInit
  <1> QED BY <1>1, ConsoleSteps, PTL DEF ConsoleSpec, Spec

(* A form posted twice, posted late or posted beside a command releases     *)
(* nothing that was not granted: the console implements ApprovalGate.       *)
THEOREM ConsoleImplementsGate == ConsoleSpec => ImplementsGate
  BY WorkflowImplemented, GateImplemented, PTL

THEOREM ConsoleInvariance == ConsoleSpec => []IInv
  <1>1. ConsoleInit => IInv
    BY InitEstablishes DEF ConsoleInit
  <1>2. IInv /\ [ConsoleNext]_allVars => IInv'
    BY ConsoleSteps, NextKeeps
  <1> QED BY <1>1, <1>2, PTL DEF ConsoleSpec

-----------------------------------------------------------------------------
(* What a step of a call does to the assessment a row holds. *)

Held(c) == IF repository[c] = Nil THEN Nil ELSE repository[c].assessment

CopySteps == {"approving", "approved", "exporting", "writing", "publishing", "published"}

(* o works on a copy of the approved, or to be approved, record of c. *)
Copying(o, c) == task[o].case = c /\ task[o].step \in CopySteps

Decides(o, c) == Analysing(o, c) /\ task'[o].step \in {"failed", "completed"}

Keeps(o, c) == Copying(o, c) /\ Held(c)' = task[o].record.assessment

Effects(o) ==
  \A c \in Cases :
    /\ Held(c)' = Held(c) \/ Decides(o, c) \/ Keeps(o, c)
    /\ Analysing(o, c)' => Analysing(o, c) \/ (Held(c) = Nil /\ Held(c)' = Nil)
    /\ Copying(o, c)' =>
         \/ Copying(o, c) /\ task'[o].record.assessment = task[o].record.assessment
         \/ /\ Held(c) = task'[o].record.assessment
            /\ Held(c) # Nil
            /\ Held(c)' = Held(c)

LEMMA StartEffects ==
  ASSUME IInv, NEW o \in Operators, Start(o)
  PROVE  Effects(o)
  <1>1. task \in [Operators -> Task]
    BY DEF IInv, TypeOK
  <1>2. UNCHANGED repository
    BY StartsAreQuiet
  <1>3. \A c \in Cases : Held(c)' = Held(c)
    BY <1>2 DEF Held
  <1>4. \A c \in Cases : repository[c] # Nil =>
           repository[c] \in Record /\ Coherent(repository[c])
    BY DEF IInv, TypeOK, RecordsAreCoherent
  <1>5. PICK c \in Cases :
          \/ \E e \in Evidence :
               Analyze(o, c, e) \/ AnalyzeAgain(o, c, e) \/ AnalyzeRetry(o, c, e)
          \/ \E r \in Reviewers : Approve(o, c, r)
          \/ \E d \in Destinations :
               Publish(o, c, d) \/ PublishAgain(o, c, d) \/ PublishEarly(o, c, d)
    BY DEF Start
  <1>6. CASE \E e \in Evidence : Analyze(o, c, e) \/ AnalyzeRetry(o, c, e)
    <2>1. Held(c) = Nil
      BY <1>4, <1>6 DEF Analyze, AnalyzeRetry, Stored, Held, Coherent
    <2>2. task'[o].case = c /\ task'[o].step \in {"received", "rejected", "retried"}
      BY <1>1, <1>6 DEF Analyze, AnalyzeRetry, Submit, Begin
    <2> QED BY <1>3, <2>1, <2>2 DEF Effects, Analysing, Copying, CopySteps
  <1>7. CASE \E e \in Evidence : AnalyzeAgain(o, c, e)
    <2>1. task'[o].step = "deduplicated"
      BY <1>1, <1>7 DEF AnalyzeAgain, Begin
    <2> QED BY <1>3, <2>1 DEF Effects, Analysing, Copying, CopySteps, AnalysisSteps
  <1>8. CASE \E r \in Reviewers : Approve(o, c, r)
    <2>1. PICK r \in Reviewers : Approve(o, c, r)
      BY <1>8
    <2>2. repository[c] \in Record /\ repository[c].state = "pending_approval"
          /\ repository[c] # Nil /\ Coherent(repository[c])
      BY <1>4, <2>1 DEF Approve, Stored
    <2>3. /\ task'[o].case = c /\ task'[o].step = "approving"
          /\ task'[o].record.assessment = repository[c].assessment
      BY <1>1, <2>1, <2>2 DEF Approve, Begin, Record
    <2>4. Held(c) = repository[c].assessment /\ Held(c) # Nil
      BY <2>2 DEF Held, Coherent
    <2> QED BY <1>3, <2>3, <2>4 DEF Effects, Analysing, AnalysisSteps, Copying
  <1>9. CASE \E d \in Destinations : Publish(o, c, d)
    <2>1. PICK d \in Destinations : Publish(o, c, d)
      BY <1>9
    <2>2. repository[c] # Nil /\ repository[c].state = "approved"
          /\ Coherent(repository[c])
      BY <1>4, <2>1 DEF Publish, Stored
    <2>3. /\ task'[o].case = c /\ task'[o].step = "exporting"
          /\ task'[o].record = repository[c]
      BY <1>1, <2>1 DEF Publish, Begin
    <2>4. Held(c) = repository[c].assessment /\ Held(c) # Nil
      BY <2>2 DEF Held, Coherent
    <2> QED BY <1>3, <2>3, <2>4 DEF Effects, Analysing, AnalysisSteps, Copying
  <1>10. CASE \E d \in Destinations : PublishAgain(o, c, d) \/ PublishEarly(o, c, d)
    <2>1. task'[o].step \in {"publish_deduplicated", "publish_blocked"}
      BY <1>1, <1>10 DEF PublishAgain, PublishEarly, Begin
    <2> QED BY <1>3, <2>1 DEF Effects, Analysing, Copying, CopySteps, AnalysisSteps
  <1> QED BY <1>5, <1>6, <1>7, <1>8, <1>9, <1>10

(* A call that returns, logs, or goes on without touching a row. *)
LEMMA ReturnEffects ==
  ASSUME IInv, NEW o \in Operators, Return(o), UNCHANGED repository
  PROVE  Effects(o)
  <1>1. task'[o] = Idle
    BY DEF IInv, TypeOK, Return
  <1> QED BY <1>1 DEF Effects, Idle, Analysing, AnalysisSteps, Copying, CopySteps, Held

LEMMA AnalysisGoesOn ==
  ASSUME IInv, NEW o \in Operators, task[o].step \in AnalysisSteps,
         task'[o].case = task[o].case, task'[o].step \notin CopySteps,
         UNCHANGED repository
  PROVE  Effects(o)
  BY DEF Effects, Analysing, Copying, Held

LEMMA AnalyzeEffects ==
  ASSUME IInv, NEW o \in Operators, AnalyzeStep(o)
  PROVE  Effects(o)
  <1>1. task[o] \in Task /\ task \in [Operators -> Task]
    BY DEF IInv, TypeOK
  <1>2. CASE \/ LogDeduplicated(o) \/ LogRejected(o) \/ ProviderRaises(o)
             \/ Conflict(o, "failing") \/ Conflict(o, "completing")
             \/ LogFailed(o) \/ LogCompleted(o)
    BY <1>2, ReturnEffects DEF LogDeduplicated, LogRejected, ProviderRaises, Conflict,
                               LogFailed, LogCompleted
  <1>3. CASE \/ LogRetried(o) \/ LogReceived(o) \/ ProviderFails(o)
             \/ ProviderBusy(o) \/ LogRetry(o)
    <2>1. /\ task[o].step \in AnalysisSteps
          /\ UNCHANGED repository
      BY <1>3 DEF LogRetried, LogReceived, ProviderFails, ProviderBusy, LogRetry, At,
                  AnalysisSteps
    <2>2. task'[o].case = task[o].case
      BY <1>1, <1>3 DEF LogRetried, LogReceived, ProviderFails, ProviderBusy, LogRetry,
                        Advance, Task
    <2>3. task'[o].step \notin CopySteps
      BY <1>1, <1>3 DEF LogRetried, LogReceived, ProviderFails, ProviderBusy, LogRetry,
                        Advance, Submit, Task, CopySteps
    <2> QED BY <2>1, <2>2, <2>3, AnalysisGoesOn
  <1>4. CASE \E a \in Assessments : ProviderAnswers(o, a)
    <2>1. /\ task[o].step \in AnalysisSteps
          /\ UNCHANGED repository
          /\ task'[o].case = task[o].case
          /\ task'[o].step \notin CopySteps
      BY <1>1, <1>4 DEF ProviderAnswers, At, AnalysisSteps, CopySteps, Task
    <2> QED BY <2>1, AnalysisGoesOn
  <1>5. CASE SaveFailed(o) \/ SaveCompleted(o)
    <2>1. /\ task[o].step \in {"failing", "completing"}
          /\ Save(o)
          /\ task'[o].step \in {"failed", "completed"}
          /\ task'[o].case = task[o].case
      BY <1>1, <1>5 DEF SaveFailed, SaveCompleted, At, Advance, Task
    <2>2. ASSUME NEW c \in Cases, c # task[o].case
          PROVE  Held(c)' = Held(c)
      BY <2>1, <2>2 DEF Save, Held, IInv, TypeOK
    <2> QED BY <2>1, <2>2
            DEF Effects, Analysing, AnalysisSteps, Copying, CopySteps, Decides
  <1> QED BY <1>2, <1>3, <1>4, <1>5 DEF AnalyzeStep

(* A save of the copy leaves the assessment that the copy has. *)
LEMMA SaveCopyEffects ==
  ASSUME IInv, NEW o \in Operators, task[o].step \in {"approving", "publishing"},
         Save(o), task'[o].step \in CopySteps, task'[o].case = task[o].case,
         task'[o].record = task[o].record
  PROVE  Effects(o)
  <1>1. task[o].case \in Cases /\ task[o].record \in Record
    BY RunningCall DEF At
  <1>2. ASSUME NEW c \in Cases
        PROVE  Held(c)' = Held(c) \/ Keeps(o, c)
    <2>1. CASE c # task[o].case
      BY <2>1 DEF Save, Held, IInv, TypeOK
    <2>2. CASE c = task[o].case
      <3>1. repository'[c] = task[o].record /\ repository'[c] # Nil
        BY <1>1, <2>2, NoRecordAssumption DEF Save, IInv, TypeOK
      <3> QED BY <2>2, <3>1 DEF Keeps, Copying, CopySteps, Held
    <2> QED BY <2>1, <2>2
  <1> QED BY <1>2 DEF Effects, Analysing, AnalysisSteps, Copying, CopySteps

LEMMA ApproveEffects ==
  ASSUME IInv, NEW o \in Operators, ApproveStep(o)
  PROVE  Effects(o)
  <1>1. CASE LogApproved(o)
    BY <1>1, ReturnEffects DEF LogApproved
  <1>2. CASE SaveApproved(o)
    <2>1. Advance(o, "approved") /\ Save(o) /\ task[o].step = "approving"
      BY <1>2 DEF SaveApproved, At
    <2> QED BY <2>1, AdvanceMoves, SaveCopyEffects DEF Steps, CopySteps
  <1> QED BY <1>1, <1>2 DEF ApproveStep

LEMMA PublishEffects ==
  ASSUME IInv, NEW o \in Operators, PublishStep(o)
  PROVE  Effects(o)
  <1>1. task[o] \in Task /\ task \in [Operators -> Task]
    BY DEF IInv, TypeOK
  <1>2. CASE \/ LogPublishDeduplicated(o) \/ LogPublishBlocked(o)
             \/ ExportDiffers(o) \/ LogPublished(o)
    BY <1>2, ReturnEffects DEF LogPublishDeduplicated, LogPublishBlocked,
                               ExportDiffers, LogPublished
  <1>3. CASE ExportFound(o) \/ ExportMissing(o) \/ ExportReplace(o)
    <2>1. /\ UNCHANGED repository
          /\ task[o].step \in {"exporting", "writing"}
      BY <1>3 DEF ExportFound, ExportMissing, ExportReplace, At
    <2>2. task[o].record \in Record
      BY <2>1, RunningCall DEF At
    <2>3. /\ task'[o].case = task[o].case
          /\ task'[o].step \in {"writing", "publishing"}
          /\ task'[o].record.assessment = task[o].record.assessment
      BY <1>1, <1>3, <2>2 DEF ExportFound, ExportMissing, ExportReplace, Receipted,
                              Advance, Task, Record
    <2> QED BY <2>1, <2>3 DEF Effects, Analysing, AnalysisSteps, Copying, CopySteps, Held
  <1>4. CASE SavePublished(o)
    <2>1. Advance(o, "published") /\ Save(o) /\ task[o].step = "publishing"
      BY <1>4 DEF SavePublished, At
    <2> QED BY <2>1, AdvanceMoves, SaveCopyEffects DEF Steps, CopySteps
  <1> QED BY <1>2, <1>3, <1>4 DEF PublishStep

LEMMA CallEffects ==
  ASSUME IInv, NEW o \in Operators, Call(o)
  PROVE  Effects(o)
  BY StartEffects, AnalyzeEffects, ApproveEffects, PublishEffects, ReturnEffects
     DEF Call, Step, Interrupt

-----------------------------------------------------------------------------
(* One case: as long as no two analyses of it meet, an assessment that its  *)
(* row holds stays.                                                         *)

Settled(c) ==
  /\ \A p, q \in Operators : Analysing(p, c) /\ Analysing(q, c) => p = q
  /\ \A p \in Operators : Analysing(p, c) => Held(c) = Nil
  /\ \A p \in Operators :
       Copying(p, c) => Held(c) = task[p].record.assessment /\ Held(c) # Nil

LEMMA OneCaseKept ==
  ASSUME IInv, NEW o \in Operators, Call(o), NEW c \in Cases, Settled(c), ~ Meets(o, c)
  PROVE  Settled(c)' /\ (Held(c) # Nil => Held(c)' = Held(c))
  <1>1. \A p \in Operators \ {o} : task'[p] = task[p]
    BY CallMoves DEF Moves
  <1>2. \A p \in Operators \ {o} : Analysing(p, c)' <=> Analysing(p, c)
    BY <1>1 DEF Analysing
  <1>3. \A p \in Operators \ {o} : Copying(p, c)' <=> Copying(p, c)
    BY <1>1 DEF Copying
  <1>4. /\ Held(c)' = Held(c) \/ Decides(o, c) \/ Keeps(o, c)
        /\ Analysing(o, c)' => Analysing(o, c) \/ (Held(c) = Nil /\ Held(c)' = Nil)
        /\ Copying(o, c)' =>
             \/ Copying(o, c) /\ task'[o].record.assessment = task[o].record.assessment
             \/ /\ Held(c) = task'[o].record.assessment
                /\ Held(c) # Nil
                /\ Held(c)' = Held(c)
    BY CallEffects DEF Effects
  <1>5. Held(c) # Nil => Held(c)' = Held(c)
    BY <1>4 DEF Settled, Decides, Keeps
  <1>6. ~ (Analysing(o, c) /\ Copying(o, c)) /\ ~ (Decides(o, c) /\ Analysing(o, c)')
    BY DEF Analysing, AnalysisSteps, Copying, CopySteps, Decides
  <1>7. ASSUME NEW p \in Operators, NEW q \in Operators, Analysing(p, c)', Analysing(q, c)'
        PROVE  p = q
    <2>1. CASE p # o /\ q # o
      BY <1>2, <1>7, <2>1 DEF Settled
    <2>2. CASE p = o \/ q = o
      BY <1>2, <1>7, <2>2 DEF Meets
    <2> QED BY <2>1, <2>2
  <1>8. ASSUME NEW p \in Operators, Analysing(p, c)'
        PROVE  Held(c)' = Nil
    <2>1. CASE p = o
      BY <1>4, <1>6, <1>8, <2>1 DEF Settled, Keeps
    <2>2. CASE p # o
      BY <1>2, <1>4, <1>8, <2>2 DEF Settled, Decides, Keeps
    <2> QED BY <2>1, <2>2
  <1>9. ASSUME NEW p \in Operators, Copying(p, c)'
        PROVE  Held(c)' = task'[p].record.assessment /\ Held(c)' # Nil
    <2>1. CASE p = o
      BY <1>4, <1>5, <1>9, <2>1 DEF Settled
    <2>2. CASE p # o
      BY <1>1, <1>3, <1>5, <1>9, <2>2 DEF Settled
    <2> QED BY <2>1, <2>2
  <1> QED BY <1>5, <1>7, <1>8, <1>9 DEF Settled

(* Only a start takes a call into an analysis, and only a start into        *)
(* an approval.                                                             *)
LEMMA StepsStay ==
  ASSUME IInv, NEW o \in Operators, Step(o) \/ Interrupt(o)
  PROVE  /\ \A c \in Cases : Analysing(o, c)' => Analysing(o, c)
         /\ task'[o].step \in {"approving", "approved"} =>
              /\ task[o].step \in {"approving", "approved"}
              /\ task'[o].case = task[o].case
              /\ task'[o].record = task[o].record
  <1>1. task[o] \in Task /\ task \in [Operators -> Task]
    BY DEF IInv, TypeOK
  <1>2. CASE AnalyzeStep(o)
    <2>1. CASE \/ LogDeduplicated(o) \/ LogRejected(o) \/ ProviderRaises(o)
               \/ Conflict(o, "failing") \/ Conflict(o, "completing")
               \/ LogFailed(o) \/ LogCompleted(o)
      BY <1>1, <2>1 DEF LogDeduplicated, LogRejected, ProviderRaises, Conflict,
                        LogFailed, LogCompleted, Return, Idle, Analysing, AnalysisSteps
    <2>2. CASE LogRetried(o) \/ LogReceived(o) \/ ProviderFails(o) \/ ProviderBusy(o)
      BY <1>1, <2>2 DEF LogRetried, LogReceived, ProviderFails, ProviderBusy, Submit,
                        Advance, Task, At, Analysing, AnalysisSteps
    <2>3. CASE LogRetry(o)
      BY <1>1, <2>3 DEF LogRetry, Task, At, Analysing, AnalysisSteps
    <2>4. CASE \E a \in Assessments : ProviderAnswers(o, a)
      BY <1>1, <2>4 DEF ProviderAnswers, Task, At, Analysing, AnalysisSteps
    <2>5. CASE SaveFailed(o) \/ SaveCompleted(o)
      BY <1>1, <2>5 DEF SaveFailed, SaveCompleted, Advance, Task, Analysing, AnalysisSteps
    <2> QED BY <1>2, <2>1, <2>2, <2>3, <2>4, <2>5 DEF AnalyzeStep
  <1>3. CASE ApproveStep(o)
    BY <1>1, <1>3 DEF ApproveStep, SaveApproved, LogApproved, Advance, Return, Idle, At,
                      Task, Analysing, AnalysisSteps
  <1>4. CASE PublishStep(o)
    BY <1>1, <1>4 DEF PublishStep, LogPublishDeduplicated, LogPublishBlocked,
            ExportFound, ExportDiffers, ExportMissing, ExportReplace, SavePublished,
            LogPublished, Receipted, Advance, Return, Idle, At, Task, Analysing,
            AnalysisSteps
  <1>5. CASE Interrupt(o)
    BY <1>1, <1>5 DEF Interrupt, Return, Idle, Analysing, AnalysisSteps
  <1> QED BY <1>2, <1>3, <1>4, <1>5 DEF Step

-----------------------------------------------------------------------------
(* Types, and a browser that waits exactly while its handler is in a call *)

LEMMA CardTypes ==
  ASSUME IInv, NEW c \in Cases
  PROVE  /\ Page[c] \in [offers : {"nothing", "/approve", "/publish"},
                         assessment : Assessments \cup {Nil}]
         /\ Page[c].offers = "/approve" =>
              Held(c) = Page[c].assessment /\ Held(c) # Nil
  <1>1. repository[c] # Nil => repository[c] \in Record /\ Coherent(repository[c])
    BY DEF IInv, TypeOK, RecordsAreCoherent
  <1>2. Page[c] = Card(repository[c])
    BY DEF Page
  <1>3. CASE repository[c] = Nil
    BY <1>2, <1>3 DEF Card
  <1>4. CASE repository[c] # Nil /\ repository[c].state = "pending_approval"
    <2>1. /\ Page[c] = [offers |-> "/approve", assessment |-> repository[c].assessment]
          /\ repository[c].assessment \in Assessments \cup {Nil}
          /\ repository[c].assessment # Nil
      BY <1>1, <1>2, <1>4 DEF Card, Record, Coherent
    <2> QED BY <1>4, <2>1 DEF Held
  <1>5. CASE repository[c] # Nil /\ repository[c].state = "approved"
    BY <1>2, <1>5 DEF Card
  <1>6. CASE repository[c] # Nil /\ repository[c].state \notin {"pending_approval", "approved"}
    BY <1>2, <1>6 DEF Card
  <1> QED BY <1>3, <1>4, <1>5, <1>6

LEMMA OwesEntries ==
  ASSUME IInv, NEW o \in Operators
  PROVE  Owes(o) \subseteq Entry
  <1>1. CASE At(o, "approved")
    <2>1. /\ task[o].case \in Cases /\ task[o].record \in Record
          /\ task[o].record.state = "approved" /\ Coherent(task[o].record)
      BY <1>1, RunningCall DEF At, TaskShape
    <2>2. task[o].record.reviewer \in Reviewers
      BY <2>1 DEF Coherent, Record
    <2> QED BY <1>1, <2>1, <2>2 DEF Owes, Entry, Events, Transitions, At
  <1>2. CASE task[o].step \in {"publishing", "published"}
    <2>1. task[o].case \in Cases /\ task[o].destination \in Destinations
      BY <1>2, RunningCall DEF At, TaskShape
    <2> QED BY <1>2, <2>1 DEF Owes, Entry, Events, Transitions, At
  <1>3. CASE ~ At(o, "approved") /\ task[o].step \notin {"publishing", "published"}
    BY <1>3 DEF Owes
  <1> QED BY <1>1, <1>2, <1>3

LEMMA AnswerTypes ==
  ASSUME ConsoleTypeOK, NEW h \in Handlers, NEW f \in Forms \cup {Nil},
         NEW code \in {"none", "awaited", "see_other", "conflict"},
         NEW stored \in BOOLEAN, Answer(h, f, code, stored)
  PROVE  /\ session' \in [Handlers -> Session]
         /\ session'[h].page = session[h].page
         /\ session'[h].form = f
         /\ session'[h].answer = code
         /\ session'[h].stored = stored
         /\ \A k \in Handlers \ {h} : session'[k] = session[k]
  <1> DEFINE told == [page |-> session[h].page, form |-> f, answer |-> code,
                      stored |-> stored]
  <1>1. session[h] \in Session /\ session \in [Handlers -> Session]
    BY DEF ConsoleTypeOK
  <1>2. told \in Session
    BY <1>1 DEF Session
  <1>3. session' = [session EXCEPT ![h] = told]
    BY DEF Answer
  <1>4. session'[h] = told /\ session' \in [Handlers -> Session]
        /\ \A k \in Handlers \ {h} : session'[k] = session[k]
    BY <1>1, <1>2, <1>3
  <1> QED BY <1>4

(* What a step of handler h does to h itself. *)
LEMMA PostTypes ==
  ASSUME IInv, ConsoleTypeOK, NEW h \in Handlers, NEW f \in Forms, Post(h, f)
  PROVE  /\ session' \in [Handlers -> Session]
         /\ session'[h].page = session[h].page
         /\ session'[h].form = f
         /\ session'[h].answer = "awaited"
         /\ session'[h].stored = FALSE
         /\ \A k \in Handlers \ {h} : session'[k] = session[k]
         /\ task'[h] # Idle
         /\ f.case \in Cases /\ task'[h].case = f.case
         /\ task'[h].step \in {"approving", "exporting", "publish_deduplicated",
                               "publish_blocked"}
         /\ f.path = "/approve" <=> task'[h].step = "approving"
  <1>1. f \in Form /\ h \in Operators /\ f.case \in Cases
        /\ f.path \in {"/approve", "/publish"}
    BY ConsoleAssumption DEF Post, Submits, Refused, Form
  <1>2. task \in [Operators -> Task]
    BY DEF IInv, TypeOK
  <1>3. Answer(h, f, "awaited", FALSE)
    BY DEF Post
  <1>4. /\ session' \in [Handlers -> Session]
        /\ session'[h].page = session[h].page
        /\ session'[h].form = f
        /\ session'[h].answer = "awaited"
        /\ session'[h].stored = FALSE
        /\ \A k \in Handlers \ {h} : session'[k] = session[k]
    BY <1>3, AnswerTypes
  <1>5. /\ task'[h].case = f.case
        /\ f.path = "/approve" => task'[h].step = "approving"
        /\ f.path # "/approve" => task'[h].step \in {"exporting", "publish_deduplicated",
                                                     "publish_blocked"}
    BY <1>1, <1>2 DEF Post, Approve, Publish, PublishAgain, PublishEarly, Begin
  <1> QED BY <1>1, <1>3, <1>4, <1>5 DEF Idle, Post, Submits

LEMMA ConsoleTypeKept ==
  IInv /\ ConsoleTypeOK /\ [ConsoleNext]_allVars => ConsoleTypeOK'
  <1> SUFFICES ASSUME IInv, ConsoleTypeOK, [ConsoleNext]_allVars PROVE ConsoleTypeOK'
    OBVIOUS
  <1> USE ConsoleAssumption
  <1>1. CASE UNCHANGED allVars
    BY <1>1 DEF allVars, vars, consoleVars, ConsoleTypeOK, Free
  <1>2. ASSUME NEW h \in Handlers, Get(h)
        PROVE  ConsoleTypeOK'
    <2>1. [page |-> Page, form |-> Nil, answer |-> "none", stored |-> FALSE] \in Session
      BY CardTypes DEF Session, Page
    <2>2. /\ session' \in [Handlers -> Session]
          /\ session'[h].answer = "none"
          /\ \A k \in Handlers \ {h} : session'[k] = session[k]
      BY <1>2, <2>1 DEF Get, ConsoleTypeOK
    <2> QED BY <1>2, <2>2 DEF Get, ConsoleTypeOK, Free, vars
  <1>3. ASSUME NEW h \in Handlers, NEW f \in Forms, Post(h, f)
        PROVE  ConsoleTypeOK'
    <2>1. /\ session' \in [Handlers -> Session]
          /\ session'[h].answer = "awaited" /\ task'[h] # Idle
          /\ \A k \in Handlers \ {h} : session'[k] = session[k]
      BY <1>3, PostTypes
    <2>2. Call(h)
      <3>1. f.case \in Cases /\ f.reviewer \in Reviewers \cup {Nil}
        BY <1>3, PostTypes DEF Form
      <3> QED BY <1>3, <3>1 DEF Post, Submits, Refused, Named, Call, Start
    <2>3. \A k \in Handlers \ {h} : task'[k] = task[k]
      BY <2>2, CallMoves DEF Moves
    <2> QED BY <1>3, <2>1, <2>3 DEF Post, ConsoleTypeOK, Free
  <1>4. ASSUME NEW h \in Handlers, NEW f \in Forms, PostLate(h, f)
        PROVE  ConsoleTypeOK'
    <2>1. /\ session' \in [Handlers -> Session]
          /\ session'[h].answer # "awaited" /\ session[h].answer # "awaited"
          /\ \A k \in Handlers \ {h} : session'[k] = session[k]
      BY <1>4, AnswerTypes DEF PostLate, Submits, Free
    <2> QED BY <1>4, <2>1 DEF PostLate, ConsoleTypeOK, Free, vars
  <1>5. ASSUME NEW h \in Handlers, Serve(h)
        PROVE  ConsoleTypeOK'
    <2>1. \A k \in Handlers \ {h} : task'[k] = task[k]
      BY <1>5, CallMoves DEF Moves, Call, Serve
    <2>2. /\ Outcome(h) \in {"none", "awaited", "see_other", "conflict"}
          /\ Outcome(h) = "awaited" <=> task'[h] # Idle
      BY DEF Outcome
    <2>3. /\ session' \in [Handlers -> Session]
          /\ session'[h].answer = Outcome(h)
          /\ \A k \in Handlers \ {h} : session'[k] = session[k]
      <3>1. session[h].form \in Forms \cup {Nil}
        BY DEF ConsoleTypeOK, Session
      <3>2. PICK code \in {"none", "awaited", "see_other", "conflict"} : code = Outcome(h)
        BY <2>2
      <3>3. CASE Answer(h, Nil, "none", FALSE) /\ Outcome(h) = "none"
        BY <3>3, AnswerTypes
      <3>4. CASE \E stored \in BOOLEAN : Answer(h, session[h].form, code, stored)
        BY <3>1, <3>2, <3>4, AnswerTypes
      <3>5. session[h].stored \in BOOLEAN
        BY DEF ConsoleTypeOK, Session
      <3> QED BY <1>5, <3>2, <3>3, <3>4, <3>5 DEF Serve
    <2> QED BY <1>5, <2>1, <2>2, <2>3 DEF Serve, ConsoleTypeOK, Free
  <1>6. ASSUME NEW h \in Handlers, Drop(h)
        PROVE  ConsoleTypeOK'
    <2>1. \A k \in Handlers \ {h} : task'[k] = task[k]
      BY <1>6, CallMoves DEF Moves, Call, Drop
    <2>2. task'[h] = Idle
      BY <1>6 DEF Drop, Interrupt, Return, IInv, TypeOK
    <2>3. /\ session' \in [Handlers -> Session]
          /\ session'[h].answer = "none"
          /\ \A k \in Handlers \ {h} : session'[k] = session[k]
      BY <1>6, AnswerTypes DEF Drop
    <2>4. Owes(h) \subseteq Entry
      BY OwesEntries
    <2> QED BY <1>6, <2>1, <2>2, <2>3, <2>4 DEF Drop, ConsoleTypeOK, Free
  <1>7. ASSUME NEW o \in Commands, Command(o) \/ CutShort(o)
        PROVE  ConsoleTypeOK'
    <2>1. \A k \in Handlers : task'[k] = task[k]
      BY <1>7, CallMoves DEF Moves, Call, Command, CutShort, Commands
    <2>2. Owes(o) \subseteq Entry
      BY OwesEntries DEF Commands
    <2> QED BY <1>7, <2>1, <2>2 DEF Command, CutShort, ConsoleTypeOK, Free
  <1> QED BY <1>1, <1>2, <1>3, <1>4, <1>5, <1>6, <1>7 DEF ConsoleNext

LEMMA ConsoleTypeInit == ConsoleInit => ConsoleTypeOK
  <1> SUFFICES ASSUME ConsoleInit PROVE ConsoleTypeOK
    OBVIOUS
  <1>1. Card(Nil) = [offers |-> "nothing", assessment |-> Nil]
    BY DEF Card
  <1>2. NoPage \in [Cases -> [offers : {"nothing", "/approve", "/publish"},
                              assessment : Assessments \cup {Nil}]]
    BY <1>1 DEF NoPage
  <1> QED BY <1>2, ConsoleAssumption DEF ConsoleInit, Init, ConsoleTypeOK, Session, Free

(* Type correctness of the console; a browser waits for an answer exactly   *)
(* as long as its handler is in a call.                                     *)
THEOREM ConsoleTypeCorrect == ConsoleSpec => []ConsoleTypeOK
  BY ConsoleTypeInit, ConsoleTypeKept, ConsoleInvariance, PTL DEF ConsoleSpec

-----------------------------------------------------------------------------
(* What the reviewer approves is what his page showed *)

PagesAreCurrent ==
  \A h \in Handlers, c \in Cases \ contested :
    session[h].page[c].offers = "/approve" =>
      Held(c) = session[h].page[c].assessment /\ Held(c) # Nil

SeenInv ==
  /\ \A h \in Handlers, c \in Cases : ~ Analysing(h, c)
  /\ \A c \in Cases \ contested : Settled(c)
  /\ PagesAreCurrent
  /\ SeenIsApproved

(* The cases that no meeting of analyses concerns stay as they are. *)
LEMMA CasesKept ==
  ASSUME IInv, SeenInv, NEW o \in Operators, Call(o), contested \subseteq contested',
         \A c \in Cases \ contested' : ~ Meets(o, c)
  PROVE  /\ \A c \in Cases \ contested' : Settled(c)'
         /\ \A c \in Cases \ contested' : Held(c) # Nil => Held(c)' = Held(c)
  BY OneCaseKept DEF SeenInv

(* The step of a command leaves every browser alone. *)
LEMMA CommandsUnseen ==
  ASSUME IInv, ConsoleTypeOK, SeenInv, NEW o \in Operators \ Handlers, Call(o),
         contested \subseteq contested', \A c \in Cases \ contested' : ~ Meets(o, c),
         UNCHANGED session
  PROVE  SeenInv'
  <1>1. \A h \in Handlers : task'[h] = task[h]
    BY CallMoves, ConsoleAssumption DEF Moves
  <1>2. (\A h \in Handlers, c \in Cases : ~ Analysing(h, c))'
    BY <1>1 DEF SeenInv, Analysing
  <1>3. PagesAreCurrent'
    BY CasesKept DEF SeenInv, PagesAreCurrent
  <1>4. SeenIsApproved'
    BY <1>1 DEF SeenInv, SeenIsApproved
  <1> QED BY <1>2, <1>3, <1>4, CasesKept DEF SeenInv

(* The step of a handler that keeps the page of its browser. *)
LEMMA HandlersSeen ==
  ASSUME IInv, ConsoleTypeOK, SeenInv, NEW h \in Handlers, Call(h),
         UNCHANGED contested,
         \A k \in Handlers : session'[k].page = session[k].page,
         \A c \in Cases : ~ Analysing(h, c)',
         /\ task'[h].step \in {"approving", "approved"}
         /\ session[h].page[task'[h].case].offers = "/approve"
         /\ task'[h].case \notin contested
         => task'[h].record.assessment = session[h].page[task'[h].case].assessment
  PROVE  SeenInv'
  <1>1. h \in Operators /\ \A k \in Handlers \ {h} : task'[k] = task[k]
    BY CallMoves, ConsoleAssumption DEF Moves
  <1>2. \A c \in Cases : ~ Meets(h, c)
    BY DEF Meets
  <1>3. (\A k \in Handlers, c \in Cases : ~ Analysing(k, c))'
    <2> SUFFICES ASSUME NEW k \in Handlers, NEW c \in Cases PROVE ~ Analysing(k, c)'
      OBVIOUS
    <2> QED BY <1>1 DEF SeenInv, Analysing
  <1>4. /\ \A c \in Cases \ contested : Settled(c)'
        /\ \A c \in Cases \ contested : Held(c) # Nil => Held(c)' = Held(c)
    BY <1>1, <1>2, CasesKept
  <1>5. PagesAreCurrent'
    BY <1>4 DEF SeenInv, PagesAreCurrent
  <1>6. SeenIsApproved'
    <2> SUFFICES ASSUME NEW k \in Handlers,
                        task'[k].step \in {"approving", "approved"},
                        session'[k].page[task'[k].case].offers = "/approve",
                        task'[k].case \notin contested
                 PROVE  task'[k].record.assessment
                          = session'[k].page[task'[k].case].assessment
      BY DEF SeenIsApproved
    <2>1. CASE k = h
      BY <2>1
    <2>2. CASE k # h
      BY <1>1, <2>2 DEF SeenInv, SeenIsApproved
    <2> QED BY <2>1, <2>2
  <1> QED BY <1>3, <1>4, <1>5, <1>6 DEF SeenInv

LEMMA SeenKept ==
  IInv /\ ConsoleTypeOK /\ SeenInv /\ [ConsoleNext]_allVars => SeenInv'
  <1> SUFFICES ASSUME IInv, ConsoleTypeOK, SeenInv, [ConsoleNext]_allVars PROVE SeenInv'
    OBVIOUS
  <1>1. ASSUME UNCHANGED vars, UNCHANGED contested,
               \A h \in Handlers : task[h].step \in {"approving", "approved"} =>
                 session'[h].page = session[h].page,
               PagesAreCurrent'
        PROVE  SeenInv'
    <2>1. \A c \in Cases : Settled(c)' <=> Settled(c)
      BY <1>1 DEF vars, Settled, Analysing, Copying, Held
    <2>2. SeenIsApproved'
      BY <1>1 DEF vars, SeenInv, SeenIsApproved
    <2>3. (\A h \in Handlers, c \in Cases : ~ Analysing(h, c))'
      BY <1>1 DEF vars, SeenInv, Analysing
    <2> QED BY <1>1, <2>1, <2>2, <2>3 DEF SeenInv
  <1>2. CASE UNCHANGED allVars
    <2>1. PagesAreCurrent'
      BY <1>2 DEF allVars, vars, consoleVars, SeenInv, PagesAreCurrent, Held
    <2> QED BY <1>1, <1>2, <2>1 DEF allVars, consoleVars
  <1>3. ASSUME NEW h \in Handlers, Get(h)
        PROVE  SeenInv'
    <2>1. /\ session'[h].page = Page
          /\ \A k \in Handlers \ {h} : session'[k] = session[k]
      BY <1>3 DEF Get, ConsoleTypeOK
    <2>2. task[h].step = "idle"
      BY <1>3 DEF Get, ConsoleTypeOK, Idle
    <2>3. PagesAreCurrent'
      <3> SUFFICES ASSUME NEW k \in Handlers, NEW c \in Cases \ contested,
                          session'[k].page[c].offers = "/approve"
                   PROVE  Held(c) = session'[k].page[c].assessment /\ Held(c) # Nil
        BY <1>3 DEF PagesAreCurrent, Held, Get, vars
      <3>1. CASE k = h
        BY <2>1, <3>1, CardTypes
      <3>2. CASE k # h
        BY <2>1, <3>2 DEF SeenInv, PagesAreCurrent
      <3> QED BY <3>1, <3>2
    <2>4. \A k \in Handlers : task[k].step \in {"approving", "approved"} =>
            session'[k].page = session[k].page
      BY <2>1, <2>2
    <2> QED BY <1>1, <1>3, <2>3, <2>4 DEF Get
  <1>4. ASSUME NEW h \in Handlers, NEW f \in Forms, PostLate(h, f)
        PROVE  SeenInv'
    <2>1. f \in Forms \cup {Nil}
      OBVIOUS
    <2>2. \A k \in Handlers : session'[k].page = session[k].page
      BY <1>4, AnswerTypes DEF PostLate
    <2>3. PagesAreCurrent'
      BY <1>4, <2>2 DEF PostLate, vars, SeenInv, PagesAreCurrent, Held
    <2> QED BY <1>1, <1>4, <2>2, <2>3 DEF PostLate
  <1>5. ASSUME NEW h \in Handlers, NEW f \in Forms, Post(h, f)
        PROVE  SeenInv'
    <2>1. /\ \A k \in Handlers : session'[k].page = session[k].page
          /\ f.case \in Cases /\ task'[h].case = f.case
          /\ task'[h].step \in {"approving", "exporting", "publish_deduplicated",
                                "publish_blocked"}
          /\ f.path = "/approve" <=> task'[h].step = "approving"
      BY <1>5, PostTypes
    <2>2. Start(h)
      <3>1. f.reviewer \in Reviewers \cup {Nil}
        BY ConsoleAssumption DEF Form
      <3> QED BY <1>5, <2>1, <3>1, ConsoleAssumption
              DEF Post, Submits, Refused, Named, Start
    <2>3. \A c \in Cases : ~ Analysing(h, c)'
      BY <2>1 DEF Analysing, AnalysisSteps
    <2>4. ASSUME task'[h].step = "approving", f.case \notin contested,
                 session[h].page[f.case].offers = "/approve"
          PROVE  task'[h].record.assessment = session[h].page[f.case].assessment
      <3>1. Held(f.case) = session[h].page[f.case].assessment
        BY <2>1, <2>4 DEF SeenInv, PagesAreCurrent
      <3>2. Approve(h, f.case, f.reviewer)
        BY <1>5, <2>1, <2>4 DEF Post
      <3>3. repository[f.case] \in Record /\ repository[f.case] # Nil
        BY <2>1, <3>2 DEF Approve, Stored, IInv, TypeOK
      <3>4. task'[h].record.assessment = repository[f.case].assessment
        BY <3>2, <3>3, ConsoleAssumption DEF Approve, Begin, Record, IInv, TypeOK
      <3> QED BY <3>1, <3>3, <3>4 DEF Held
    <2> QED BY <1>5, <2>1, <2>2, <2>3, <2>4, HandlersSeen DEF Call, Post
  <1>6. ASSUME NEW h \in Handlers, Serve(h) \/ Drop(h)
        PROVE  SeenInv'
    <2>1. h \in Operators /\ (Step(h) \/ Interrupt(h)) /\ UNCHANGED contested
      BY <1>6, ConsoleAssumption DEF Serve, Drop
    <2>2. \A k \in Handlers : session'[k].page = session[k].page
      BY <1>6 DEF Serve, Drop, Answer, ConsoleTypeOK
    <2>3. \A c \in Cases : ~ Analysing(h, c)'
      BY <2>1, StepsStay DEF SeenInv
    <2>4. ASSUME task'[h].step \in {"approving", "approved"}, task'[h].case \notin contested,
                 session[h].page[task'[h].case].offers = "/approve"
          PROVE  task'[h].record.assessment = session[h].page[task'[h].case].assessment
      BY <2>1, <2>4, StepsStay DEF SeenInv, SeenIsApproved
    <2> QED BY <2>1, <2>2, <2>3, <2>4, HandlersSeen DEF Call
  <1>7. ASSUME NEW o \in Commands, Command(o) \/ CutShort(o)
        PROVE  SeenInv'
    <2>1. o \in Operators \ Handlers /\ UNCHANGED session
      BY <1>7 DEF Commands, Command, CutShort
    <2>2. Call(o) /\ contested \subseteq contested'
      BY <1>7 DEF Call, Command, CutShort
    <2>3. \A c \in Cases \ contested' : ~ Meets(o, c)
      <3>1. CASE Command(o)
        BY <3>1 DEF Command
      <3>2. CASE CutShort(o)
        BY <2>1, <3>2 DEF CutShort, Interrupt, Return, Idle, IInv, TypeOK, Meets,
                          Analysing, AnalysisSteps
      <3> QED BY <1>7, <3>1, <3>2
    <2> QED BY <2>1, <2>2, <2>3, CommandsUnseen
  <1> QED BY <1>2, <1>3, <1>4, <1>5, <1>6, <1>7 DEF ConsoleNext

LEMMA SeenInit == ConsoleInit => SeenInv
  <1> SUFFICES ASSUME ConsoleInit PROVE SeenInv
    OBVIOUS
  <1>1. \A o \in Operators : task[o].step = "idle"
    BY DEF ConsoleInit, Init, Idle
  <1>2. \A h \in Handlers, c \in Cases : session[h].page[c].offers = "nothing"
    BY DEF ConsoleInit, NoPage, Card
  <1>3. \A o \in Operators, c \in Cases : ~ Analysing(o, c) /\ ~ Copying(o, c)
    BY <1>1 DEF Analysing, AnalysisSteps, Copying, CopySteps
  <1> QED BY <1>1, <1>2, <1>3, ConsoleAssumption
          DEF SeenInv, Settled, PagesAreCurrent, SeenIsApproved

(* A decision taken by a form of the page, however old, is about the        *)
(* assessment the page showed, unless two analyses of the case were under way at once. *)
THEOREM SeenApproved == ConsoleSpec => []SeenIsApproved
  <1>1. SeenInv => SeenIsApproved
    BY DEF SeenInv
  <1> QED BY <1>1, SeenInit, SeenKept, ConsoleInvariance, ConsoleTypeCorrect, PTL
          DEF ConsoleSpec

-----------------------------------------------------------------------------
(* Every effect is accounted for *)

LEMMA LogGrows ==
  ASSUME NEW o \in Operators, Call(o)
  PROVE  audit \subseteq audit'
  <1>1. CASE Start(o)
    BY <1>1, StartsAreQuiet
  <1>2. CASE AnalyzeStep(o)
    BY <1>2 DEF AnalyzeStep, LogDeduplicated, LogRetried, LogRejected, LogReceived,
                ProviderAnswers, ProviderFails, ProviderBusy, ProviderRaises, LogRetry,
                Conflict, LogFailed, LogCompleted, SaveFailed, SaveCompleted, Log
  <1>3. CASE ApproveStep(o)
    BY <1>3 DEF ApproveStep, SaveApproved, LogApproved, Log
  <1>4. CASE PublishStep(o)
    BY <1>4 DEF PublishStep, LogPublishDeduplicated, LogPublishBlocked, ExportFound,
                ExportDiffers, ExportMissing, ExportReplace, SavePublished,
                LogPublished, Log
  <1>5. CASE Interrupt(o)
    BY <1>5 DEF Interrupt
  <1> QED BY <1>1, <1>2, <1>3, <1>4, <1>5 DEF Call, Step

(* The append that the call of o has still to make. *)
OwedBy(o, event, c, detail) ==
  /\ task[o].case = c
  /\ \/ event = "case_approved" /\ At(o, "approved") /\ task[o].record.reviewer = detail
     \/ /\ event = "case_published"
        /\ task[o].step \in {"publishing", "published"}
        /\ task[o].destination = detail

Said(event, c, detail) == [event |-> event, case |-> c, detail |-> detail]

LEMMA OwedIsSettled ==
  ASSUME IInv, {"case_approved", "case_published"} \subseteq Tracked,
         NEW o \in Operators, Start(o) \/ Step(o), NEW event, NEW c, NEW detail,
         OwedBy(o, event, c, detail)
  PROVE  OwedBy(o, event, c, detail)' \/ Said(event, c, detail) \in audit'
  <1>1. /\ task[o].step \in {"approved", "publishing", "published"}
        /\ task[o] \in Task /\ TaskShape(task[o])
    BY RunningCall DEF OwedBy, At
  <1>2. ApproveStep(o) \/ PublishStep(o)
    BY <1>1 DEF Step, Start, Analyze, AnalyzeAgain, AnalyzeRetry, Approve, Publish,
                PublishAgain, PublishEarly, Begin, At, AnalyzeStep, LogDeduplicated,
                LogRetried, LogRejected, LogReceived, ProviderAnswers, ProviderFails,
                ProviderBusy, ProviderRaises, LogRetry, Conflict, LogFailed,
                LogCompleted, SaveFailed, SaveCompleted
  <1>3. CASE LogApproved(o)
    BY <1>3 DEF LogApproved, Log, OwedBy, At, Said
  <1>4. CASE SavePublished(o)
    <2>1. Advance(o, "published") /\ task[o].step = "publishing"
      BY <1>4 DEF SavePublished, At
    <2> QED BY <2>1, AdvanceMoves DEF OwedBy, At, Steps
  <1>5. CASE LogPublished(o)
    <2>1. task[o].record.receipt = task[o].destination /\ task[o].step = "published"
      BY <1>1, <1>5 DEF LogPublished, At, TaskShape
    <2> QED BY <1>5, <2>1 DEF LogPublished, Log, OwedBy, At, Said
  <1> QED BY <1>1, <1>2, <1>3, <1>4, <1>5
          DEF ApproveStep, SaveApproved, PublishStep, LogPublishDeduplicated,
              LogPublishBlocked, ExportFound, ExportDiffers, ExportMissing,
              ExportReplace, At

LEMMA AccountedByOwed ==
  ASSUME NEW event, NEW c, NEW detail
  PROVE  Accounted(event, c, detail) <=>
           \/ Said(event, c, detail) \in audit \cup unanswered
           \/ \E o \in Operators : OwedBy(o, event, c, detail)
  BY DEF Accounted, Audited, Owed, OwedBy, Said

(* An account, once given, is kept through the step of a call, whether the  *)
(* call goes on or is cut short.                                            *)
LEMMA AccountsKept ==
  ASSUME IInv, {"case_approved", "case_published"} \subseteq Tracked,
         NEW o \in Operators,
         \/ (Start(o) \/ Step(o)) /\ unanswered' = unanswered
         \/ Interrupt(o) /\ unanswered' = unanswered \cup Owes(o),
         NEW event, NEW c, NEW detail, Accounted(event, c, detail)
  PROVE  Accounted(event, c, detail)'
  <1>1. audit \subseteq audit' /\ unanswered \subseteq unanswered'
    BY LogGrows DEF Call
  <1>2. CASE Said(event, c, detail) \in audit \cup unanswered
    BY <1>1, <1>2 DEF Accounted, Audited, Said
  <1>3. CASE \E p \in Operators : OwedBy(p, event, c, detail)
    <2>1. PICK p \in Operators : OwedBy(p, event, c, detail)
      BY <1>3
    <2>2. CASE p # o
      <3>1. task'[p] = task[p]
        BY <2>2, CallMoves DEF Call, Moves
      <3>2. OwedBy(p, event, c, detail)'
        BY <2>1, <3>1 DEF OwedBy, At
      <3> QED BY <3>2 DEF Accounted, Audited, Owed, OwedBy
    <2>3. CASE p = o
      <3>1. CASE Start(o) \/ Step(o)
        <4>1. OwedBy(o, event, c, detail)' \/ Said(event, c, detail) \in audit'
          BY <2>1, <2>3, <3>1, OwedIsSettled
        <4> QED BY <4>1 DEF Accounted, Audited, Owed, OwedBy, Said
      <3>2. CASE Interrupt(o) /\ unanswered' = unanswered \cup Owes(o)
        <4>1. CASE event = "case_approved"
          <5>1. At(o, "approved") /\ Said(event, c, detail) \in Owes(o)
            BY <2>1, <2>3, <4>1 DEF OwedBy, Owes, Said, At
          <5> QED BY <3>2, <5>1 DEF Accounted, Said
        <4>2. CASE event = "case_published"
          <5>1. ~ At(o, "approved") /\ task[o].step \in {"publishing", "published"}
            BY <2>1, <2>3, <4>2 DEF OwedBy, At
          <5>2. Said(event, c, detail) \in Owes(o)
            BY <2>1, <2>3, <4>2, <5>1 DEF OwedBy, Owes, Said
          <5> QED BY <3>2, <5>2 DEF Accounted, Said
        <4> QED BY <2>1, <4>1, <4>2 DEF OwedBy
      <3> QED BY <3>1, <3>2
    <2> QED BY <2>2, <2>3
  <1> QED BY <1>2, <1>3, AccountedByOwed

LEMMA CallAccounts ==
  ASSUME IInv, {"case_approved", "case_published"} \subseteq Tracked,
         EffectsAreAccounted, NEW o \in Operators,
         \/ (Start(o) \/ Step(o)) /\ unanswered' = unanswered
         \/ Interrupt(o) /\ unanswered' = unanswered \cup Owes(o)
  PROVE  EffectsAreAccounted'
  <1>1. ASSUME NEW decision \in approvals'
        PROVE  Accounted("case_approved", decision.case, decision.export.reviewer)'
    <2>1. CASE decision \in approvals
      <3>1. Accounted("case_approved", decision.case, decision.export.reviewer)
        BY <2>1 DEF EffectsAreAccounted
      <3> QED BY <3>1, AccountsKept
    <2>2. CASE decision \notin approvals
      <3>1. SaveApproved(o)
        BY <1>1, <2>2, StartsAreQuiet, OthersAreQuiet
           DEF Stores, SaveFailed, SaveCompleted, SavePublished, ExportReplace
      <3>2. /\ task'[o].step = "approved" /\ task'[o].case = task[o].case
            /\ task'[o].record = task[o].record
        BY <3>1, AdvanceMoves DEF SaveApproved, Steps
      <3>3. decision = [case |-> task[o].case, export |-> Contents(task[o].record)]
        BY <1>1, <2>2, <3>1 DEF SaveApproved
      <3>4. OwedBy(o, "case_approved", decision.case, decision.export.reviewer)'
        BY <3>2, <3>3 DEF OwedBy, At, Contents
      <3> QED BY <3>4 DEF Accounted, Audited, Owed, OwedBy
    <2> QED BY <2>1, <2>2
  <1>2. ASSUME NEW d \in Destinations, NEW c \in Cases, exports'[<<d, c>>] # Nil
        PROVE  Accounted("case_published", c, d)'
    <2>1. CASE exports[<<d, c>>] # Nil
      <3>1. Accounted("case_published", c, d)
        BY <2>1 DEF EffectsAreAccounted
      <3> QED BY <3>1, AccountsKept
    <2>2. CASE exports[<<d, c>>] = Nil
      <3>1. ExportReplace(o)
        BY <1>2, <2>2, StartsAreQuiet, OthersAreQuiet
           DEF Stores, SaveFailed, SaveCompleted, SavePublished, SaveApproved
      <3>2. task[o] \in Task /\ task[o].step = "writing"
        BY <3>1 DEF ExportReplace, At, IInv, TypeOK
      <3>3. /\ task'[o].step = "publishing" /\ task'[o].case = task[o].case
            /\ task'[o].destination = task[o].destination
        BY <3>1, <3>2 DEF ExportReplace, Receipted, Task, IInv, TypeOK
      <3>4. <<d, c>> = Path(o)
        BY <1>2, <2>2, <3>1 DEF ExportReplace, IInv, TypeOK
      <3>5. OwedBy(o, "case_published", c, d)'
        BY <3>3, <3>4 DEF OwedBy, Path
      <3> QED BY <3>5 DEF Accounted, Audited, Owed, OwedBy
    <2> QED BY <2>1, <2>2
  <1> QED BY <1>1, <1>2 DEF EffectsAreAccounted

LEMMA EffectsKept ==
  ASSUME {"case_approved", "case_published"} \subseteq Tracked
  PROVE  IInv /\ EffectsAreAccounted /\ [ConsoleNext]_allVars => EffectsAreAccounted'
  <1> SUFFICES ASSUME IInv, EffectsAreAccounted, [ConsoleNext]_allVars
               PROVE  EffectsAreAccounted'
    OBVIOUS
  <1>1. ASSUME UNCHANGED <<vars, unanswered>>
        PROVE  EffectsAreAccounted'
    BY <1>1 DEF vars, EffectsAreAccounted, Accounted, Audited, Owed, At
  <1>2. ASSUME NEW h \in Handlers, NEW f \in Forms, Post(h, f)
        PROVE  h \in Operators /\ Start(h) /\ unanswered' = unanswered
    <2>1. f.case \in Cases /\ f.reviewer \in Reviewers \cup {Nil}
      BY <1>2, ConsoleAssumption DEF Post, Submits, Refused, Form
    <2> QED BY <1>2, <2>1, ConsoleAssumption DEF Post, Submits, Refused, Named, Start
  <1>3. CASE \E h \in Handlers : Get(h) \/ \E f \in Forms : PostLate(h, f)
    BY <1>1, <1>3 DEF Get, PostLate
  <1>4. CASE \E h \in Handlers : \E f \in Forms : Post(h, f)
    BY <1>2, <1>4, CallAccounts
  <1>5. CASE \E h \in Handlers : Serve(h) \/ Drop(h)
    BY <1>5, CallAccounts, ConsoleAssumption DEF Serve, Drop
  <1>6. CASE \E o \in Commands : Command(o) \/ CutShort(o)
    BY <1>6, CallAccounts DEF Command, CutShort, Commands
  <1>7. CASE UNCHANGED allVars
    BY <1>1, <1>7 DEF allVars, consoleVars
  <1> QED BY <1>3, <1>4, <1>5, <1>6, <1>7 DEF ConsoleNext

(* Where the log remembers approvals and publications, every one of them is *)
(* in the log, about to be, or was owed by a call that was cut short.       *)
THEOREM EffectsAccounted ==
  ASSUME {"case_approved", "case_published"} \subseteq Tracked
  PROVE  ConsoleSpec => []EffectsAreAccounted
  <1>1. ConsoleInit => EffectsAreAccounted
    BY DEF ConsoleInit, Init, EffectsAreAccounted
  <1>2. IInv /\ EffectsAreAccounted /\ [ConsoleNext]_allVars => EffectsAreAccounted'
    BY EffectsKept
  <1> QED BY <1>1, <1>2, ConsoleInvariance, PTL DEF ConsoleSpec

-----------------------------------------------------------------------------
(* What a reviewer is told is so *)

HasExport(c) == \E d \in Destinations : exports[<<d, c>>] # Nil

IsApproved(f) ==
  /\ f.path = "/approve"
  /\ \E decision \in approvals : /\ decision.case = f.case
                                 /\ decision.export.reviewer = f.reviewer
  /\ Said("case_approved", f.case, f.reviewer) \in audit

Told(h) ==
  /\ session[h].answer = "see_other" =>
       /\ session[h].form.case \in Cases
       /\ HasExport(session[h].form.case) \/ IsApproved(session[h].form)
  /\ session[h].answer = "conflict" => ~ session[h].stored

(* What the call behind a form that waits for its answer is up to. *)
Asked(h) ==
  ~ Free(h) =>
    LET f == session[h].form
    IN  /\ f \in Forms /\ f.case \in Cases /\ task[h].case = f.case
        /\ \/ /\ f.path = "/approve"
              /\ task[h].step \in {"approving", "approved"}
              /\ task[h].record.reviewer = f.reviewer
           \/ task[h].step \in {"exporting", "writing", "publishing", "published"}
           \/ task[h].step = "publish_deduplicated" /\ HasExport(f.case)
           \/ task[h].step = "publish_blocked" /\ ~ session[h].stored

AnswerInv == /\ RowsAreExported
             /\ \A h \in Handlers : Told(h) /\ Asked(h)

LEMMA DecisionsStay ==
  ASSUME IInv, NEW o \in Operators, Call(o)
  PROVE  /\ approvals \subseteq approvals'
         /\ \A c \in Cases : HasExport(c) => HasExport(c)'
  <1>1. CASE ExportReplace(o)
    <2>1. /\ task[o].record \in Record /\ Coherent(task[o].record)
          /\ task[o].record.state = "approved"
      BY <1>1, RunningCall DEF ExportReplace, At, TaskShape
    <2>2. Contents(task[o].record) # Nil
      BY <2>1, ApprovedContents, NoRecordAssumption
    <2>3. /\ exports' = [exports EXCEPT ![Path(o)] = Contents(task[o].record)]
          /\ approvals' = approvals
      BY <1>1 DEF ExportReplace
    <2>4. ASSUME NEW c \in Cases, NEW d \in Destinations, exports[<<d, c>>] # Nil
          PROVE  exports'[<<d, c>>] # Nil
      BY <2>2, <2>3, <2>4 DEF IInv, TypeOK
    <2> QED BY <2>3, <2>4 DEF HasExport
  <1>2. CASE ~ ExportReplace(o)
    <2>1. exports' = exports /\ approvals \subseteq approvals'
      BY <1>2, StartsAreQuiet, OthersAreQuiet
         DEF Call, Stores, SaveFailed, SaveCompleted, SavePublished, SaveApproved
    <2> QED BY <2>1 DEF HasExport
  <1> QED BY <1>1, <1>2

(* What a handler was told and asked for survives the steps of others. *)
LEMMA OthersTold ==
  ASSUME IInv, ConsoleTypeOK, NEW o \in Operators, Call(o), NEW k \in Handlers, k # o,
         session'[k] = session[k], Told(k), Asked(k)
  PROVE  Told(k)' /\ Asked(k)'
  <1>1. task'[k] = task[k] /\ audit \subseteq audit'
    BY CallMoves, LogGrows, ConsoleAssumption DEF Moves
  <1>2. Asked(k)'
    BY <1>1, DecisionsStay DEF Asked, Free
  <1>3. IsApproved(session[k].form) => IsApproved(session[k].form)'
    BY <1>1, DecisionsStay DEF IsApproved, Said
  <1>4. session[k].form.case \in Cases /\ HasExport(session[k].form.case)
          => HasExport(session[k].form.case)'
    BY DecisionsStay
  <1> QED BY <1>2, <1>3, <1>4 DEF Told

(* The steps of a handler that serves a form. *)
LEMMA PostAsks ==
  ASSUME IInv, ConsoleTypeOK, RowsAreExported, NEW h \in Handlers, NEW f \in Forms,
         Post(h, f)
  PROVE  Told(h)' /\ Asked(h)'
  <1>1. /\ session'[h].form = f /\ session'[h].answer = "awaited"
        /\ session'[h].stored = FALSE
        /\ f.case \in Cases /\ task'[h].case = f.case
        /\ task'[h].step \in {"approving", "exporting", "publish_deduplicated",
                              "publish_blocked"}
        /\ f.path = "/approve" <=> task'[h].step = "approving"
    BY PostTypes
  <1>2. task \in [Operators -> Task] /\ h \in Operators
    BY ConsoleAssumption DEF IInv, TypeOK
  <1>3. ASSUME task'[h].step = "approving"
        PROVE  task'[h].record.reviewer = f.reviewer
    <2>1. Approve(h, f.case, f.reviewer)
      BY <1>1, <1>3 DEF Post
    <2>2. repository[f.case] \in Record
      BY <1>1, <2>1 DEF Approve, Stored, IInv, TypeOK
    <2> QED BY <1>2, <2>1, <2>2 DEF Approve, Begin, Record
  <1>4. ASSUME task'[h].step = "publish_deduplicated"
        PROVE  HasExport(f.case)'
    <2>1. PublishAgain(h, f.case, ApprovedDir)
      BY <1>2, <1>4 DEF Post, Approve, Publish, PublishEarly, Begin
    <2>2. Stored(f.case, "published") /\ exports' = exports
      BY <2>1 DEF PublishAgain, Begin
    <2>3. repository[f.case] \in Record /\ Coherent(repository[f.case])
          /\ repository[f.case].state = "published"
      BY <1>1, <2>2 DEF Stored, IInv, TypeOK, RecordsAreCoherent
    <2>4. repository[f.case].receipt \in Destinations
      BY <2>3 DEF Coherent, Record
    <2> QED BY <1>1, <2>2, <2>4 DEF RowsAreExported, HasExport
  <1>5. Told(h)'
    BY <1>1 DEF Told
  <1> QED BY <1>1, <1>3, <1>4, <1>5 DEF Asked

LEMMA ServeTells ==
  ASSUME IInv, ConsoleTypeOK, "case_approved" \in Tracked, NEW h \in Handlers,
         Serve(h), Asked(h)
  PROVE  Told(h)' /\ Asked(h)'
  <1> DEFINE f == session[h].form
  <1>1. h \in Operators /\ task[h] \in Task /\ task \in [Operators -> Task]
    BY ConsoleAssumption DEF IInv, TypeOK
  <1>2. /\ ~ Free(h) /\ Step(h)
        /\ f \in Forms /\ f.case \in Cases /\ task[h].case = f.case
        /\ \/ /\ f.path = "/approve"
              /\ task[h].step \in {"approving", "approved"}
              /\ task[h].record.reviewer = f.reviewer
           \/ task[h].step \in {"exporting", "writing", "publishing", "published"}
           \/ task[h].step = "publish_deduplicated" /\ HasExport(f.case)
           \/ task[h].step = "publish_blocked" /\ ~ session[h].stored
    BY DEF Serve, Asked
  <1>3. ASSUME Outcome(h) = "none"
        PROVE  Told(h)' /\ Asked(h)'
    <2>1. session'[h].answer = "none"
      BY <1>3, AnswerTypes DEF Serve
    <2> QED BY <2>1 DEF Told, Asked, Free
  <1>4. ASSUME NEW code \in {"awaited", "see_other", "conflict"}, Outcome(h) = code
        PROVE  /\ session'[h].form = f /\ session'[h].answer = code
               /\ UNCHANGED <<repository, exports>> => session'[h].stored = session[h].stored
    <2>1. PICK stored \in BOOLEAN :
            stored = (session[h].stored \/ repository' # repository \/ exports' # exports)
      OBVIOUS
    <2>2. Answer(h, f, code, stored)
      BY <1>4, <2>1 DEF Serve
    <2>3. session'[h].form = f /\ session'[h].answer = code /\ session'[h].stored = stored
      BY <1>2, <2>2, AnswerTypes
    <2>4. session[h].stored \in BOOLEAN
      BY DEF ConsoleTypeOK, Session
    <2> QED BY <2>1, <2>3, <2>4
  <1>5. ASSUME LogApproved(h)
        PROVE  Told(h)' /\ Asked(h)'
    <2>1. /\ task[h].step = "approved" /\ f.path = "/approve"
          /\ task[h].record.reviewer = f.reviewer
      BY <1>2, <1>5 DEF LogApproved, At
    <2>2. task'[h] = Idle /\ Outcome(h) = "see_other"
      BY <1>1, <1>5, <2>1 DEF LogApproved, Return, Outcome
    <2>3. [case |-> f.case, export |-> Contents(task[h].record)] \in approvals
      BY <1>1, <1>2, <2>1, RunningCall DEF At, TaskBacked
    <2>4. Said("case_approved", f.case, f.reviewer) \in audit' /\ approvals' = approvals
      BY <1>2, <1>5, <2>1 DEF LogApproved, Log, Said
    <2>5. session'[h].form = f /\ session'[h].answer = "see_other"
      BY <1>4, <2>2
    <2>6. IsApproved(session[h].form)'
      BY <2>1, <2>3, <2>4, <2>5 DEF IsApproved, Contents, Said
    <2> QED BY <1>2, <2>5, <2>6 DEF Told, Asked, Free
  <1>6. ASSUME LogPublished(h) \/ LogPublishDeduplicated(h)
        PROVE  Told(h)' /\ Asked(h)'
    <2>1. task[h].step \in {"published", "publish_deduplicated"} /\ exports' = exports
      BY <1>6 DEF LogPublished, LogPublishDeduplicated, At
    <2>2. task'[h] = Idle /\ Outcome(h) = "see_other"
      BY <1>1, <1>6, <2>1 DEF LogPublished, LogPublishDeduplicated, Return, Outcome
    <2>3. HasExport(f.case)
      <3>1. CASE task[h].step = "published"
        <4>1. exports[<<task[h].destination, f.case>>] # Nil
              /\ task[h].destination \in Destinations
          BY <1>1, <1>2, <3>1, RunningCall DEF At, TaskBacked, TaskShape, Path
        <4> QED BY <4>1 DEF HasExport
      <3> QED BY <1>2, <2>1, <3>1
    <2>4. session'[h].form = f /\ session'[h].answer = "see_other"
      BY <1>4, <2>2
    <2>5. HasExport(session[h].form.case)'
      BY <2>1, <2>3, <2>4 DEF HasExport
    <2> QED BY <1>2, <2>4, <2>5 DEF Told, Asked, Free
  <1>7. ASSUME LogPublishBlocked(h)
        PROVE  Told(h)' /\ Asked(h)'
    <2>1. task[h].step = "publish_blocked" /\ UNCHANGED <<repository, exports>>
      BY <1>7 DEF LogPublishBlocked, At
    <2>2. task'[h] = Idle /\ Outcome(h) = "conflict"
      BY <1>1, <1>7, <2>1 DEF LogPublishBlocked, Return, Outcome
    <2>3. session'[h].answer = "conflict" /\ session'[h].stored = session[h].stored
      BY <1>4, <2>1, <2>2
    <2> QED BY <1>2, <2>1, <2>3 DEF Told, Asked, Free
  <1>8. ASSUME NEW s \in {"approved", "writing", "publishing", "published"},
               task'[h].step = s, task'[h].case = task[h].case,
               s = "approved" => /\ task[h].step = "approving"
                                 /\ task'[h].record = task[h].record
        PROVE  Told(h)' /\ Asked(h)'
    <2>1. task'[h] # Idle
      BY <1>8 DEF Idle
    <2>2. Outcome(h) = "awaited"
      BY <2>1 DEF Outcome
    <2>3. session'[h].form = f /\ session'[h].answer = "awaited"
      BY <1>4, <2>2
    <2> QED BY <1>2, <1>8, <2>3 DEF Told, Asked, Free
  <1>9. CASE SaveApproved(h) \/ SavePublished(h) \/ ExportMissing(h)
    <2>1. PICK s \in {"approved", "published", "writing"} :
            Advance(h, s) /\ (s = "approved" => task[h].step = "approving")
      BY <1>9 DEF SaveApproved, SavePublished, ExportMissing, At
    <2> QED BY <1>1, <1>8, <2>1, AdvanceMoves DEF Steps
  <1>10. CASE ExportFound(h) \/ ExportReplace(h)
    <2>1. task'[h].step = "publishing" /\ task'[h].case = task[h].case
      BY <1>1, <1>10 DEF ExportFound, ExportReplace, Receipted, Task
    <2> QED BY <1>8, <2>1
  <1>11. CASE ExportDiffers(h)
    <2>1. task'[h] = Idle /\ task[h].step = "exporting"
      BY <1>1, <1>11 DEF ExportDiffers, Return, At
    <2>2. Outcome(h) = "none"
      BY <2>1 DEF Outcome
    <2> QED BY <1>3, <2>2
  <1>12. ~ AnalyzeStep(h)
    BY <1>2 DEF At, AnalyzeStep, LogDeduplicated, LogRetried, LogRejected, LogReceived,
                ProviderAnswers, ProviderFails, ProviderBusy, ProviderRaises, LogRetry,
                Conflict, LogFailed, LogCompleted, SaveFailed, SaveCompleted
  <1> QED BY <1>2, <1>5, <1>6, <1>7, <1>9, <1>10, <1>11, <1>12
          DEF Step, ApproveStep, PublishStep

LEMMA LateTells ==
  ASSUME IInv, ConsoleTypeOK, RowsAreExported, NEW h \in Handlers, NEW f \in Forms,
         PostLate(h, f)
  PROVE  Told(h)' /\ Asked(h)'
  <1>1. f.case \in Cases /\ UNCHANGED vars
    BY ConsoleAssumption DEF PostLate, Submits, Refused, Form
  <1>2. CASE Stored(f.case, "published")
    <2>1. repository[f.case] \in Record /\ Coherent(repository[f.case])
          /\ repository[f.case].state = "published"
      BY <1>1, <1>2 DEF Stored, IInv, TypeOK, RecordsAreCoherent
    <2>2. HasExport(f.case)
      BY <1>1, <1>2, <2>1 DEF RowsAreExported, HasExport, Coherent, Record
    <2>3. session'[h].form = f /\ session'[h].answer = "see_other"
      BY <1>2, AnswerTypes DEF PostLate
    <2>4. HasExport(session[h].form.case)'
      BY <1>1, <2>2, <2>3 DEF HasExport, vars
    <2> QED BY <1>1, <2>3, <2>4 DEF Told, Asked, Free
  <1>3. CASE ~ Stored(f.case, "published")
    <2>1. session'[h].answer = "conflict" /\ session'[h].stored = FALSE
      BY <1>3, AnswerTypes DEF PostLate
    <2> QED BY <2>1 DEF Told, Asked, Free
  <1> QED BY <1>2, <1>3

LEMMA AnswersKept ==
  ASSUME "case_approved" \in Tracked
  PROVE  IInv /\ ConsoleTypeOK /\ AnswerInv /\ [ConsoleNext]_allVars => AnswerInv'
  <1> SUFFICES ASSUME IInv, ConsoleTypeOK, AnswerInv, [ConsoleNext]_allVars
               PROVE  (\A k \in Handlers : Told(k) /\ Asked(k))'
    BY ConsoleSteps, NextExported DEF AnswerInv
  <1>1. CASE UNCHANGED allVars
    BY <1>1 DEF allVars, vars, consoleVars, AnswerInv, Told, Asked, Free, HasExport,
                IsApproved, Said
  <1>2. ASSUME NEW h \in Handlers,
               \/ Call(h)
               \/ UNCHANGED vars,
               \A k \in Handlers \ {h} : session'[k] = session[k],
               Told(h)' /\ Asked(h)'
        PROVE  (\A k \in Handlers : Told(k) /\ Asked(k))'
    <2> SUFFICES ASSUME NEW k \in Handlers, k # h PROVE Told(k)' /\ Asked(k)'
      BY <1>2
    <2>1. CASE Call(h)
      BY <1>2, <2>1, OthersTold, ConsoleAssumption DEF AnswerInv
    <2>2. CASE UNCHANGED vars
      BY <1>2, <2>2 DEF vars, AnswerInv, Told, Asked, Free, HasExport, IsApproved, Said
    <2> QED BY <1>2, <2>1, <2>2
  <1>3. ASSUME NEW h \in Handlers, Get(h)
        PROVE  (\A k \in Handlers : Told(k) /\ Asked(k))'
    <2>1. session'[h].answer = "none" /\ \A k \in Handlers \ {h} : session'[k] = session[k]
      BY <1>3 DEF Get, ConsoleTypeOK
    <2>2. Told(h)' /\ Asked(h)'
      BY <2>1 DEF Told, Asked, Free
    <2> QED BY <1>2, <1>3, <2>1, <2>2 DEF Get
  <1>4. ASSUME NEW h \in Handlers, NEW f \in Forms, Post(h, f)
        PROVE  (\A k \in Handlers : Told(k) /\ Asked(k))'
    <2>1. \A k \in Handlers \ {h} : session'[k] = session[k]
      BY <1>4, PostTypes
    <2>2. Call(h)
      <3>1. f.case \in Cases /\ f.reviewer \in Reviewers \cup {Nil}
        BY <1>4, PostTypes, ConsoleAssumption DEF Form
      <3> QED BY <1>4, <3>1, ConsoleAssumption
              DEF Post, Submits, Refused, Named, Call, Start
    <2> QED BY <1>2, <1>4, <2>1, <2>2, PostAsks DEF AnswerInv
  <1>5. ASSUME NEW h \in Handlers, NEW f \in Forms, PostLate(h, f)
        PROVE  (\A k \in Handlers : Told(k) /\ Asked(k))'
    <2>1. \A k \in Handlers \ {h} : session'[k] = session[k]
      BY <1>5 DEF PostLate, Answer, ConsoleTypeOK
    <2> QED BY <1>2, <1>5, <2>1, LateTells DEF AnswerInv, PostLate
  <1>6. ASSUME NEW h \in Handlers, Serve(h)
        PROVE  (\A k \in Handlers : Told(k) /\ Asked(k))'
    <2>1. \A k \in Handlers \ {h} : session'[k] = session[k]
      BY <1>6 DEF Serve, Answer, ConsoleTypeOK
    <2> QED BY <1>2, <1>6, <2>1, ServeTells DEF AnswerInv, Serve, Call
  <1>7. ASSUME NEW h \in Handlers, Drop(h)
        PROVE  (\A k \in Handlers : Told(k) /\ Asked(k))'
    <2>1. session'[h].answer = "none" /\ \A k \in Handlers \ {h} : session'[k] = session[k]
      BY <1>7, AnswerTypes DEF Drop
    <2>2. Told(h)' /\ Asked(h)'
      BY <2>1 DEF Told, Asked, Free
    <2> QED BY <1>2, <1>7, <2>1, <2>2 DEF Drop, Call
  <1>8. ASSUME NEW o \in Commands, Command(o) \/ CutShort(o)
        PROVE  (\A k \in Handlers : Told(k) /\ Asked(k))'
    <2> SUFFICES ASSUME NEW k \in Handlers PROVE Told(k)' /\ Asked(k)'
      OBVIOUS
    <2>1. o \in Operators /\ k # o /\ Call(o) /\ session'[k] = session[k]
      BY <1>8 DEF Commands, Command, CutShort, Call
    <2> QED BY <2>1, OthersTold DEF AnswerInv
  <1> QED BY <1>1, <1>3, <1>4, <1>5, <1>6, <1>7, <1>8 DEF ConsoleNext

(* A redirect tells the reviewer that his decision is durable and logged or *)
(* that an export exists; a refusal, that his form has changed nothing.     *)
THEOREM AnswersTrue ==
  ASSUME "case_approved" \in Tracked
  PROVE  ConsoleSpec => []AnswersAreTrue
  <1>1. ConsoleInit => AnswerInv
    BY ConsoleAssumption
       DEF ConsoleInit, Init, AnswerInv, RowsAreExported, Stored, Told, Asked, Free, Idle
  <1>2. AnswerInv => AnswersAreTrue
    BY DEF AnswerInv, Told, AnswersAreTrue, HasExport, IsApproved, Said
  <1>3. IInv /\ ConsoleTypeOK /\ AnswerInv /\ [ConsoleNext]_allVars => AnswerInv'
    BY AnswersKept
  <1> QED BY <1>1, <1>2, <1>3, ConsoleInvariance, ConsoleTypeCorrect, PTL DEF ConsoleSpec
=============================================================================
