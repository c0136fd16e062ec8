----------------------- MODULE HandoffDirectoryProofs -----------------------
(* What kills and power losses can leave in the handoff directories and     *)
(* beside the rows, for any number of operators, cases and directories.     *)
EXTENDS HandoffDirectory, EvidenceWorkflowProofs

(* A publish that is before its rename has synced its temporary file, so no *)
(* path names contents that are not on the disk.                            *)
DiskInv == /\ temporary \in [Operators -> {"none", "empty", "flushed", "synced"}]
           /\ position \in [Operators -> {"mkstemp", "dump", "fsync", "replace"}]
           /\ \A o \in Operators : position[o] = "replace" => temporary[o] = "synced"
           /\ unsynced = {}
           /\ torn = {}

(* Any turn of a publish, the sync in particular, keeps the order. *)
LEMMA TurnKeeps ==
  ASSUME DiskInv, NEW o \in Operators,
         NEW from, NEW to \in {"mkstemp", "dump", "fsync", "replace"},
         NEW contents \in {"none", "empty", "flushed", "synced"},
         to = "replace" => contents = "synced", Turn(o, from, to, contents)
  PROVE  DiskInv'
BY DEF Turn, DiskInv

(* A call that ends leaves its publish before its first statement. *)
LEMMA EndKeeps ==
  ASSUME DiskInv, NEW o \in Operators,
         position' = [position EXCEPT ![o] = "mkstemp"],
         temporary' = [temporary EXCEPT ![o] = "none"],
         unsynced' = {}, torn' = {}
  PROVE  DiskInv'
BY DEF DiskInv

LEMMA StepKeeps ==
  ASSUME DiskInv, NEW o \in Operators, HandoffStep(o)
  PROVE  DiskInv'
  <1>1. CASE MakeTemporary(o)
    BY <1>1, TurnKeeps DEF MakeTemporary
  <1>2. CASE WriteTemporary(o)
    BY <1>2, TurnKeeps DEF WriteTemporary
  <1>3. CASE SyncTemporary(o)
    BY <1>3, TurnKeeps DEF SyncTemporary
  <1>4. CASE Replace(o)
    <2>1. temporary[o] = "synced"
      BY <1>4 DEF Replace, DiskInv
    <2>2. unsynced' = {} /\ torn' = {}
      BY <1>4, <2>1 DEF Replace, DiskInv
    <2> QED BY <1>4, <2>2, EndKeeps DEF Replace
  <1>5. CASE Otherwise(o)
    BY <1>5 DEF Otherwise, DiskInv, diskVars
  <1> QED BY <1>1, <1>2, <1>3, <1>4, <1>5 DEF HandoffStep

LEMMA DiskKeeps == DiskInv /\ [HandoffNext]_handoffVars => DiskInv'
  <1> SUFFICES ASSUME DiskInv, [HandoffNext]_handoffVars
               PROVE  DiskInv'
    OBVIOUS
  <1>1. CASE UNCHANGED diskVars
    BY <1>1 DEF DiskInv, diskVars
  <1>2. ASSUME NEW o \in Operators, HandoffStep(o)
        PROVE  DiskInv'
    BY <1>2, StepKeeps
  <1>3. ASSUME NEW o \in Operators, Raise(o) \/ Kill(o)
        PROVE  DiskInv'
    BY <1>3, EndKeeps DEF Raise, Kill, DiskInv
  <1>4. ASSUME NEW path \in Paths, WriteBack(path)
        PROVE  DiskInv'
    BY <1>4 DEF WriteBack, DiskInv
  <1>5. CASE PowerLoss
    BY <1>5 DEF PowerLoss, DiskInv
  <1>6. CASE UNCHANGED handoffVars
    BY <1>6, <1>1 DEF handoffVars
  <1> QED BY <1>1, <1>2, <1>3, <1>4, <1>5, <1>6 DEF HandoffNext

LEMMA DiskInvariance == HandoffSpec => []DiskInv
  <1>1. HandoffInit => DiskInv
    BY DEF HandoffInit, DiskInv
  <1> QED BY <1>1, DiskKeeps, PTL DEF HandoffSpec

(* No handoff path ever holds a part of an export, whatever is cut short    *)
(* and whenever the power fails: Replace takes any file, and that it takes  *)
(* none that is not synced is the order of the statements before it         *)
(* (persistence.py:131-134).                                                *)
THEOREM ExportsWhole == HandoffSpec => []WholeExports
  <1>1. DiskInv => WholeExports
    BY DEF DiskInv, WholeExports
  <1> QED BY <1>1, DiskInvariance, PTL

-----------------------------------------------------------------------------
(* What every step keeps of the workflow                                    *)

(* A step of a call, or one that leaves the workflow where it is. *)
LEMMA HandoffSteps ==
  ASSUME [HandoffNext]_handoffVars, ~ PowerLoss
  PROVE  [Next]_vars
  <1>1. ASSUME NEW o \in Operators, Start(o)
        PROVE  Next
    BY <1>1 DEF Next
  <1>2. ASSUME NEW o \in Operators, HandoffStep(o)
        PROVE  [Next]_vars
    <2>1. CASE MakeTemporary(o) \/ WriteTemporary(o) \/ SyncTemporary(o)
      BY <2>1 DEF MakeTemporary, WriteTemporary, SyncTemporary, Turn
    <2>2. CASE Replace(o)
      BY <2>2 DEF Replace, Next, Step, PublishStep
    <2>3. CASE Otherwise(o)
      BY <2>3 DEF Otherwise, Next
    <2> QED BY <1>2, <2>1, <2>2, <2>3 DEF HandoffStep
  <1>3. ASSUME NEW o \in Operators, Raise(o) \/ Kill(o)
        PROVE  Next
    BY <1>3 DEF Raise, Kill, Next
  <1>4. ASSUME NEW path \in Paths, WriteBack(path)
        PROVE  UNCHANGED vars
    BY <1>4 DEF WriteBack
  <1>5. CASE UNCHANGED handoffVars
    BY <1>5 DEF handoffVars
  <1> QED BY <1>1, <1>2, <1>3, <1>4, <1>5 DEF HandoffNext

(* What the disk says of a path has been approved as well. *)
SettledInv ==
  /\ settled \in [Paths -> Export \cup {Nil}]
  /\ \A d \in Destinations, c \in Cases :
       settled[<<d, c>>] # Nil => [case |-> c, export |-> settled[<<d, c>>]] \in approvals

LEMMA PowerLossKeeps ==
  ASSUME IInv, SettledInv, PowerLoss
  PROVE  IInv'
  <1>1. Idle \in Task
    BY AttemptsAssumption DEF Idle, Task, Steps
  <1>2. /\ task' = [o \in Operators |-> Idle] /\ exports' = settled
        /\ UNCHANGED <<repository, audit, approvals>>
    BY DEF PowerLoss
  <1>3. TypeOK'
    BY <1>1, <1>2 DEF IInv, TypeOK, SettledInv, Paths
  <1>4. (\A o \in Operators : TaskOK(o))'
    BY <1>2 DEF TaskOK, At, Idle
  <1>5. (RecordsAreCoherent /\ RowsAreApproved /\ ApprovalsAreGrounded)'
    BY <1>2 DEF IInv, RecordsAreCoherent, RowsAreApproved, ApprovalsAreGrounded,
                Coherent, Stored, Contents
  <1>6. ExportsAreApproved'
    BY <1>2 DEF SettledInv, ExportsAreApproved
  <1> QED BY <1>3, <1>4, <1>5, <1>6 DEF IInv

LEMMA SettledKeeps ==
  ASSUME IInv, SettledInv, [HandoffNext]_handoffVars
  PROVE  SettledInv'
  <1>1. approvals \subseteq approvals'
    <2>1. CASE PowerLoss
      BY <2>1 DEF PowerLoss
    <2> QED BY <2>1, HandoffSteps, StoresGrow DEF Grows
  <1>2. CASE settled' = settled
    BY <1>1, <1>2 DEF SettledInv
  <1>3. ASSUME NEW path \in Paths, WriteBack(path)
        PROVE  SettledInv'
    <2>1. exports \in [Paths -> Export \cup {Nil}]
      BY DEF IInv, TypeOK, Paths
    <2>2. settled' = [settled EXCEPT ![path] = exports[path]]
      BY <1>3 DEF WriteBack
    <2>3. settled' \in [Paths -> Export \cup {Nil}]
      BY <2>1, <2>2 DEF SettledInv
    <2>4. ASSUME NEW d \in Destinations, NEW c \in Cases, settled'[<<d, c>>] # Nil
          PROVE  [case |-> c, export |-> settled'[<<d, c>>]] \in approvals
      <3>1. <<d, c>> \in Paths
        BY DEF Paths
      <3>2. settled'[<<d, c>>] \in {settled[<<d, c>>], exports[<<d, c>>]}
        BY <2>2, <3>1 DEF SettledInv
      <3> QED BY <2>4, <3>2 DEF SettledInv, IInv, ExportsAreApproved
    <2> QED BY <1>1, <2>3, <2>4 DEF SettledInv
  <1>4. settled' = settled \/ \E path \in Paths : WriteBack(path)
    BY DEF HandoffNext, HandoffStep, MakeTemporary, WriteTemporary, SyncTemporary, Turn,
           Replace, Otherwise, Raise, Kill, PowerLoss, handoffVars, diskVars
  <1> QED BY <1>2, <1>3, <1>4

HandoffInv == IInv /\ SettledInv

LEMMA HandoffInvariance == HandoffSpec => []HandoffInv
  <1>1. HandoffInit => HandoffInv
    <2> SUFFICES ASSUME HandoffInit PROVE HandoffInv
      OBVIOUS
    <2>1. IInv /\ settled = [path \in Paths |-> Nil]
      BY InitEstablishes DEF HandoffInit, Init, Paths
    <2> QED BY <2>1 DEF HandoffInv, SettledInv, Paths
  <1>2. HandoffInv /\ [HandoffNext]_handoffVars => HandoffInv'
    BY HandoffSteps, NextKeeps, PowerLossKeeps, SettledKeeps DEF HandoffInv
  <1> QED BY <1>1, <1>2, PTL DEF HandoffSpec

(* What a handoff directory holds was approved, also after power losses that*)
(* took back any of the renames: what they bring back was approved too.     *)
THEOREM SurvivorsApproved == HandoffSpec => []ExportsAreApproved
  <1>1. HandoffInv => ExportsAreApproved
    BY DEF HandoffInv, IInv
  <1> QED BY <1>1, HandoffInvariance, PTL

-----------------------------------------------------------------------------
(* What is reported is there                                                *)

(* A path that was seen with a file has lost it only to a power loss. *)
LEMMA FilesGo ==
  ASSUME HandoffInv, [HandoffNext]_handoffVars, NEW path \in Paths,
         exports[path] # Nil \/ path \in lost, exports'[path] = Nil
  PROVE  path \in lost'
  <1>1. CASE PowerLoss
    <2>1. exports' = settled /\ lost' = lost \cup {p \in Paths : settled[p] # exports[p]}
      BY <1>1 DEF PowerLoss
    <2> QED BY <2>1
  <1>2. CASE ~ PowerLoss
    <2>1. [Next]_vars
      BY <1>2, HandoffSteps
    <2>2. exports[path] = Nil /\ path \in lost
      BY <2>1, StoresGrow DEF HandoffInv, Grows, Paths
    <2>3. CASE lost' = lost
      BY <2>2, <2>3
    <2>4. ASSUME NEW o \in Operators, Replace(o)
          PROVE  path \in lost'
      <3>1. ExportReplace(o) /\ lost' = lost \ {Path(o)} /\ task[o].step = "writing"
        BY <2>4 DEF Replace, ExportReplace, At
      <3>2. /\ task[o].record \in Record /\ Coherent(task[o].record)
            /\ task[o].record.state = "approved"
            /\ Path(o) \in Destinations \X Cases
        BY <3>1, RunningCall DEF HandoffInv, At, TaskShape, Path
      <3>3. exports'[Path(o)] # Nil
        BY <3>1, <3>2, ApprovedContents, NoRecordAssumption
           DEF ExportReplace, HandoffInv, IInv, TypeOK
      <3> QED BY <2>2, <3>1, <3>3
    <2>5. lost' = lost \/ \E o \in Operators : Replace(o)
      BY <1>2 DEF HandoffNext, HandoffStep, MakeTemporary, WriteTemporary, SyncTemporary,
             Turn, Otherwise, Raise, Kill, WriteBack, handoffVars, diskVars
    <2> QED BY <2>3, <2>4, <2>5
  <1> QED BY <1>1, <1>2

(* At this path there is a file, or there was one. *)
Seen(path) == path \in Paths /\ (exports[path] # Nil \/ path \in lost)

LEMMA SeenStays ==
  ASSUME HandoffInv, [HandoffNext]_handoffVars, NEW path, Seen(path)
  PROVE  Seen(path)'
  BY FilesGo DEF Seen, Paths

ReportedInv ==
  /\ \A c \in Cases : Stored(c, "published") => Seen(<<repository[c].receipt, c>>)
  /\ \A entry \in audit : entry.event = "case_published" => Seen(<<entry.detail, entry.case>>)

LEMMA RowsReported ==
  ASSUME HandoffInv, ReportedInv, [HandoffNext]_handoffVars, NEW c \in Cases,
         Stored(c, "published")'
  PROVE  Seen(<<repository'[c].receipt, c>>)
  <1>1. CASE PowerLoss
    BY <1>1 DEF PowerLoss, ReportedInv, Stored
  <1>2. CASE ~ PowerLoss
    <2>1. [Next]_vars
      BY <1>2, HandoffSteps
    <2>2. repository'[c].receipt \in Destinations
      BY <2>1, NextKeeps
         DEF HandoffInv, IInv, TypeOK, RecordsAreCoherent, Stored, Coherent, Record
    <2>3. CASE exports[<<repository'[c].receipt, c>>] # Nil
      BY <2>2, <2>3 DEF Seen, Paths
    <2>4. CASE Stored(c, "published") /\ repository'[c] = repository[c]
      BY <2>4 DEF ReportedInv
    <2> QED BY <2>1, <2>3, <2>4, PublishedRow DEF HandoffInv
  <1> QED BY <1>1, <1>2

LEMMA EntriesReported ==
  ASSUME HandoffInv, ReportedInv, [HandoffNext]_handoffVars, NEW entry \in audit',
         entry.event = "case_published"
  PROVE  Seen(<<entry.detail, entry.case>>)
  <1>1. CASE entry \in audit
    BY <1>1 DEF ReportedInv
  <1>2. CASE entry \notin audit
    <2>1. audit' # audit
      BY <1>2
    <2>2. [Next]_vars
      BY <2>1, HandoffSteps DEF PowerLoss
    <2>3. PICK o \in Operators : Start(o) \/ Step(o) \/ Interrupt(o)
      BY <2>1, <2>2 DEF Next, vars
    <2>4. Borne(entry.event, entry.case, entry.detail)
      BY <1>2, <2>3, Reports DEF HandoffInv
    <2>5. entry.case \in Cases
      BY <2>2, NextKeeps DEF HandoffInv, IInv, TypeOK, Entry
    <2> QED BY <2>4, <2>5 DEF Borne, Seen, Paths
  <1> QED BY <1>1, <1>2

LEMMA ReportedKeeps ==
  ASSUME HandoffInv, ReportedInv, [HandoffNext]_handoffVars
  PROVE  ReportedInv'
  <1>1. ASSUME NEW c \in Cases, Stored(c, "published")'
        PROVE  Seen(<<repository[c].receipt, c>>)'
    <2>1. PICK path : path = <<repository'[c].receipt, c>>
      OBVIOUS
    <2>2. Seen(path)
      BY <1>1, <2>1, RowsReported
    <2>3. Seen(path)'
      BY <2>2, SeenStays
    <2> QED BY <2>1, <2>3 DEF Seen
  <1>2. ASSUME NEW entry \in audit', entry.event = "case_published"
        PROVE  Seen(<<entry.detail, entry.case>>)'
    BY <1>2, EntriesReported, SeenStays
  <1> QED BY <1>1, <1>2 DEF ReportedInv

(* The file of a published row, or of a publication in the log, is missing  *)
(* only when a power loss took its rename back, and what a power loss leaves*)
(* there is about the assessment of the row, unless decisions on two        *)
(* assessments were taken (no sync of the directory, persistence.py:134).   *)
THEOREM ReportedThere == HandoffSpec => []ReportedIsThere
  <1>1. HandoffInit => ReportedInv
    BY DEF HandoffInit, Init, ReportedInv, Stored
  <1>2. HandoffSpec => []ReportedInv
    BY <1>1, ReportedKeeps, HandoffInvariance, PTL DEF HandoffSpec
  <1>3. HandoffInv /\ ReportedInv => ReportedIsThere
    BY FileAndRowAgree DEF HandoffInv, ReportedInv, Seen, ReportedIsThere
  <1> QED BY <1>2, <1>3, HandoffInvariance, PTL

-----------------------------------------------------------------------------
(* Types *)

(* Where a publish is and what its temporary file holds go together, and    *)
(* only a publish that is writing has one.                                  *)
PublishesWrite ==
  /\ position \in [Operators -> {"mkstemp", "dump", "fsync", "replace"}]
  /\ temporary \in [Operators -> {"none", "empty", "flushed", "synced"}]
  /\ \A o \in Operators : position[o] # "mkstemp" => At(o, "writing")
  /\ \A o \in Operators : temporary[o] = "none" <=> position[o] = "mkstemp"

LEMMA PublishesKeep ==
  ASSUME HandoffInv, PublishesWrite, NEW o \in Operators,
         \/ Start(o) /\ UNCHANGED diskVars
         \/ HandoffStep(o)
         \/ Raise(o)
         \/ Kill(o)
  PROVE  PublishesWrite'
  <1>1. CASE MakeTemporary(o) \/ WriteTemporary(o) \/ SyncTemporary(o)
    BY <1>1 DEF MakeTemporary, WriteTemporary, SyncTemporary, Turn, PublishesWrite, vars, At
  <1>2. CASE /\ Call(o)
             /\ \/ /\ position' = [position EXCEPT ![o] = "mkstemp"]
                   /\ temporary' = [temporary EXCEPT ![o] = "none"]
                \/ position' = position /\ temporary' = temporary
             /\ position'[o] = "mkstemp"
    <2>1. \A p \in Operators \ {o} : /\ task'[p] = task[p]
                                      /\ position'[p] = position[p]
                                      /\ temporary'[p] = temporary[p]
      BY <1>2, CallMoves DEF Moves, HandoffInv, PublishesWrite
    <2>2. \A p \in Operators : position'[p] # "mkstemp" => task'[p].step = "writing"
      BY <1>2, <2>1 DEF PublishesWrite, At
    <2>3. \A p \in Operators : temporary'[p] = "none" <=> position'[p] = "mkstemp"
      BY <1>2 DEF PublishesWrite
    <2> QED BY <1>2, <2>2, <2>3 DEF PublishesWrite, At
  <1>3. CASE Start(o) /\ UNCHANGED diskVars
    <2>1. At(o, "idle")
      BY <1>3 DEF Start, Analyze, AnalyzeAgain, AnalyzeRetry, Approve, Publish,
                  PublishAgain, PublishEarly, Begin
    <2> QED BY <1>2, <1>3, <2>1 DEF Call, diskVars, PublishesWrite, At
  <1>4. CASE Replace(o)
    BY <1>2, <1>4 DEF Replace, Call, Step, PublishStep, PublishesWrite
  <1>5. CASE Otherwise(o)
    BY <1>2, <1>5 DEF Otherwise, Call, diskVars, PublishesWrite
  <1>6. CASE Raise(o) \/ Kill(o)
    BY <1>2, <1>6 DEF Raise, Kill, Call, PublishesWrite
  <1> QED BY <1>1, <1>3, <1>4, <1>5, <1>6 DEF HandoffStep

(* A publish that has a temporary file names a directory. *)
LEMMA LitterIsBeside ==
  ASSUME HandoffInv, PublishesWrite, NEW o \in Operators, temporary[o] # "none"
  PROVE  task[o].destination \in Destinations
  <1>1. task[o].step = "writing"
    BY DEF PublishesWrite, At
  <1> QED BY <1>1, RunningCall DEF HandoffInv, At, TaskShape

LEMMA HandoffTyped ==
  ASSUME HandoffInv, DiskInv, HandoffTypeOK, [HandoffNext]_handoffVars
  PROVE  HandoffTypeOK'
  <1> USE DEF HandoffTypeOK
  <1>0. PublishesWrite
    BY DEF PublishesWrite
  <1>1. settled' \in [Paths -> Export \cup {Nil}] /\ unsynced' = {} /\ torn' = {}
    BY SettledKeeps, DiskKeeps DEF HandoffInv, SettledInv, DiskInv
  <1>2. lost' \subseteq Paths
    BY DEF HandoffNext, HandoffStep, MakeTemporary, WriteTemporary, SyncTemporary, Turn,
           Replace, Otherwise, Raise, Kill, WriteBack, PowerLoss, handoffVars, diskVars
  <1>3. PublishesWrite'
    <2>1. CASE UNCHANGED <<task, position, temporary>>
      BY <1>0, <2>1 DEF PublishesWrite, At
    <2>2. CASE PowerLoss
      BY <2>2 DEF PowerLoss, PublishesWrite
    <2>3. CASE UNCHANGED handoffVars \/ \E path \in Paths : WriteBack(path)
      BY <2>1, <2>3 DEF handoffVars, vars, diskVars, WriteBack
    <2> QED BY <1>0, <2>2, <2>3, PublishesKeep DEF HandoffNext
  <1>4. abandoned' \subseteq Destinations
    <2>1. CASE PowerLoss
      <3>1. Littered \subseteq Destinations
        BY <1>0, LitterIsBeside DEF Littered
      <3> QED BY <2>1, <3>1 DEF PowerLoss
    <2>2. ASSUME NEW o \in Operators, Kill(o)
          PROVE  abandoned' \subseteq Destinations
      BY <1>0, <2>2, LitterIsBeside DEF Kill
    <2>3. CASE abandoned' = abandoned
      BY <2>3
    <2>4. abandoned' = abandoned \/ PowerLoss \/ \E o \in Operators : Kill(o)
      BY DEF HandoffNext, HandoffStep, MakeTemporary, WriteTemporary, SyncTemporary, Turn,
             Replace, Otherwise, Raise, WriteBack, handoffVars, diskVars
    <2> QED BY <2>1, <2>2, <2>3, <2>4
  <1> QED BY <1>1, <1>2, <1>3, <1>4 DEF PublishesWrite

(* A temporary file belongs to a publish between its exists check and its   *)
(* rename, and only a kill or a power loss leaves one behind.               *)
THEOREM HandoffTypeCorrect == HandoffSpec => []HandoffTypeOK
  <1>1. HandoffInit => HandoffTypeOK
    BY DEF HandoffInit, Init, HandoffTypeOK, Paths
  <1> QED BY <1>1, HandoffTyped, DiskInvariance, HandoffInvariance, PTL DEF HandoffSpec
=============================================================================
