-------------------------- MODULE HandoffDirectory --------------------------
(* DirectoryPublisher.publish (persistence.py) on a file system, under the  *)
(* workflow that calls it: the export is written to a temporary file, the   *)
(* file is synced and renamed over the path, and nothing syncs the          *)
(* directory.  A power loss ends every call and takes back each rename the  *)
(* system has not written out by itself; a file whose contents were not     *)
(* synced before its rename is torn.  The rows (synchronous=FULL) and the   *)
(* audit lines (fsync) survive.                                             *)
EXTENDS EvidenceWorkflow

Paths == Destinations \X Cases

VARIABLES
  position,    \* operator -> the statement its publish is before
  temporary,   \* operator -> what its publish's temporary file holds
  abandoned,   \* directories with a temporary file whose publish is gone
  settled,     \* what the directories on the disk say of each path
  unsynced,    \* paths whose file was not synced when it was renamed
  torn,        \* paths whose file a power loss has cut off
  lost         \* history: paths whose last rename a power loss took back

diskVars == <<position, temporary, abandoned, settled, unsynced, torn, lost>>

handoffVars == <<vars, diskVars>>

HandoffInit ==
  /\ Init
  /\ position = [o \in Operators |-> "mkstemp"]
  /\ temporary = [o \in Operators |-> "none"]
  /\ abandoned = {}
  /\ settled = exports
  /\ unsynced = {}
  /\ torn = {}
  /\ lost = {}

-----------------------------------------------------------------------------
(* publish, from the exists check that found nothing to the rename *)

Turn(o, from, to, contents) ==
  /\ At(o, "writing")
  /\ position[o] = from
  /\ position' = [position EXCEPT ![o] = to]
  /\ temporary' = [temporary EXCEPT ![o] = contents]
  /\ UNCHANGED <<vars, abandoned, settled, unsynced, torn, lost>>

(* tempfile.mkstemp *)
MakeTemporary(o) == Turn(o, "mkstemp", "dump", "empty")

(* json.dump, the newline and the flush *)
WriteTemporary(o) == Turn(o, "dump", "fsync", "flushed")

(* Mutant: the file is renamed after the flush, without the sync. *)
SyncTemporarySkipped(o) == Turn(o, "fsync", "replace", "flushed")

(* os.fsync of the file *)
SyncTemporary(o) == Turn(o, "fsync", "replace", "synced")

(* os.replace, whatever has become of the contents by then, and the unlink  *)
(* that finds nothing.                                                      *)
Replace(o) ==
  /\ position[o] = "replace"
  /\ ExportReplace(o)
  /\ position' = [position EXCEPT ![o] = "mkstemp"]
  /\ temporary' = [temporary EXCEPT ![o] = "none"]
  /\ unsynced' = IF temporary[o] = "synced" THEN unsynced \ {Path(o)}
                                            ELSE unsynced \cup {Path(o)}
  /\ torn' = torn \ {Path(o)}
  /\ lost' = lost \ {Path(o)}
  /\ UNCHANGED <<abandoned, settled>>

(* The calls of the other steps. *)
Otherwise(o) ==
  /\ ~ At(o, "writing")
  /\ Step(o)
  /\ UNCHANGED diskVars

HandoffStep(o) ==
  MakeTemporary(o) \/ WriteTemporary(o) \/ SyncTemporary(o) \/ Replace(o) \/ Otherwise(o)

(* Mutant: without the finally clause, the call's file outlives it. *)
RaiseWithoutFinally(o) ==
  /\ Interrupt(o)
  /\ position' = [position EXCEPT ![o] = "mkstemp"]
  /\ UNCHANGED <<temporary, abandoned, settled, unsynced, torn, lost>>

(* The call raises, and the finally clause unlinks its temporary file. *)
Raise(o) ==
  /\ Interrupt(o)
  /\ position' = [position EXCEPT ![o] = "mkstemp"]
  /\ temporary' = [temporary EXCEPT ![o] = "none"]
  /\ UNCHANGED <<abandoned, settled, unsynced, torn, lost>>

(* Where a temporary file is now. *)
Littered == {task[o].destination : o \in {p \in Operators : temporary[p] # "none"}}

(* The process is killed.  Its temporary file stays, under a random name    *)
(* that nothing reads or removes.                                           *)
Kill(o) ==
  /\ Interrupt(o)
  /\ position' = [position EXCEPT ![o] = "mkstemp"]
  /\ temporary' = [temporary EXCEPT ![o] = "none"]
  /\ abandoned' = IF temporary[o] = "none" THEN abandoned
                                           ELSE abandoned \cup {task[o].destination}
  /\ UNCHANGED <<settled, unsynced, torn, lost>>

-----------------------------------------------------------------------------
(* the file system *)

(* The directory entry of a path is written out, at any time. *)
WriteBack(path) ==
  /\ settled[path] # exports[path]
  /\ settled' = [settled EXCEPT ![path] = exports[path]]
  /\ UNCHANGED <<vars, position, temporary, abandoned, unsynced, torn, lost>>

(* The entry of a temporary file may or may not have been written out. *)
PowerLoss ==
  /\ task' = [o \in Operators |-> Idle]
  /\ position' = [o \in Operators |-> "mkstemp"]
  /\ temporary' = [o \in Operators |-> "none"]
  /\ abandoned' \in SUBSET (abandoned \cup Littered)
  /\ exports' = settled
  /\ torn' = torn \cup {path \in unsynced : settled[path] = exports[path]}
  /\ unsynced' = {}
  /\ lost' = lost \cup {path \in Paths : settled[path] # exports[path]}
  /\ UNCHANGED <<repository, audit, approvals, settled>>

HandoffNext ==
  \/ \E o \in Operators : \/ Start(o) /\ UNCHANGED diskVars
                          \/ HandoffStep(o)
                          \/ Raise(o)
                          \/ Kill(o)
  \/ \E path \in Paths : WriteBack(path)
  \/ PowerLoss

HandoffSpec == HandoffInit /\ [][HandoffNext]_handoffVars

(* A running call goes on: the provider call has a timeout, SQLite waits at *)
(* most ten seconds for its lock and then raises.  Nobody has to start one, *)
(* no disk has to fail, and none has to write a directory out.              *)
FairHandoffSpec ==
  HandoffSpec /\ \A o \in Operators : WF_handoffVars(HandoffStep(o))

-----------------------------------------------------------------------------
(* Every variable of the disk stays in its type.  A temporary file belongs  *)
(* to a publish that is between its exists check and its rename, unless its *)
(* process was killed or the power failed: an exception leaves none behind  *)
(* (the finally clause, persistence.py:135-136).                            *)
HandoffTypeOK ==
  /\ position \in [Operators -> {"mkstemp", "dump", "fsync", "replace"}]
  /\ temporary \in [Operators -> {"none", "empty", "flushed", "synced"}]
  /\ \A o \in Operators : position[o] # "mkstemp" => At(o, "writing")
  /\ \A o \in Operators : temporary[o] = "none" <=> position[o] = "mkstemp"
  /\ abandoned \subseteq Destinations
  /\ settled \in [Paths -> Export \cup {Nil}]
  /\ unsynced \subseteq Paths
  /\ torn \subseteq Paths
  /\ lost \subseteq Paths

(* Wherever a publish is cut short and whenever the power fails, no handoff *)
(* path holds a part of an export: the contents are on the disk before the  *)
(* path names them (os.fsync before os.replace, persistence.py:131-134).    *)
WholeExports == torn = {}

(* What the stores report as published is there.  The file of a published   *)
(* row, or of a publication in the log, is missing only when a power loss   *)
(* took its rename back (no sync of the directory, persistence.py:134), and *)
(* whatever a power loss leaves at the path of a row is about its           *)
(* assessment, unless decisions on two assessments were taken.              *)
ReportedIsThere ==
  /\ \A c \in Cases : Stored(c, "published") =>
       LET path == <<repository[c].receipt, c>>
       IN  /\ exports[path] = Nil => path \in lost
           /\ exports[path] # Nil /\ DecisionsAgree(c)
                => SameKey(exports[path], repository[c])
  /\ \A entry \in audit :
       LET path == <<entry.detail, entry.case>>
       IN  entry.event = "case_published" /\ exports[path] = Nil => path \in lost
=============================================================================
