------------------------------ MODULE AuditLog ------------------------------
(* The hash-chained audit file of audit.py.  Each process that works in a   *)
(* data directory holds one AuditLog object over the same file: it reads    *)
(* the last hash of the file once, when it is built, and from then on       *)
(* chains its appends to the hash it cached.  The lock belongs to the       *)
(* object, so it orders the threads of one process and nothing else.        *)
(* A hash is a number handed out once per append: no two records hash alike *)
(* because the hash covers the timestamp and the previous hash.             *)
EXTENDS Integers, Sequences

CONSTANTS
  Objects,     \* AuditLog objects, at most one per process at a time
  Threads,     \* threads that append
  Home,        \* thread -> the object of its process
  Faults,      \* which of "write", "sync", "kill", "power" may go wrong
  MaxAppends,  \* bound: appends that are begun
  Nobody       \* no thread is inside the lock

ASSUME HomeAssumption == Home \in [Threads -> Objects]
ASSUME FaultsAssumption == Faults \subseteq {"write", "sync", "kill", "power"}
ASSUME MaxAppendsAssumption == MaxAppends \in Nat
ASSUME NobodyAssumption == Nobody \notin Threads

Genesis == 0       \* "0" * 64
Closed == -1       \* no such object at the moment

Hashes == 1 .. MaxAppends

(* A line that json.loads refuses: part of a record, or two on one line.    *)
Scrap == [hash |-> -2, previous |-> -2]

Line == [hash : Hashes, previous : Hashes \cup {Genesis}] \cup {Scrap}

VARIABLES
  file,      \* the lines of the file
  torn,      \* the last line has no newline yet
  durable,   \* how many lines a power loss cannot take
  head,      \* object -> _previous_hash, or Closed
  lock,      \* object -> the thread inside _lock, or Nobody
  pc,        \* thread -> where it is in append
  hash,      \* thread -> event_hash of the record it is appending
  issued,    \* how many hashes have been handed out
  acked,     \* history: the hashes append has returned
  orderly    \* history: no append raised, no power loss tore a line, and no
             \* object was opened while another was open

vars == <<file, torn, durable, head, lock, pc, hash, issued, acked, orderly>>

LastHash == IF file = <<>> THEN Genesis ELSE file[Len(file)].hash

(* verify() *)
Verifies ==
  \A i \in 1 .. Len(file) :
    /\ file[i] # Scrap
    /\ file[i].previous = IF i = 1 THEN Genesis ELSE file[i - 1].hash

Init == /\ file = <<>>
        /\ torn = FALSE
        /\ durable = 0
        /\ head = [p \in Objects |-> Closed]
        /\ lock = [p \in Objects |-> Nobody]
        /\ pc = [t \in Threads |-> "idle"]
        /\ hash = [t \in Threads |-> Genesis]
        /\ issued = 0
        /\ acked = {}
        /\ orderly = TRUE

(* No other process has its object open. *)
Alone(p) == \A q \in Objects \ {p} : head[q] = Closed

(* Mutant: an unreadable last line is taken for a hash like any other. *)
OpenAnyway(p) ==
  /\ head[p] = Closed
  /\ head' = [head EXCEPT ![p] = LastHash]
  /\ orderly' = (orderly /\ Alone(p))
  /\ UNCHANGED <<file, torn, durable, lock, pc, hash, issued, acked>>

(* __init__: an empty file starts a chain; one whose last line cannot be    *)
(* parsed raises, and there is no object.                                   *)
Open(p) ==
  /\ head[p] = Closed
  /\ file = <<>> \/ LastHash # Scrap.hash
  /\ head' = [head EXCEPT ![p] = LastHash]
  /\ orderly' = (orderly /\ Alone(p))
  /\ UNCHANGED <<file, torn, durable, lock, pc, hash, issued, acked>>

(* Take the lock; hash a record that names the cached hash. *)
Enter(t) ==
  /\ pc[t] = "idle"
  /\ head[Home[t]] # Closed
  /\ lock[Home[t]] = Nobody
  /\ issued < MaxAppends
  /\ lock' = [lock EXCEPT ![Home[t]] = t]
  /\ pc' = [pc EXCEPT ![t] = "writing"]
  /\ issued' = issued + 1
  /\ hash' = [hash EXCEPT ![t] = issued + 1]
  /\ UNCHANGED <<file, torn, durable, head, acked, orderly>>

(* Bytes go to the end of the file: a new line, or more of an unfinished    *)
(* one, which no longer parses.                                             *)
Added(line) ==
  IF torn THEN [file EXCEPT ![Len(file)] = Scrap] ELSE Append(file, line)

Record(t) == [hash |-> hash[t], previous |-> head[Home[t]]]

(* Mutant: the file is opened with mode "w". *)
WriteOver(t) ==
  /\ pc[t] = "writing"
  /\ file' = <<Record(t)>>
  /\ torn' = FALSE
  /\ pc' = [pc EXCEPT ![t] = "syncing"]
  /\ UNCHANGED <<durable, head, lock, hash, issued, acked, orderly>>

Write(t) ==
  /\ pc[t] = "writing"
  /\ file' = Added(Record(t))
  /\ torn' = FALSE
  /\ pc' = [pc EXCEPT ![t] = "syncing"]
  /\ UNCHANGED <<durable, head, lock, hash, issued, acked, orderly>>

(* An exception leaves append: the lock is released, the cached hash stays. *)
Raise(t) ==
  /\ lock' = [lock EXCEPT ![Home[t]] = Nobody]
  /\ pc' = [pc EXCEPT ![t] = "idle"]
  /\ orderly' = FALSE
  /\ UNCHANGED <<head, hash, issued, acked>>

(* The disk is full: nothing, a part, all but the newline or, when closing  *)
(* the handle flushes the rest after all, the whole line gets there.        *)
WriteFails(t) ==
  /\ "write" \in Faults
  /\ pc[t] = "writing"
  /\ \/ UNCHANGED <<file, torn>>
     \/ \E line \in {Record(t), Scrap} : file' = Added(line) /\ torn' = TRUE
     \/ file' = Added(Record(t)) /\ torn' = FALSE
  /\ Raise(t)
  /\ UNCHANGED durable

Complete == IF torn THEN Len(file) - 1 ELSE Len(file)

(* Mutant: the handle is flushed and not synced. *)
SyncSkipped(t) ==
  /\ pc[t] = "syncing"
  /\ pc' = [pc EXCEPT ![t] = "leaving"]
  /\ UNCHANGED <<file, torn, durable, head, lock, hash, issued, acked, orderly>>

Sync(t) ==
  /\ pc[t] = "syncing"
  /\ durable' = Complete
  /\ pc' = [pc EXCEPT ![t] = "leaving"]
  /\ UNCHANGED <<file, torn, head, lock, hash, issued, acked, orderly>>

(* fsync or chmod raises, after the line has been written. *)
SyncFails(t) ==
  /\ "sync" \in Faults
  /\ pc[t] \in {"syncing", "leaving"}
  /\ Raise(t)
  /\ UNCHANGED <<file, torn, durable>>

(* Mutant: the cached hash is not replaced. *)
LeaveStale(t) ==
  /\ pc[t] = "leaving"
  /\ lock' = [lock EXCEPT ![Home[t]] = Nobody]
  /\ pc' = [pc EXCEPT ![t] = "idle"]
  /\ acked' = acked \cup {hash[t]}
  /\ UNCHANGED <<file, torn, durable, head, hash, issued, orderly>>

(* Cache the hash, release the lock and return. *)
Leave(t) ==
  /\ pc[t] = "leaving"
  /\ head' = [head EXCEPT ![Home[t]] = hash[t]]
  /\ lock' = [lock EXCEPT ![Home[t]] = Nobody]
  /\ pc' = [pc EXCEPT ![t] = "idle"]
  /\ acked' = acked \cup {hash[t]}
  /\ UNCHANGED <<file, torn, durable, hash, issued, orderly>>

(* The process of p ends, between appends unless it is killed. *)
Exit(p) ==
  /\ head[p] # Closed
  /\ "kill" \in Faults \/ lock[p] = Nobody
  /\ head' = [head EXCEPT ![p] = Closed]
  /\ lock' = [lock EXCEPT ![p] = Nobody]
  /\ pc' = [t \in Threads |-> IF Home[t] = p THEN "idle" ELSE pc[t]]
  /\ UNCHANGED <<file, torn, durable, hash, issued, acked, orderly>>

(* The machine loses power: any lines after the durable ones are lost, and  *)
(* of the first of those a part may be left.                                *)
PowerLoss ==
  /\ "power" \in Faults
  /\ \/ /\ UNCHANGED <<file, torn>>
        /\ durable' = Complete
     \/ \E n \in durable .. Len(file) - 1 :
          /\ durable' = n
          /\ \/ file' = SubSeq(file, 1, n) /\ torn' = FALSE
             \/ file' = Append(SubSeq(file, 1, n), Scrap) /\ torn' = TRUE
  /\ head' = [p \in Objects |-> Closed]
  /\ lock' = [p \in Objects |-> Nobody]
  /\ pc' = [t \in Threads |-> "idle"]
  /\ orderly' = (orderly /\ ~ torn')
  /\ UNCHANGED <<hash, issued, acked>>

Next == \/ \E p \in Objects : Open(p) \/ Exit(p)
        \/ \E t \in Threads : \/ Enter(t)
                              \/ Write(t)
                              \/ WriteFails(t)
                              \/ Sync(t)
                              \/ SyncFails(t)
                              \/ Leave(t)
        \/ PowerLoss

Spec == Init /\ [][Next]_vars

-----------------------------------------------------------------------------
(* Every variable stays in its type. *)
TypeOK == /\ file \in Seq(Line)
          /\ torn \in BOOLEAN
          /\ durable \in Nat
          /\ head \in [Objects -> Hashes \cup {Genesis, Closed}]
          /\ lock \in [Objects -> Threads \cup {Nobody}]
          /\ pc \in [Threads -> {"idle", "writing", "syncing", "leaving"}]
          /\ hash \in [Threads -> Hashes \cup {Genesis}]
          /\ issued \in 0 .. MaxAppends
          /\ acked \subseteq Hashes
          /\ orderly \in BOOLEAN

(* A record that append has returned is on disk for good, or something      *)
(* unreadable is there in its place: however many processes append, and     *)
(* whatever write, sync, kill or power loss befell this or another append,  *)
(* an acknowledged event cannot be missing from a file that verifies.       *)
NothingLost ==
  Verifies => \A h \in acked : \E i \in 1 .. durable : file[i].hash = h

(* Every process that appends keeps every byte that is durably in the file, *)
(* also when a power loss takes the rest (the file is only ever opened with *)
(* mode "a" and an acknowledged line was synced).                           *)
DurableLinesStay ==
  [][/\ durable <= durable'
     /\ durable' <= Len(file')
     /\ \A i \in 1 .. durable : file'[i] = file[i]]_vars

(* verify() is true at every moment as long as processes work one after the *)
(* other and no append raises: kills inside append, restarts, threads that  *)
(* share an object and a power loss between two lines leave a whole chain   *)
(* (__init__ reads the last hash once, audit.py:17; append replaces it only *)
(* on return, audit.py:42).                                                 *)
OrderlyVerifies == orderly => Verifies

(* "Every step leaves a record you can verify afterwards": verify() is true *)
(* whichever processes append.                                              *)
AlwaysVerifies == Verifies

-----------------------------------------------------------------------------
(* The inductive invariants. *)

(* Some line among the first n is the record with hash h, or spoils the     *)
(* file.                                                                    *)
Kept(h, n) == \E i \in 1 .. n : file[i].hash = h \/ file[i] = Scrap

AckInv == /\ torn => file # <<>>
          /\ durable <= Complete
          /\ \A h \in acked : Kept(h, durable)
          /\ \A t \in Threads :
             /\ pc[t] # "idle" => hash[t] \in Hashes /\ head[Home[t]] # Closed
             /\ pc[t] = "syncing" => Kept(hash[t], Complete)
             /\ pc[t] = "leaving" => Kept(hash[t], durable)

(* Every append but one that has written and not yet returned is in the     *)
(* cached hash of the one object that is open.                              *)
ChainInv ==
  /\ Verifies
  /\ ~ torn
  /\ \A p, q \in Objects : head[p] # Closed /\ head[q] # Closed => p = q
  /\ \A t \in Threads :
       /\ pc[t] # "idle" => lock[Home[t]] = t
       /\ pc[t] = "writing" => head[Home[t]] = LastHash
       /\ pc[t] \in {"syncing", "leaving"} => hash[t] = LastHash
  /\ \A p \in Objects :
       /\ lock[p] # Nobody => pc[lock[p]] # "idle" /\ Home[lock[p]] = p
       /\ head[p] # Closed /\ lock[p] = Nobody => head[p] = LastHash

OrderlyInv == orderly => ChainInv
=============================================================================
