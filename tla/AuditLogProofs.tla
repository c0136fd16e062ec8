--------------------------- MODULE AuditLogProofs ---------------------------
(* Safety of AuditLog for any number of processes, threads and appends.     *)
EXTENDS AuditLog, TLAPS

LEMMA TypeInit == Init => TypeOK
  <1> SUFFICES ASSUME Init PROVE TypeOK
    OBVIOUS
  <1>1. file \in Seq(Line) /\ torn \in BOOLEAN /\ durable \in Nat
    <2>1. <<>> \in Seq(Line) /\ 0 \in Nat
      OBVIOUS
    <2>2. torn \in BOOLEAN
      BY Zenon DEF Init
    <2> QED BY <2>1, <2>2 DEF Init
  <1>2. issued \in 0 .. MaxAppends /\ acked \subseteq Hashes
    BY MaxAppendsAssumption DEF Init
  <1>4. orderly \in BOOLEAN
    BY Zenon DEF Init
  <1>3. /\ head \in [Objects -> Hashes \cup {Genesis, Closed}]
        /\ lock \in [Objects -> Threads \cup {Nobody}]
        /\ pc \in [Threads -> {"idle", "writing", "syncing", "leaving"}]
        /\ hash \in [Threads -> Hashes \cup {Genesis}]
    BY DEF Init
  <1> QED BY <1>1, <1>2, <1>3, <1>4 DEF TypeOK

LEMMA AddedType ==
  ASSUME file \in Seq(Line), torn => file # <<>>, NEW line \in Line
  PROVE  /\ Added(line) \in Seq(Line)
         /\ Added(line) # <<>>
         /\ Len(Added(line)) = IF torn THEN Len(file) ELSE Len(file) + 1
         /\ \A i \in 1 .. Complete : Added(line)[i] = file[i]
         /\ Added(line)[Len(Added(line))] = IF torn THEN Scrap ELSE line
  <1>1. Scrap \in Line
    BY DEF Line
  <1>2. CASE torn
    BY <1>1, <1>2 DEF Added, Complete
  <1>3. CASE ~ torn
    BY <1>3 DEF Added, Complete
  <1> QED BY <1>2, <1>3

LEMMA LastHashType ==
  ASSUME file \in Seq(Line)
  PROVE  LastHash \in Hashes \cup {Genesis, Scrap.hash}
  <1>1. CASE file = <<>>
    BY <1>1 DEF LastHash
  <1>2. CASE file # <<>>
    <2>1. file[Len(file)] \in Line
      BY <1>2
    <2> QED BY <1>2, <2>1 DEF LastHash, Line
  <1> QED BY <1>1, <1>2

LEMMA RecordType ==
  ASSUME TypeOK, AckInv, NEW t \in Threads, pc[t] # "idle"
  PROVE  Record(t) \in Line /\ Record(t).hash = hash[t]
  <1>1. hash[t] \in Hashes /\ head[Home[t]] \in Hashes \cup {Genesis}
    BY HomeAssumption DEF TypeOK, AckInv
  <1> QED BY <1>1 DEF Record, Line
LEMMA InitAck == Init => AckInv
  BY DEF Init, AckInv, Complete

(* The prefix of the file on which Complete counts on. *)
LEMMA CompleteType ==
  ASSUME TypeOK, AckInv
  PROVE  Complete \in Nat /\ Complete <= Len(file) /\ durable <= Complete
  BY DEF TypeOK, AckInv, Complete

(* A record that is kept stays so while its part of the file does.          *)
LEMMA KeptStays ==
  ASSUME NEW h, NEW n \in Nat, Kept(h, n), NEW m \in Nat, n <= m,
         \A i \in 1 .. n : file'[i] = file[i]
  PROVE  \E i \in 1 .. m : file'[i].hash = h \/ file'[i] = Scrap
  BY DEF Kept

LEMMA OpenKeeps ==
  ASSUME TypeOK, AckInv, NEW p \in Objects, Open(p)
  PROVE  TypeOK' /\ AckInv'
  <1>1. LastHash \in Hashes \cup {Genesis}
    <2>1. CASE file = <<>>
      BY <2>1 DEF LastHash
    <2>2. CASE LastHash # Scrap.hash
      BY <2>2, LastHashType DEF TypeOK
    <2> QED BY <2>1, <2>2 DEF Open
  <1>2. TypeOK'
    BY <1>1 DEF Open, TypeOK
  <1>3. LastHash # Closed
    BY <1>1, MaxAppendsAssumption DEF Hashes, Genesis, Closed
  <1>4. AckInv'
    BY <1>3, HomeAssumption DEF Open, TypeOK, AckInv, Kept, Complete
  <1> QED BY <1>2, <1>4

LEMMA EnterKeeps ==
  ASSUME TypeOK, AckInv, NEW t \in Threads, Enter(t)
  PROVE  TypeOK' /\ AckInv'
  <1>1. issued + 1 \in Hashes /\ issued + 1 \in 0 .. MaxAppends
    BY MaxAppendsAssumption DEF Enter, TypeOK, Hashes
  <1>2. TypeOK'
    BY <1>1, HomeAssumption DEF Enter, TypeOK
  <1>3. AckInv'
    BY <1>1, HomeAssumption DEF Enter, TypeOK, AckInv, Kept, Complete
  <1> QED BY <1>2, <1>3

(* The two invariants after bytes were added at the end of the file; what t *)
(* itself goes on to is left to the action.                                 *)
LEMMA AddedKeeps ==
  ASSUME TypeOK, AckInv, NEW line \in Line, file' = Added(line)
  PROVE  /\ file' \in Seq(Line) /\ file' # <<>>
         /\ Complete \in Nat /\ Complete <= Complete'
         /\ Complete' \in Nat /\ Complete' <= Len(file')
         /\ \A i \in 1 .. Complete : file'[i] = file[i]
         /\ ~ torn' => /\ Complete' = Len(file')
                       /\ Complete' >= 1
                       /\ file'[Complete'] = line \/ file'[Complete'] = Scrap
  <1>1. file \in Seq(Line) /\ (torn => file # <<>>)
    BY DEF TypeOK, AckInv
  <1>2. /\ file' \in Seq(Line) /\ file' # <<>>
        /\ Len(file') = IF torn THEN Len(file) ELSE Len(file) + 1
        /\ \A i \in 1 .. Complete : file'[i] = file[i]
        /\ file'[Len(file')] = IF torn THEN Scrap ELSE line
    BY <1>1, AddedType
  <1>3. Complete \in Nat /\ Complete <= Complete'
    BY <1>1, <1>2 DEF Complete
  <1>4. Complete' \in Nat /\ Complete' <= Len(file')
    BY <1>2 DEF Complete
  <1>5. ASSUME ~ torn'
        PROVE  /\ Complete' = Len(file') /\ Complete' >= 1
               /\ file'[Complete'] = line \/ file'[Complete'] = Scrap
    BY <1>1, <1>2, <1>5 DEF Complete
  <1> QED BY <1>2, <1>3, <1>4, <1>5

(* Everything the invariant says that a longer file cannot disturb.         *)
LEMMA KeptAfter ==
  ASSUME TypeOK, AckInv, Complete' \in Nat, Complete <= Complete',
         \A i \in 1 .. Complete : file'[i] = file[i], durable' = durable
  PROVE  /\ \A h : Kept(h, durable) => Kept(h, durable)'
         /\ \A h : Kept(h, Complete) => Kept(h, Complete)'
         /\ durable' <= Complete'
  <1>1. durable \in Nat /\ Complete \in Nat /\ durable <= Complete
    BY CompleteType DEF TypeOK
  <1> QED BY <1>1 DEF Kept
LEMMA WriteKeeps ==
  ASSUME TypeOK, AckInv, NEW t \in Threads, Write(t)
  PROVE  TypeOK' /\ AckInv'
  <1>1. /\ pc[t] = "writing" /\ file' = Added(Record(t)) /\ torn' = FALSE
        /\ pc' = [pc EXCEPT ![t] = "syncing"]
        /\ UNCHANGED <<durable, head, lock, hash, issued, acked, orderly>>
    BY DEF Write
  <1>2. Record(t) \in Line /\ Record(t).hash = hash[t]
    BY <1>1, RecordType
  <1>3. /\ file' \in Seq(Line) /\ file' # <<>>
        /\ Complete' \in Nat /\ Complete <= Complete'
        /\ \A i \in 1 .. Complete : file'[i] = file[i]
        /\ Complete' >= 1
        /\ file'[Complete'] = Record(t) \/ file'[Complete'] = Scrap
    BY <1>1, <1>2, AddedKeeps
  <1>4. TypeOK'
    <2>1. torn' \in BOOLEAN
      BY <1>1, Zenon
    <2> QED BY <1>1, <1>3, <2>1 DEF TypeOK
  <1>5. /\ \A h : Kept(h, durable) => Kept(h, durable)'
        /\ \A h : Kept(h, Complete) => Kept(h, Complete)'
        /\ durable' <= Complete'
    BY <1>1, <1>3, KeptAfter
  <1>6. Kept(hash[t], Complete)'
    BY <1>1, <1>2, <1>3 DEF Kept
  <1>7. AckInv'
    <2>1. \A h \in acked' : Kept(h, durable)'
      BY <1>1, <1>5 DEF AckInv
    <2>2. ASSUME NEW u \in Threads
          PROVE  (/\ pc[u] # "idle" => hash[u] \in Hashes /\ head[Home[u]] # Closed
                  /\ pc[u] = "syncing" => Kept(hash[u], Complete)
                  /\ pc[u] = "leaving" => Kept(hash[u], durable))'
      <3>1. CASE u = t
        BY <1>1, <1>6, <3>1 DEF AckInv, TypeOK
      <3>2. CASE u # t
        <4>1. pc'[u] = pc[u]
          BY <1>1, <3>2 DEF TypeOK
        <4> QED BY <1>1, <1>5, <4>1 DEF AckInv
      <3> QED BY <3>1, <3>2
    <2> QED BY <1>1, <1>3, <1>5, <2>1, <2>2 DEF AckInv
  <1> QED BY <1>4, <1>7

(* t leaves append by an exception. *)
LEMMA RaiseKeeps ==
  ASSUME TypeOK, AckInv, NEW t \in Threads, Raise(t), UNCHANGED durable,
         file' \in Seq(Line), torn' \in BOOLEAN, torn' => file' # <<>>,
         Complete' \in Nat, Complete <= Complete',
         \A i \in 1 .. Complete : file'[i] = file[i]
  PROVE  TypeOK' /\ AckInv'
  <1>1. /\ lock' = [lock EXCEPT ![Home[t]] = Nobody]
        /\ pc' = [pc EXCEPT ![t] = "idle"]
        /\ UNCHANGED <<durable, head, hash, issued, acked>>
    BY DEF Raise
  <1>2. TypeOK'
    <2>1. orderly' \in BOOLEAN
      BY Zenon DEF Raise
    <2> QED BY <1>1, <2>1 DEF TypeOK
  <1>3. /\ \A h : Kept(h, durable) => Kept(h, durable)'
        /\ \A h : Kept(h, Complete) => Kept(h, Complete)'
        /\ durable' <= Complete'
    BY <1>1, KeptAfter
  <1>4. \A u \in Threads : pc'[u] = pc[u] \/ pc'[u] = "idle"
    BY <1>1 DEF TypeOK
  <1>5. AckInv'
    BY <1>1, <1>3, <1>4 DEF AckInv
  <1> QED BY <1>2, <1>5

LEMMA WriteFailsKeeps ==
  ASSUME TypeOK, AckInv, NEW t \in Threads, WriteFails(t)
  PROVE  TypeOK' /\ AckInv'
  <1>1. pc[t] = "writing" /\ Raise(t) /\ UNCHANGED durable
    BY DEF WriteFails
  <1>2. Record(t) \in Line /\ Scrap \in Line
    BY <1>1, RecordType DEF Line
  <1>3. CASE UNCHANGED <<file, torn>>
    BY <1>1, <1>3, CompleteType, RaiseKeeps DEF TypeOK, AckInv, Complete
  <1>4. ASSUME NEW line \in Line, file' = Added(line), torn' \in BOOLEAN
        PROVE  TypeOK' /\ AckInv'
    BY <1>1, <1>4, AddedKeeps, RaiseKeeps
  <1>5. TRUE \in BOOLEAN /\ FALSE \in BOOLEAN
    BY Zenon
  <1> QED BY <1>2, <1>3, <1>4, <1>5 DEF WriteFails

LEMMA SyncKeeps ==
  ASSUME TypeOK, AckInv, NEW t \in Threads, Sync(t)
  PROVE  TypeOK' /\ AckInv'
  <1>1. /\ pc[t] = "syncing" /\ durable' = Complete
        /\ pc' = [pc EXCEPT ![t] = "leaving"]
        /\ UNCHANGED <<file, torn, head, lock, hash, issued, acked, orderly>>
    BY DEF Sync
  <1>2. Complete \in Nat /\ Complete' = Complete /\ durable <= Complete
        /\ durable \in Nat
    BY <1>1, CompleteType DEF Complete, TypeOK
  <1>3. TypeOK'
    BY <1>1, <1>2 DEF TypeOK
  <1>4. \A h : Kept(h, durable) => Kept(h, durable)'
    BY <1>1, <1>2 DEF Kept
  <1>5. \A h : Kept(h, Complete) => Kept(h, Complete)' /\ Kept(h, durable)'
    BY <1>1, <1>2 DEF Kept
  <1>6. \A u \in Threads : u # t => pc'[u] = pc[u]
    BY <1>1 DEF TypeOK
  <1>7. pc'[t] = "leaving"
    BY <1>1 DEF TypeOK
  <1>8. AckInv'
    BY <1>1, <1>2, <1>4, <1>5, <1>6, <1>7 DEF AckInv
  <1> QED BY <1>3, <1>8

LEMMA SyncFailsKeeps ==
  ASSUME TypeOK, AckInv, NEW t \in Threads, SyncFails(t)
  PROVE  TypeOK' /\ AckInv'
  BY CompleteType, RaiseKeeps DEF SyncFails, TypeOK, AckInv, Complete

LEMMA LeaveKeeps ==
  ASSUME TypeOK, AckInv, NEW t \in Threads, Leave(t)
  PROVE  TypeOK' /\ AckInv'
  <1>1. /\ pc[t] = "leaving"
        /\ head' = [head EXCEPT ![Home[t]] = hash[t]]
        /\ lock' = [lock EXCEPT ![Home[t]] = Nobody]
        /\ pc' = [pc EXCEPT ![t] = "idle"]
        /\ acked' = acked \cup {hash[t]}
        /\ UNCHANGED <<file, torn, durable, hash, issued, orderly>>
    BY DEF Leave
  <1>2. hash[t] \in Hashes /\ hash[t] # Closed /\ Kept(hash[t], durable)
    BY <1>1, MaxAppendsAssumption DEF AckInv, Hashes, Closed
  <1>3. TypeOK'
    BY <1>1, <1>2 DEF TypeOK
  <1>4. \A u \in Threads : pc'[u] = pc[u] \/ pc'[u] = "idle"
    BY <1>1 DEF TypeOK
  <1>5. \A p \in Objects : head[p] # Closed => head'[p] # Closed
    BY <1>1, <1>2 DEF TypeOK
  <1>6. \A h \in acked' : Kept(h, durable)
    BY <1>1, <1>2 DEF AckInv
  <1>7. AckInv'
    BY <1>1, <1>4, <1>5, <1>6, HomeAssumption DEF AckInv, Kept, Complete
  <1> QED BY <1>3, <1>7

LEMMA ExitKeeps ==
  ASSUME TypeOK, AckInv, NEW p \in Objects, Exit(p)
  PROVE  TypeOK' /\ AckInv'
  <1>1. /\ head' = [head EXCEPT ![p] = Closed]
        /\ lock' = [lock EXCEPT ![p] = Nobody]
        /\ pc' = [t \in Threads |-> IF Home[t] = p THEN "idle" ELSE pc[t]]
        /\ UNCHANGED <<file, torn, durable, hash, issued, acked, orderly>>
    BY DEF Exit
  <1>2. TypeOK'
    BY <1>1 DEF TypeOK
  <1>3. \A t \in Threads : pc'[t] # "idle" => pc'[t] = pc[t] /\ Home[t] # p
    BY <1>1
  <1>4. \A t \in Threads : Home[t] # p => head'[Home[t]] = head[Home[t]]
    BY <1>1, HomeAssumption DEF TypeOK
  <1>5. AckInv'
    BY <1>1, <1>3, <1>4 DEF AckInv, Kept, Complete
  <1> QED BY <1>2, <1>5

(* What a power loss leaves of the file. *)
Survives == /\ file' \in Seq(Line) /\ torn' \in BOOLEAN
            /\ torn' => file' # <<>>
            /\ durable' \in Nat /\ durable <= durable' /\ durable' = Complete'
            /\ \A i \in 1 .. durable : file'[i] = file[i]

LEMMA PowerLossKeeps ==
  ASSUME TypeOK, AckInv, PowerLoss
  PROVE  TypeOK' /\ AckInv'
  <1>1. /\ head' = [p \in Objects |-> Closed]
        /\ lock' = [p \in Objects |-> Nobody]
        /\ pc' = [t \in Threads |-> "idle"]
        /\ UNCHANGED <<hash, issued, acked>>
    BY DEF PowerLoss
  <1>2. durable \in Nat /\ durable <= Complete /\ Complete \in Nat
        /\ Complete <= Len(file) /\ file \in Seq(Line)
    BY CompleteType DEF TypeOK
  <1>3. Survives
    <2>1. CASE UNCHANGED <<file, torn>> /\ durable' = Complete
      BY <1>2, <2>1 DEF Survives, TypeOK, AckInv, Complete
    <2>2. ASSUME NEW n \in durable .. Len(file) - 1, durable' = n,
                 file' = SubSeq(file, 1, n), torn' = FALSE
          PROVE  Survives
      <3>1. n \in Nat /\ file' \in Seq(Line) /\ Len(file') = n
        BY <1>2, <2>2
      <3>2. torn' \in BOOLEAN
        BY <2>2, Zenon
      <3>3. \A i \in 1 .. durable : file'[i] = file[i]
        BY <1>2, <2>2
      <3> QED BY <1>2, <2>2, <3>1, <3>2, <3>3 DEF Survives, Complete
    <2>3. ASSUME NEW n \in durable .. Len(file) - 1, durable' = n,
                 file' = Append(SubSeq(file, 1, n), Scrap), torn' = TRUE
          PROVE  Survives
      <3>1. n \in Nat /\ file' \in Seq(Line) /\ Len(file') = n + 1 /\ file' # <<>>
        BY <1>2, <2>3 DEF Line
      <3>2. torn' \in BOOLEAN
        BY <2>3, Zenon
      <3>3. \A i \in 1 .. durable : file'[i] = file[i]
        BY <1>2, <2>3
      <3> QED BY <1>2, <2>3, <3>1, <3>2, <3>3 DEF Survives, Complete
    <2>4. \/ UNCHANGED <<file, torn>> /\ durable' = Complete
          \/ \E n \in durable .. Len(file) - 1 :
               durable' = n /\ file' = SubSeq(file, 1, n) /\ torn' = FALSE
          \/ \E n \in durable .. Len(file) - 1 :
               durable' = n /\ file' = Append(SubSeq(file, 1, n), Scrap) /\ torn' = TRUE
      BY Zenon DEF PowerLoss
    <2> QED BY Zenon, <2>1, <2>2, <2>3, <2>4
  <1>4. TypeOK'
    <2>1. orderly' \in BOOLEAN
      BY Zenon DEF PowerLoss
    <2> QED BY <1>1, <1>3, <2>1 DEF Survives, TypeOK
  <1>5. \A h : Kept(h, durable) => Kept(h, durable)'
    BY <1>2, <1>3 DEF Survives, Kept
  <1>6. AckInv'
    BY <1>1, <1>3, <1>5 DEF Survives, AckInv
  <1> QED BY <1>4, <1>6

LEMMA AckKeeps == TypeOK /\ AckInv /\ [Next]_vars => TypeOK' /\ AckInv'
  <1> SUFFICES ASSUME TypeOK, AckInv, [Next]_vars PROVE TypeOK' /\ AckInv'
    OBVIOUS
  <1>1. CASE UNCHANGED vars
    BY <1>1 DEF vars, TypeOK, AckInv, Kept, Complete
  <1>2. CASE Next
    BY <1>2, OpenKeeps, ExitKeeps, EnterKeeps, WriteKeeps, WriteFailsKeeps, SyncKeeps,
       SyncFailsKeeps, LeaveKeeps, PowerLossKeeps DEF Next
  <1> QED BY <1>1, <1>2

THEOREM AckInvariance == Spec => [](TypeOK /\ AckInv)
  <1>1. Init => TypeOK /\ AckInv
    BY TypeInit, InitAck
  <1> QED BY <1>1, AckKeeps, PTL DEF Spec

(* Every reachable state has the types the module declares. *)
THEOREM TypeCorrect == Spec => []TypeOK
  BY AckInvariance, PTL

(* An acknowledged audit record is durably in every file that verifies,     *)
(* whatever faults occur and however many processes append.                 *)
THEOREM NothingIsLost == Spec => []NothingLost
  <1>1. TypeOK /\ AckInv => NothingLost
    <2> SUFFICES ASSUME TypeOK, AckInv, Verifies, NEW h \in acked
                 PROVE  \E i \in 1 .. durable : file[i].hash = h
      BY DEF NothingLost
    <2>1. PICK i \in 1 .. durable : file[i].hash = h \/ file[i] = Scrap
      BY DEF AckInv, Kept
    <2>2. i \in 1 .. Len(file)
      BY CompleteType DEF TypeOK
    <2> QED BY <2>1, <2>2 DEF Verifies
  <1> QED BY <1>1, AckInvariance, PTL
-----------------------------------------------------------------------------
(* What a step does to the file: with AckInv, the lines that are durable    *)
(* are complete, and only an incomplete line is ever written into.          *)

Stays == /\ durable <= durable'
         /\ durable' <= Len(file')
         /\ \A i \in 1 .. durable : file'[i] = file[i]

LEMMA AddedStays ==
  ASSUME TypeOK, AckInv, NEW line \in Line, file' = Added(line), UNCHANGED durable
  PROVE  Stays
  <1>1. /\ Complete' \in Nat /\ Complete <= Complete'
        /\ Complete' <= Len(file') /\ file' \in Seq(Line)
        /\ \A i \in 1 .. Complete : file'[i] = file[i]
    BY AddedKeeps
  <1>2. durable \in Nat /\ durable <= Complete /\ Complete \in Nat
    BY CompleteType DEF TypeOK
  <1> QED BY <1>1, <1>2 DEF Stays

LEMMA NextStays ==
  ASSUME TypeOK, AckInv, [Next]_vars
  PROVE  Stays
  <1>1. /\ durable \in Nat /\ durable <= Complete /\ Complete \in Nat
        /\ Complete <= Len(file) /\ file \in Seq(Line)
    BY CompleteType DEF TypeOK
  <1>2. CASE UNCHANGED <<file, durable>>
    BY <1>1, <1>2 DEF Stays
  <1>3. CASE \E p \in Objects : Open(p) \/ Exit(p)
    BY <1>2, <1>3 DEF Open, Exit
  <1>4. ASSUME NEW t \in Threads, Write(t)
        PROVE  Stays
    <2>1. Record(t) \in Line
      BY <1>4, RecordType DEF Write
    <2> QED BY <1>4, <2>1, AddedStays DEF Write
  <1>5. ASSUME NEW t \in Threads, WriteFails(t)
        PROVE  Stays
    <2>1. Record(t) \in Line /\ Scrap \in Line
      BY <1>5, RecordType DEF WriteFails, Line
    <2> QED BY <1>2, <1>5, <2>1, AddedStays DEF WriteFails
  <1>6. CASE \E t \in Threads : Enter(t) \/ SyncFails(t) \/ Leave(t)
    BY <1>2, <1>6 DEF Enter, SyncFails, Leave
  <1>7. CASE \E t \in Threads : Sync(t)
    BY <1>1, <1>7 DEF Sync, Stays
  <1>8. CASE PowerLoss
    <2>1. CASE UNCHANGED file /\ durable' = Complete
      BY <1>1, <2>1 DEF Stays
    <2>2. ASSUME NEW n \in durable .. Len(file) - 1, durable' = n,
                 \/ file' = SubSeq(file, 1, n)
                 \/ file' = Append(SubSeq(file, 1, n), Scrap)
          PROVE  Stays
      <3>1. n \in Nat /\ SubSeq(file, 1, n) \in Seq(Line) /\ Len(SubSeq(file, 1, n)) = n
        BY <1>1
      <3>2. \A i \in 1 .. n : SubSeq(file, 1, n)[i] = file[i]
        BY <1>1
      <3>3. durable' <= Len(file') /\ \A i \in 1 .. n : file'[i] = file[i]
        BY <2>2, <3>1, <3>2
      <3> QED BY <1>1, <2>2, <3>1, <3>3 DEF Stays
    <2> QED BY <1>8, <2>1, <2>2 DEF PowerLoss
  <1>9. CASE UNCHANGED vars
    BY <1>2, <1>9 DEF vars
  <1> QED BY <1>3, <1>4, <1>5, <1>6, <1>7, <1>8, <1>9 DEF Next

(* The durable part of the file is only ever added to. *)
THEOREM DurableStays == Spec => DurableLinesStay
  <1>1. TypeOK /\ AckInv /\ [Next]_vars => [Stays]_vars
    BY NextStays
  <1> QED BY <1>1, AckInvariance, PTL DEF Spec, DurableLinesStay, Stays

-----------------------------------------------------------------------------
(* Processes that follow each other *)

LEMMA InitChain ==
  ASSUME Init
  PROVE  ChainInv
  <1>1. \A p \in Objects : head[p] = Closed /\ lock[p] = Nobody
    BY DEF Init
  <1>2. Verifies
    BY DEF Init, Verifies
  <1>3. ~ torn /\ \A t \in Threads : pc[t] = "idle"
    BY DEF Init
  <1> QED BY <1>1, <1>2, <1>3 DEF ChainInv

LEMMA AddedLast ==
  ASSUME TypeOK, Verifies, ~ torn, NEW line \in Line, line # Scrap,
         line.previous = LastHash, file' = Added(line)
  PROVE  Verifies' /\ LastHash' = line.hash
  <1>1. file' = Append(file, line) /\ file \in Seq(Line)
    BY DEF Added, TypeOK
  <1>2. Len(file') = Len(file) + 1 /\ file'[Len(file')] = line
        /\ \A i \in 1 .. Len(file) : file'[i] = file[i]
    BY <1>1
  <1>3. LastHash' = line.hash
    BY <1>1, <1>2 DEF LastHash
  <1>4. ASSUME NEW i \in 1 .. Len(file')
        PROVE  /\ file'[i] # Scrap
               /\ file'[i].previous = IF i = 1 THEN Genesis ELSE file'[i - 1].hash
    <2>1. CASE i = Len(file')
      <3>1. CASE file = <<>>
        BY <1>1, <1>2, <2>1, <3>1 DEF LastHash
      <3>2. CASE file # <<>>
        <4>1. Len(file) \in 1 .. Len(file) /\ i - 1 = Len(file) /\ i # 1
          BY <1>1, <1>2, <2>1, <3>2
        <4> QED BY <1>2, <2>1, <3>2, <4>1 DEF LastHash
      <3> QED BY <3>1, <3>2
    <2>2. CASE i # Len(file')
      <3>1. i \in 1 .. Len(file) /\ (i # 1 => i - 1 \in 1 .. Len(file))
        BY <1>1, <1>2, <2>2
      <3> QED BY <1>2, <3>1 DEF Verifies
    <2> QED BY <2>1, <2>2
  <1> QED BY <1>3, <1>4 DEF Verifies

(* At most one thread is inside append. *)
LEMMA OneInside ==
  ASSUME TypeOK, AckInv, ChainInv, NEW t \in Threads, pc[t] # "idle",
         NEW u \in Threads, u # t
  PROVE  pc[u] = "idle"
  <1> SUFFICES ASSUME pc[u] # "idle" PROVE FALSE
    OBVIOUS
  <1>1. head[Home[t]] # Closed /\ head[Home[u]] # Closed
    BY DEF AckInv
  <1>2. Home[t] = Home[u]
    BY <1>1, HomeAssumption DEF ChainInv
  <1> QED BY <1>2 DEF ChainInv

(* While an object is open, every other one is closed and unlocked. *)
LEMMA OthersClosed ==
  ASSUME TypeOK, AckInv, ChainInv, NEW p \in Objects, head[p] # Closed,
         NEW q \in Objects, q # p
  PROVE  head[q] = Closed /\ lock[q] = Nobody
  <1>1. head[q] = Closed
    BY DEF ChainInv
  <1>2. ASSUME lock[q] # Nobody
        PROVE  FALSE
    <2>1. lock[q] \in Threads
      BY <1>2 DEF TypeOK
    <2>2. pc[lock[q]] # "idle" /\ Home[lock[q]] = q
      BY <1>2 DEF ChainInv
    <2>3. head[q] # Closed
      BY <2>1, <2>2 DEF AckInv
    <2> QED BY <1>1, <2>3
  <1> QED BY <1>1, <1>2

(* The invariant of a file whose objects are all closed. *)
LEMMA AllClosed ==
  ASSUME Verifies, ~ torn, \A p \in Objects : head[p] = Closed /\ lock[p] = Nobody,
         \A t \in Threads : pc[t] = "idle"
  PROVE  ChainInv
  BY DEF ChainInv

LEMMA ChainOpen ==
  ASSUME TypeOK, AckInv, ChainInv, NEW p \in Objects, Open(p), Alone(p)
  PROVE  ChainInv'
  <1>1. /\ head[p] = Closed /\ head' = [head EXCEPT ![p] = LastHash]
        /\ UNCHANGED <<file, torn, durable, lock, pc, hash, issued, acked>>
    BY DEF Open
  <1>2. \A q \in Objects : head[q] = Closed
    BY <1>1 DEF Alone
  <1>3. \A t \in Threads : pc[t] = "idle"
    BY <1>2, HomeAssumption DEF AckInv
  <1>4. \A q \in Objects : lock[q] = Nobody
    BY <1>3 DEF ChainInv, TypeOK
  <1>5. \A q \in Objects : head'[q] # Closed => q = p
    BY <1>1, <1>2 DEF TypeOK
  <1>6. head'[p] = LastHash
    BY <1>1 DEF TypeOK
  <1>7. LastHash' = LastHash /\ Verifies'
    BY <1>1 DEF LastHash, ChainInv, Verifies
  <1> QED BY <1>1, <1>3, <1>4, <1>5, <1>6, <1>7 DEF ChainInv

LEMMA ChainEnter ==
  ASSUME TypeOK, AckInv, ChainInv, NEW t \in Threads, Enter(t)
  PROVE  ChainInv'
  <1> DEFINE p == Home[t]
  <1>1. /\ pc[t] = "idle" /\ head[p] # Closed /\ lock[p] = Nobody
        /\ lock' = [lock EXCEPT ![p] = t]
        /\ pc' = [pc EXCEPT ![t] = "writing"]
        /\ UNCHANGED <<file, torn, durable, head, acked>>
    BY DEF Enter
  <1>2. p \in Objects
    BY HomeAssumption
  <1>3. \A q \in Objects : q # p => head[q] = Closed /\ lock[q] = Nobody
    BY <1>1, <1>2, OthersClosed
  <1>4. \A u \in Threads : pc[u] = "idle"
    BY <1>1, <1>3, HomeAssumption, NobodyAssumption DEF ChainInv, AckInv
  <1>5. /\ \A u \in Threads : pc'[u] # "idle" => u = t
        /\ pc'[t] = "writing" /\ lock'[p] = t
        /\ \A q \in Objects : lock'[q] # Nobody => q = p
    BY <1>1, <1>2, <1>3, <1>4 DEF TypeOK
  <1>6. /\ head'[p] = LastHash' /\ Verifies' /\ ~ torn'
        /\ \A q \in Objects : head'[q] # Closed => q = p
    BY <1>1, <1>2, <1>3 DEF ChainInv, LastHash, Verifies
  <1> QED BY <1>5, <1>6, NobodyAssumption DEF ChainInv

LEMMA ChainWrite ==
  ASSUME TypeOK, AckInv, ChainInv, NEW t \in Threads, Write(t)
  PROVE  ChainInv'
  <1>1. /\ pc[t] = "writing" /\ file' = Added(Record(t)) /\ torn' = FALSE
        /\ pc' = [pc EXCEPT ![t] = "syncing"]
        /\ UNCHANGED <<durable, head, lock, hash, issued, acked>>
    BY DEF Write
  <1>2. /\ Record(t) \in Line /\ Record(t).hash = hash[t]
        /\ Record(t).previous = LastHash /\ hash[t] \in Hashes
    BY <1>1, RecordType DEF ChainInv, Record, AckInv
  <1>3. Record(t) # Scrap
    BY <1>2, MaxAppendsAssumption DEF Scrap, Hashes
  <1>4. Verifies' /\ LastHash' = hash[t]
    BY <1>1, <1>2, <1>3, AddedLast DEF ChainInv
  <1>5. /\ \A u \in Threads : u # t => pc'[u] = "idle"
        /\ pc'[t] = "syncing"
    BY <1>1, OneInside DEF TypeOK
  <1>6. /\ lock[Home[t]] = t /\ Home[t] \in Objects /\ head[Home[t]] # Closed
        /\ \A q \in Objects : q # Home[t] => head[q] = Closed /\ lock[q] = Nobody
    BY <1>1, HomeAssumption, OthersClosed DEF ChainInv, AckInv
  <1> QED BY <1>1, <1>4, <1>5, <1>6, NobodyAssumption DEF ChainInv

LEMMA ChainSync ==
  ASSUME TypeOK, AckInv, ChainInv, NEW t \in Threads, Sync(t)
  PROVE  ChainInv'
  <1>1. /\ pc[t] = "syncing" /\ pc' = [pc EXCEPT ![t] = "leaving"]
        /\ UNCHANGED <<file, torn, head, lock, hash, issued, acked>>
    BY DEF Sync
  <1>2. /\ \A u \in Threads : u # t => pc'[u] = pc[u]
        /\ pc'[t] = "leaving"
    BY <1>1 DEF TypeOK
  <1>3. LastHash' = LastHash /\ Verifies'
    BY <1>1 DEF LastHash, ChainInv, Verifies
  <1>4. \A p \in Objects : lock[p] # Nobody => lock[p] \in Threads
    BY DEF TypeOK
  <1> QED BY <1>1, <1>2, <1>3, <1>4 DEF ChainInv

LEMMA ChainLeave ==
  ASSUME TypeOK, AckInv, ChainInv, NEW t \in Threads, Leave(t)
  PROVE  ChainInv'
  <1> DEFINE p == Home[t]
  <1>1. /\ pc[t] = "leaving"
        /\ head' = [head EXCEPT ![p] = hash[t]]
        /\ lock' = [lock EXCEPT ![p] = Nobody]
        /\ pc' = [pc EXCEPT ![t] = "idle"]
        /\ UNCHANGED <<file, torn, durable, hash, issued>>
    BY DEF Leave
  <1>2. p \in Objects /\ head[p] # Closed
    BY <1>1, HomeAssumption DEF AckInv
  <1>3. \A u \in Threads : pc'[u] = "idle"
    BY <1>1, OneInside DEF TypeOK
  <1>4. /\ head'[p] = hash[t] /\ lock'[p] = Nobody
        /\ \A q \in Objects : q # p => head'[q] = Closed /\ lock'[q] = Nobody
    BY <1>1, <1>2, OthersClosed DEF TypeOK
  <1>5. hash[t] = LastHash /\ LastHash' = LastHash /\ Verifies' /\ ~ torn'
    BY <1>1 DEF LastHash, ChainInv, Verifies
  <1> QED BY <1>3, <1>4, <1>5 DEF ChainInv

LEMMA ChainExit ==
  ASSUME TypeOK, AckInv, ChainInv, NEW p \in Objects, Exit(p)
  PROVE  ChainInv'
  <1>1. /\ head[p] # Closed
        /\ head' = [head EXCEPT ![p] = Closed]
        /\ lock' = [lock EXCEPT ![p] = Nobody]
        /\ pc' = [t \in Threads |-> IF Home[t] = p THEN "idle" ELSE pc[t]]
        /\ UNCHANGED <<file, torn, durable, hash, issued, acked>>
    BY DEF Exit
  <1>2. \A q \in Objects : head'[q] = Closed /\ lock'[q] = Nobody
    BY <1>1, OthersClosed DEF TypeOK
  <1>3. \A t \in Threads : pc'[t] = "idle"
    BY <1>1, OthersClosed, HomeAssumption DEF AckInv
  <1>4. Verifies' /\ ~ torn'
    BY <1>1 DEF ChainInv, Verifies
  <1> QED BY <1>2, <1>3, <1>4 DEF ChainInv

(* A power loss between two lines leaves a prefix of the chain. *)
LEMMA ChainPowerLoss ==
  ASSUME TypeOK, AckInv, ChainInv, PowerLoss, ~ torn'
  PROVE  ChainInv'
  <1>1. /\ head' = [p \in Objects |-> Closed]
        /\ lock' = [p \in Objects |-> Nobody]
        /\ pc' = [t \in Threads |-> "idle"]
    BY DEF PowerLoss
  <1>2. Verifies'
    <2>1. CASE UNCHANGED file
      BY <2>1 DEF ChainInv, Verifies
    <2>2. ASSUME NEW n \in durable .. Len(file) - 1, file' = SubSeq(file, 1, n)
          PROVE  Verifies'
      <3>1. file \in Seq(Line) /\ durable \in Nat /\ n \in Nat /\ n <= Len(file)
        BY <2>2 DEF TypeOK
      <3>2. Len(file') = n /\ \A i \in 1 .. n : file'[i] = file[i]
        BY <2>2, <3>1
      <3>3. ASSUME NEW i \in 1 .. Len(file')
            PROVE  /\ file'[i] # Scrap
                   /\ file'[i].previous = IF i = 1 THEN Genesis ELSE file'[i - 1].hash
        <4>1. i \in 1 .. Len(file) /\ (i # 1 => i - 1 \in 1 .. n) /\ i \in 1 .. n
          BY <3>1, <3>2
        <4> QED BY <3>2, <4>1 DEF ChainInv, Verifies
      <3> QED BY <3>3 DEF Verifies
    <2>3. UNCHANGED file \/ \E n \in durable .. Len(file) - 1 : file' = SubSeq(file, 1, n)
      BY Zenon DEF PowerLoss
    <2> QED BY <2>1, <2>2, <2>3
  <1> QED BY <1>1, <1>2 DEF ChainInv

LEMMA OrderlyKeeps == TypeOK /\ AckInv /\ OrderlyInv /\ [Next]_vars => OrderlyInv'
  <1> SUFFICES ASSUME TypeOK, AckInv, OrderlyInv, [Next]_vars, orderly'
               PROVE  ChainInv'
    BY DEF OrderlyInv
  <1>1. CASE UNCHANGED vars
    BY <1>1 DEF vars, OrderlyInv, ChainInv, Verifies, LastHash
  <1>2. ASSUME NEW p \in Objects, Open(p)
        PROVE  ChainInv'
    <2>1. orderly /\ Alone(p)
      BY <1>2, Zenon DEF Open
    <2> QED BY <1>2, <2>1, ChainOpen DEF OrderlyInv
  <1>3. ASSUME NEW p \in Objects, Exit(p)
        PROVE  ChainInv'
    BY <1>3, ChainExit DEF Exit, OrderlyInv
  <1>4. ASSUME NEW t \in Threads, Enter(t)
        PROVE  ChainInv'
    BY <1>4, ChainEnter DEF Enter, OrderlyInv
  <1>5. ASSUME NEW t \in Threads, Write(t)
        PROVE  ChainInv'
    BY <1>5, ChainWrite DEF Write, OrderlyInv
  <1>6. ASSUME NEW t \in Threads, Sync(t)
        PROVE  ChainInv'
    BY <1>6, ChainSync DEF Sync, OrderlyInv
  <1>7. ASSUME NEW t \in Threads, Leave(t)
        PROVE  ChainInv'
    BY <1>7, ChainLeave DEF Leave, OrderlyInv
  <1>8. ASSUME NEW t \in Threads, WriteFails(t) \/ SyncFails(t)
        PROVE  FALSE
    BY <1>8, Zenon DEF WriteFails, SyncFails, Raise
  <1>9. CASE PowerLoss
    <2>1. orderly /\ ~ torn'
      BY <1>9, Zenon DEF PowerLoss
    <2> QED BY <1>9, <2>1, ChainPowerLoss DEF OrderlyInv
  <1> QED BY <1>1, <1>2, <1>3, <1>4, <1>5, <1>6, <1>7, <1>8, <1>9 DEF Next

(* The audit file of a data directory in which processes work one after the *)
(* other verifies at every moment, however many threads each has, wherever  *)
(* it is killed and whatever lines a power loss takes, until an append      *)
(* raises or a line is torn.                                                *)
THEOREM OrderlyIsVerified == Spec => []OrderlyVerifies
  <1>1. Init => OrderlyInv
    BY InitChain DEF OrderlyInv
  <1>2. OrderlyInv => OrderlyVerifies
    BY DEF OrderlyInv, ChainInv, OrderlyVerifies
  <1> QED BY <1>1, <1>2, OrderlyKeeps, AckInvariance, PTL DEF Spec
=============================================================================
