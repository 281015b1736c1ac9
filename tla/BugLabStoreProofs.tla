-------------------------- MODULE BugLabStoreProofs --------------------------
(* That the Bug Lab's workspace loses no evidence, can always be opened again, *)
(* and implements the log of incidents, for any number of processes,           *)
(* incidents, notes, failures and deaths. The argument: the disk by itself is  *)
(* always well numbered and explained, and while a call is in progress the     *)
(* step it has reached says what the pending file, the unfinished line and the *)
(* record it writes have to do with one another. Of the acknowledged records   *)
(* only those of the incident in progress are not in the journal, and the      *)
(* pending file of a healthy writer is the last one that was acknowledged.     *)
EXTENDS BugLabStore, TLAPS

(* Who may write, and which steps its call consists of. *)
Control ==
    /\ owner = Nobody => op = "idle" /\ ~healthy
    /\ op = "idle" => at = "return" /\ rec = NoRecord
    /\ op # "idle" => healthy /\ (tmp <=> at \in {"mark", "swap", "install"})
    /\ op = "idle" /\ healthy => ~tmp
    /\ op = "create" => at \in {"tmp", "mark", "return"}
    /\ op = "write" => at \in {"tmp", "install", "return"}
    /\ op = "checkpoint" => at \in {"tmp", "swap", "return"}
    /\ op \in {"complete", "open"} => at \notin {"mark", "install"}
    /\ op = "complete" => at # "cut"
    /\ op \in {"create", "write"} => rec = NoRecord
    /\ op \in {"checkpoint", "complete"} => rec \in Record

(* The marker is written before anything else, and last in the creation. *)
Marked ==
    /\ made = "nothing" => ~tmp /\ owner = Nobody
    /\ made # "owned" => journal = <<>> /\ tail = NoRecord /\ pending = NoRecord
    /\ healthy => made = "owned" \/ (op = "create" /\ at # "return")

(* What the disk says at any time, to whoever may open it next. *)
Consistent == WellNumbered /\ Explained

(* A writer that may begin a call, or has not yet changed the pending file in  *)
(* it, has acknowledged what that file holds and counts with it.               *)
Fresh ==
    IF pending = NoRecord THEN seq = Len(journal)
    ELSE /\ pending.st = "open" /\ pending.seq = NextSeq /\ seq = NextSeq
         /\ pending = acked[NextSeq]

Current ==
    /\ op # "idle" => tail = IF at \in {"cut", "finish"} THEN rec ELSE NoRecord
    /\ op = "idle" /\ healthy => tail = NoRecord
    /\ \/ op \in {"idle", "create", "write"}
       \/ op \in {"checkpoint", "complete"} /\ at \in {"tmp", "swap"}
       => (healthy => Fresh)

(* What a checkpoint writes, ... *)
Noting ==
    op = "checkpoint" =>
        /\ rec.st = "open" /\ rec.seq = NextSeq
        /\ at = "return" => pending = rec /\ seq <= NextSeq
        /\ at # "return" => rec.note = acked[NextSeq].note + 1

(* ... a completion, ... *)
Completing ==
    op = "complete" =>
        /\ rec.st = "closed"
        /\ at \in {"tmp", "swap"} => rec.seq = NextSeq /\ rec.note = acked[NextSeq].note
        /\ at \in {"start", "finish"} => rec.seq = NextSeq /\ pending = rec
        /\ at = "unlink" => Len(journal) > 0 /\ journal[Len(journal)] = rec /\ pending = rec
        /\ at = "return" => /\ rec.seq <= Len(journal) /\ journal[rec.seq] = rec
                            /\ pending = NoRecord

(* ... and a recovery. *)
Opening ==
    op = "open" =>
        /\ at \in {"tmp", "swap"} => /\ pending.st = "open" /\ pending.seq = NextSeq
                                     /\ rec = Interrupted(pending)
        /\ at \in {"cut", "start", "finish"} =>
               Terminal(rec) /\ rec.seq = NextSeq /\ pending = rec
        /\ at = "unlink" => /\ Len(journal) > 0 /\ pending = journal[Len(journal)]
        /\ at = "return" => pending = NoRecord

(* Every acknowledged record is one of its incident. *)
Acknowledged ==
    /\ \A n \in 1 .. MaxIncidents : acked[n] # NoRecord => acked[n].seq = n
    /\ NothingLost

IInv ==
    /\ TypeOK /\ Control /\ Marked /\ Consistent /\ Current
    /\ Noting /\ Completing /\ Opening /\ Acknowledged

-----------------------------------------------------------------------------
(* Records and the journal. *)

LEMMA RecordFacts ==
    ASSUME NEW r \in Record
    PROVE  /\ r.seq \in 1 .. MaxIncidents /\ r.note \in 0 .. MaxNotes
           /\ r.st \in {"open", "closed", "interrupted"} /\ r # NoRecord
           /\ Interrupted(r) \in Record
           /\ Interrupted(r).seq = r.seq /\ Interrupted(r).note = r.note
           /\ Interrupted(r).st = "interrupted"
BY DEF Record, NoRecord, Interrupted

LEMMA NoRecordFacts ==
    /\ NoRecord.seq = 0 /\ NoRecord.note = 0 /\ NoRecord.st = "none"
    /\ NoRecord \notin Record /\ ~Terminal(NoRecord)
BY DEF Record, NoRecord, Terminal

(* The numbered lines of the journal are lines of different incidents. *)
LEMMA JournalFacts ==
    ASSUME TypeOK, WellNumbered
    PROVE  /\ Len(journal) \in Nat /\ NextSeq \in Nat /\ NextSeq = Len(journal) + 1
           /\ \A k \in 1 .. Len(journal) : /\ journal[k] \in Record /\ journal[k].seq = k
                                           /\ Terminal(journal[k])
           /\ Len(journal) \in 0 .. MaxIncidents
<1>1. Len(journal) \in Nat /\ NextSeq \in Nat /\ NextSeq = Len(journal) + 1
  BY DEF TypeOK, NextSeq
<1>2. \A k \in 1 .. Len(journal) : /\ journal[k] \in Record /\ journal[k].seq = k
                                   /\ Terminal(journal[k])
  BY DEF TypeOK, WellNumbered
<1>3. Len(journal) \in 0 .. MaxIncidents
  <2>1. CASE Len(journal) = 0
    BY <2>1, StoreAssumption DEF StoreAssumption
  <2>2. CASE Len(journal) > 0
    <3>1. journal[Len(journal)] \in Record /\ journal[Len(journal)].seq = Len(journal)
      BY <1>1, <1>2, <2>2
    <3>2. journal[Len(journal)].seq \in 1 .. MaxIncidents
      BY <3>1, RecordFacts
    <3> QED
      BY <3>1, <3>2, StoreAssumption DEF StoreAssumption
  <2> QED
    BY <1>1, <2>1, <2>2
<1> QED
  BY <1>1, <1>2, <1>3

LEMMA InitInv == Init => IInv
<1> SUFFICES ASSUME Init PROVE IInv
  OBVIOUS
<1>1. TypeOK
  <2>1. journal \in Seq(Record) /\ acked \in [1 .. MaxIncidents -> Record \cup {NoRecord}]
    BY DEF Init
  <2>2. /\ seq \in 0 .. MaxIncidents
        /\ budget \in [faults : 0 .. MaxFaults, crashes : 0 .. MaxCrashes]
    BY StoreAssumption DEF Init, StoreAssumption
  <2> QED
    BY <2>1, <2>2 DEF Init, TypeOK, Ops, Steps
<1>2. Consistent
  BY NoRecordFacts DEF Init, Consistent, WellNumbered, Explained, NextSeq
<1>3. Control /\ Marked /\ Current /\ Noting /\ Completing /\ Opening
  BY DEF Init, Control, Marked, Current, Fresh, Noting, Completing, Opening
<1>4. Acknowledged
  BY DEF Init, Acknowledged, NothingLost
<1> QED
  BY <1>1, <1>2, <1>3, <1>4 DEF IInv

-----------------------------------------------------------------------------
(* The steps that leave the journal, the pending file and the acknowledged     *)
(* records alone.                                                              *)

LEMMA Kept ==
    ASSUME IInv, UNCHANGED <<journal, tail, pending, acked>>
    PROVE  Consistent' /\ Acknowledged' /\ (seq' = seq => (Fresh' <=> Fresh))
<1>1. Consistent' /\ Acknowledged'
  BY DEF IInv, Consistent, WellNumbered, Explained, NextSeq, Acknowledged, NothingLost, Stored
<1> QED
  BY <1>1 DEF Fresh, NextSeq

LEMMA CreateInv ==
    ASSUME IInv, NEW p \in Procs, Create(p)
    PROVE  IInv'
<1>1. TypeOK'
  BY StoreAssumption DEF IInv, TypeOK, Create, Enters, StoreAssumption, Ops, Steps
<1>2. Consistent' /\ Acknowledged'
  BY Kept DEF Create
<1>3. Control'
  BY StoreAssumption DEF IInv, Control, Marked, Create, Enters, StoreAssumption
<1>4. Marked'
  BY StoreAssumption DEF IInv, Marked, Create, Enters, StoreAssumption
<1>5. Current' /\ Noting' /\ Completing' /\ Opening'
  BY DEF IInv, Marked, Current, Fresh, Noting, Completing, Opening, Create, Enters
<1> QED
  BY <1>1, <1>2, <1>3, <1>4, <1>5 DEF IInv

LEMMA OpenInv ==
    ASSUME IInv, NEW p \in Procs, Open(p)
    PROVE  IInv'
<1>1. /\ owner = Nobody /\ op = "idle" /\ made = "owned" /\ ~tmp
      /\ pending = NoRecord => tail = NoRecord
      /\ pending # NoRecord => pending \in Record
  BY NoRecordFacts DEF IInv, Control, TypeOK, Open, Readable, Explained
<1>2. /\ owner' = p /\ owner' # Nobody /\ healthy' /\ op' = "open" /\ seq' = 0
      /\ UNCHANGED <<made, tmp, journal, tail, pending, acked, budget>>
  BY StoreAssumption DEF Open, Enters, disk, StoreAssumption
<1>3. TypeOK'
  <2>1. rec' \in Record \cup {NoRecord}
    BY <1>1, RecordFacts DEF Open, Enters
  <2>2. at' \in Steps
    BY DEF Open, Enters, Steps
  <2> QED
    BY <1>2, <2>1, <2>2, StoreAssumption DEF IInv, TypeOK, StoreAssumption, Ops
<1>4. Consistent' /\ Acknowledged'
  BY <1>2, Kept
<1>5. Control' /\ Marked'
  BY <1>1, <1>2 DEF Control, Marked, IInv, Open, Enters
<1>6. Opening' /\ (tail' = IF at' \in {"cut", "finish"} THEN rec' ELSE NoRecord)
  <2>1. CASE pending = NoRecord
    BY <1>1, <1>2, <2>1 DEF Opening, Open, Enters
  <2>2. CASE pending # NoRecord /\ tail # NoRecord
    BY <1>1, <1>2, <2>2 DEF Opening, Open, Enters, IInv, Consistent, Explained, NextSeq, Terminal
  <2>3. CASE pending # NoRecord /\ tail = NoRecord /\ pending.seq # NextSeq
    BY <1>1, <1>2, <2>3 DEF Opening, Open, Enters, IInv, Consistent, Explained, NextSeq
  <2>4. CASE pending # NoRecord /\ tail = NoRecord /\ pending.seq = NextSeq /\ Terminal(pending)
    BY <1>1, <1>2, <2>4 DEF Opening, Open, Enters, NextSeq, Terminal
  <2>5. CASE pending # NoRecord /\ tail = NoRecord /\ pending.seq = NextSeq /\ ~Terminal(pending)
    <3>1. pending.st = "open"
      BY <1>1, <2>5, RecordFacts DEF Terminal
    <3> QED
      BY <1>1, <1>2, <2>5, <3>1 DEF Opening, Open, Enters, NextSeq, Interrupted
  <2> QED
    BY <2>1, <2>2, <2>3, <2>4, <2>5
<1>7. Current' /\ Noting' /\ Completing'
  BY <1>2, <1>6 DEF Current, Noting, Completing
<1> QED
  BY <1>3, <1>4, <1>5, <1>6, <1>7 DEF IInv

LEMMA WriteInv ==
    ASSUME IInv, NEW p \in Procs, Write(p)
    PROVE  IInv'
<1>1. /\ owner = p /\ op = "idle" /\ healthy /\ op' = "write" /\ at' = "tmp" /\ rec' = NoRecord
      /\ UNCHANGED <<made, tmp, journal, tail, pending, owner, healthy, seq, acked, budget>>
  BY DEF Write, Calls, Proceeds, Enters, disk
<1>2. TypeOK'
  BY <1>1 DEF IInv, TypeOK, Ops, Steps
<1>3. Consistent' /\ Acknowledged'
  BY <1>1, Kept
<1>4. Control' /\ Marked'
  BY <1>1, StoreAssumption DEF IInv, Control, Marked, StoreAssumption
<1>5. Current'
  BY <1>1, Kept DEF IInv, Current, Fresh
<1>6. Noting' /\ Completing' /\ Opening'
  BY <1>1 DEF Noting, Completing, Opening
<1> QED
  BY <1>2, <1>3, <1>4, <1>5, <1>6 DEF IInv

(* A writer that may begin a call: the number of the incident in progress. *)
LEMMA FreshFacts ==
    ASSUME IInv, op = "idle", healthy
    PROVE  /\ made = "owned" /\ ~tmp /\ tail = NoRecord /\ Fresh
           /\ pending # NoRecord => pending \in Record /\ pending.seq = NextSeq
           /\ pending = NoRecord => seq = Len(journal)
           /\ \A n \in 1 .. MaxIncidents :
                  n = NextSeq => /\ acked[n] = pending
                                 /\ acked[n].note \in 0 .. MaxNotes
                                 /\ acked[n].st # "closed"
<1>1. made = "owned" /\ ~tmp /\ tail = NoRecord /\ Fresh
  BY DEF IInv, Control, Marked, Current
<1>2. /\ pending # NoRecord => pending \in Record /\ pending.seq = NextSeq
      /\ pending = NoRecord => seq = Len(journal)
  BY <1>1 DEF Fresh, IInv, TypeOK
<1>3. ASSUME NEW n \in 1 .. MaxIncidents, n = NextSeq
      PROVE  /\ acked[n] = pending /\ acked[n].note \in 0 .. MaxNotes
             /\ acked[n].st # "closed"
  <2>1. acked[n] = pending
    <3>1. CASE pending = NoRecord
      <4>1. Stored(n) = NoRecord
        BY <1>3, <3>1, JournalFacts DEF Stored, IInv, Consistent
      <4>2. acked[n] # NoRecord => Stored(n).seq = n
        BY DEF IInv, Acknowledged, NothingLost
      <4> QED
        BY <3>1, <4>1, <4>2, NoRecordFacts
    <3>2. CASE pending # NoRecord
      BY <1>1, <1>3, <3>2 DEF Fresh
    <3> QED
      BY <3>1, <3>2
  <2>2. CASE pending = NoRecord
    BY <2>1, <2>2, NoRecordFacts, StoreAssumption DEF StoreAssumption
  <2>3. CASE pending # NoRecord
    BY <1>1, <1>2, <2>1, <2>3, RecordFacts DEF Fresh
  <2> QED
    BY <2>1, <2>2, <2>3
<1> QED
  BY <1>1, <1>2, <1>3

(* A call that writes nothing any more. *)
LEMMA CondemnsInv ==
    ASSUME IInv, op = "idle", Condemns,
           UNCHANGED <<disk, owner, seq, acked, budget>>
    PROVE  IInv'
<1>1. /\ ~healthy' /\ op' = "idle"
      /\ UNCHANGED <<made, tmp, journal, tail, pending, owner, seq, op, at, rec, acked, budget>>
  BY DEF Condemns, disk
<1>2. Consistent' /\ Acknowledged'
  BY <1>1, Kept
<1>3. TypeOK' /\ Control' /\ Marked'
  BY <1>1 DEF Condemns, IInv, TypeOK, Control, Marked
<1>4. Current' /\ Noting' /\ Completing' /\ Opening'
  BY <1>1 DEF Current, Noting, Completing, Opening
<1> QED
  BY <1>2, <1>3, <1>4 DEF IInv

LEMMA CheckpointInv ==
    ASSUME IInv, NEW p \in Procs, NEW n \in 1 .. MaxIncidents, Checkpoint(p, n)
    PROVE  IInv'
<1> DEFINE r == [seq |-> n, note |-> acked[n].note + 1, st |-> "open"]
<1>1. /\ owner = p /\ op = "idle" /\ healthy /\ acked[n].note < MaxNotes
      /\ pending = NoRecord => n = seq + 1
      /\ UNCHANGED <<disk, owner, seq, acked, budget>>
  BY DEF Checkpoint, Calls
<1>2. CASE pending # NoRecord /\ pending.seq # n
  BY <1>1, <1>2, CondemnsInv DEF Checkpoint
<1>3. CASE ~(pending # NoRecord /\ pending.seq # n)
  <2>1. /\ op' = "checkpoint" /\ at' = "tmp" /\ rec' = r /\ UNCHANGED healthy
        /\ UNCHANGED <<made, tmp, journal, tail, pending, owner, seq, acked, budget>>
    BY <1>1, <1>3 DEF Checkpoint, Proceeds, Enters, disk
  <2>2. /\ made = "owned" /\ ~tmp /\ tail = NoRecord /\ Fresh /\ n = NextSeq
        /\ acked[n].note \in 0 .. MaxNotes
    BY <1>1, <1>3, FreshFacts DEF NextSeq
  <2>3. r.seq = n /\ r.note = acked[n].note + 1 /\ r.st = "open" /\ r \in Record
    BY <1>1, <2>2, StoreAssumption DEF Record, StoreAssumption
  <2> HIDE DEF r
  <2>4. TypeOK'
    BY <2>1, <2>3 DEF IInv, TypeOK, Ops, Steps
  <2>5. Consistent' /\ Acknowledged' /\ (Fresh' <=> Fresh)
    BY <2>1, Kept
  <2>6. Control' /\ Marked'
    BY <1>1, <2>1, <2>2, <2>3, StoreAssumption DEF IInv, Control, Marked, StoreAssumption
  <2>7. Current'
    BY <1>1, <2>1, <2>2, <2>5 DEF Current
  <2>8. Noting' /\ Completing' /\ Opening'
    BY <2>1, <2>2, <2>3 DEF Noting, Completing, Opening, NextSeq
  <2> QED
    BY <2>4, <2>5, <2>6, <2>7, <2>8 DEF IInv
<1> QED
  BY <1>2, <1>3

LEMMA CompleteInv ==
    ASSUME IInv, NEW p \in Procs, NEW n \in 1 .. MaxIncidents, Complete(p, n)
    PROVE  IInv'
<1> DEFINE r == [seq |-> n, note |-> acked[n].note, st |-> "closed"]
<1>1. /\ owner = p /\ op = "idle" /\ healthy
      /\ UNCHANGED <<disk, owner, seq, acked, budget>>
  BY DEF Complete, Calls
<1>2. CASE Condemns
  BY <1>1, <1>2, CondemnsInv
<1>3. CASE ~Condemns
  <2>1. /\ made = "owned" /\ ~tmp /\ tail = NoRecord /\ Fresh
        /\ pending # NoRecord => pending \in Record /\ pending.seq = NextSeq
    BY <1>1, FreshFacts
  <2>2. /\ r.seq = n /\ r.note = acked[n].note /\ r.st = "closed" /\ r \in Record
    <3>1. acked[n].note \in 0 .. MaxNotes
      BY RecordFacts, NoRecordFacts, StoreAssumption DEF IInv, TypeOK, StoreAssumption
    <3> QED
      BY <3>1 DEF Record
  <2>3. \/ /\ n <= Len(journal) /\ journal[n] = r /\ pending \in {NoRecord, r}
           /\ Proceeds("complete", IF pending = r THEN "unlink" ELSE "return", r)
        \/ /\ n > Len(journal) /\ n = NextSeq
           /\ Proceeds("complete", "tmp", r)
    <3>1. CASE n <= Len(journal)
      BY <1>3, <3>1 DEF Complete
    <3>2. CASE ~(n <= Len(journal))
      BY <1>3, <3>2, JournalFacts DEF Complete, IInv, Consistent
    <3> QED
      BY <3>1, <3>2
  <2> HIDE DEF r
  <2>4. /\ op' = "complete" /\ rec' = r /\ UNCHANGED healthy
        /\ UNCHANGED <<made, tmp, journal, tail, pending, owner, seq, acked, budget>>
    BY <1>1, <2>3 DEF Proceeds, Enters, disk
  <2>5. pending # r
    BY <2>1, <2>2 DEF Fresh, NoRecord
  <2>6. \/ /\ at' = "return" /\ n <= Len(journal) /\ journal[n] = r /\ pending = NoRecord
        \/ at' = "tmp" /\ n = NextSeq
    BY <2>3, <2>5 DEF Proceeds, Enters
  <2>7. TypeOK'
    BY <2>2, <2>4, <2>6 DEF IInv, TypeOK, Ops, Steps
  <2>8. Consistent' /\ Acknowledged' /\ (Fresh' <=> Fresh)
    BY <2>4, Kept
  <2>9. Control' /\ Marked'
    BY <1>1, <2>1, <2>2, <2>4, <2>6, StoreAssumption DEF IInv, Control, Marked, StoreAssumption
  <2>10. Current'
    BY <1>1, <2>1, <2>4, <2>6, <2>8 DEF Current
  <2>11. Noting' /\ Completing' /\ Opening'
    BY <2>2, <2>4, <2>6 DEF Noting, Completing, Opening, NextSeq
  <2> QED
    BY <2>7, <2>8, <2>9, <2>10, <2>11 DEF IInv
<1> QED
  BY <1>2, <1>3

(* Failures leave the disk as it is. *)
LEMMA BudgetFacts ==
    ASSUME TypeOK
    PROVE  /\ budget.faults > 0 => [budget EXCEPT !.faults = @ - 1] \in
                                       [faults : 0 .. MaxFaults, crashes : 0 .. MaxCrashes]
           /\ budget.crashes > 0 => [budget EXCEPT !.crashes = @ - 1] \in
                                       [faults : 0 .. MaxFaults, crashes : 0 .. MaxCrashes]
<1>1. PICK f \in 0 .. MaxFaults, c \in 0 .. MaxCrashes : budget = [faults |-> f, crashes |-> c]
  BY DEF TypeOK
<1>2. /\ budget.faults = f /\ budget.crashes = c
      /\ [budget EXCEPT !.faults = @ - 1] = [faults |-> f - 1, crashes |-> c]
      /\ [budget EXCEPT !.crashes = @ - 1] = [faults |-> f, crashes |-> c - 1]
  BY <1>1
<1>3. /\ f > 0 => f - 1 \in 0 .. MaxFaults
      /\ c > 0 => c - 1 \in 0 .. MaxCrashes
  BY StoreAssumption DEF StoreAssumption
<1> QED
  BY <1>2, <1>3

LEMMA FaultInv ==
    ASSUME IInv, NEW p \in Procs, Fault(p)
    PROVE  IInv'
<1>1. /\ ~healthy' /\ op' = "idle" /\ at' = "return" /\ rec' = NoRecord
      /\ owner' \in {Nobody, owner} /\ owner \in Procs
      /\ UNCHANGED <<made, tmp, journal, tail, pending, seq, acked>>
  BY DEF Fault, disk
<1>2. budget' \in [faults : 0 .. MaxFaults, crashes : 0 .. MaxCrashes]
  BY BudgetFacts DEF Fault, IInv
<1>3. TypeOK'
  BY <1>1, <1>2, Zenon DEF Fault, IInv, TypeOK, Ops, Steps
<1>4. Consistent' /\ Acknowledged'
  BY <1>1, Kept
<1>5. Control' /\ Marked'
  BY <1>1, StoreAssumption DEF IInv, Control, Marked, StoreAssumption
<1>6. Current' /\ Noting' /\ Completing' /\ Opening'
  BY <1>1 DEF Current, Noting, Completing, Opening
<1> QED
  BY <1>3, <1>4, <1>5, <1>6 DEF IInv

LEMMA LeavesInv ==
    ASSUME IInv, NEW p \in Procs, owner = p, Close(p) \/ Crash(p)
    PROVE  IInv'
<1>1. /\ owner' = Nobody /\ ~healthy' /\ seq' = 0
      /\ op' = "idle" /\ at' = "return" /\ rec' = NoRecord
      /\ UNCHANGED <<made, tmp, journal, tail, pending, acked>>
  BY DEF Close, Crash, Leaves, disk
<1>2. healthy' = FALSE
  BY DEF Close, Crash, Leaves
<1>3. budget' \in [faults : 0 .. MaxFaults, crashes : 0 .. MaxCrashes]
  BY BudgetFacts DEF Close, Crash, IInv, TypeOK
<1>4. TypeOK'
  <2>1. seq' \in 0 .. MaxIncidents
    BY <1>1, StoreAssumption DEF StoreAssumption
  <2> QED
    BY <1>1, <1>2, <1>3, <2>1, Zenon DEF IInv, TypeOK, Ops, Steps
<1>5. Consistent' /\ Acknowledged'
  BY <1>1, Kept
<1>6. Control' /\ Marked'
  BY <1>1, StoreAssumption DEF IInv, Control, Marked, StoreAssumption
<1>7. Current' /\ Noting' /\ Completing' /\ Opening'
  BY <1>1 DEF Current, Noting, Completing, Opening
<1> QED
  BY <1>4, <1>5, <1>6, <1>7 DEF IInv

-----------------------------------------------------------------------------
(* The steps of a call on the disk. *)

(* What a call in progress may rely on. *)
LEMMA CallFacts ==
    ASSUME IInv, op # "idle"
    PROVE  /\ healthy /\ op \in {"create", "open", "checkpoint", "complete", "write"}
           /\ Len(journal) \in Nat /\ NextSeq = Len(journal) + 1
           /\ tail = (IF at \in {"cut", "finish"} THEN rec ELSE NoRecord)
           /\ made = "owned" \/ op = "create"
BY JournalFacts DEF IInv, Control, Current, TypeOK, Ops, Consistent, Marked

LEMMA WriteTmpInv ==
    ASSUME IInv, NEW p \in Procs, WriteTmp(p)
    PROVE  IInv'
<1>1. /\ op # "idle" /\ at = "tmp" /\ ~tmp /\ tmp' = TRUE
      /\ UNCHANGED <<made, journal, tail, pending, owner, healthy, seq, op, rec, acked, budget>>
  BY DEF WriteTmp, Takes
<1>2. /\ op = "create" => at' = "mark"
      /\ op = "write" => at' = "install"
      /\ op \in {"open", "checkpoint", "complete"} => at' = "swap"
  BY DEF WriteTmp, Takes
<1>3. TypeOK'
  BY <1>1, <1>2, CallFacts DEF IInv, TypeOK, Steps
<1>4. Consistent' /\ Acknowledged' /\ (Fresh' <=> Fresh)
  BY <1>1, Kept
<1>5. Control'
  BY <1>1, <1>2, CallFacts DEF IInv, Control
<1>6. Marked'
  BY <1>1, <1>2, CallFacts DEF IInv, Marked, Control
<1>7. Current'
  BY <1>1, <1>2, <1>4, CallFacts DEF IInv, Current
<1>8. Noting' /\ Completing' /\ Opening'
  BY <1>1, <1>2, CallFacts DEF IInv, Noting, Completing, Opening, NextSeq
<1> QED
  BY <1>3, <1>4, <1>5, <1>6, <1>7, <1>8 DEF IInv

LEMMA ReplaceMarkerInv ==
    ASSUME IInv, NEW p \in Procs, ReplaceMarker(p)
    PROVE  IInv'
<1>1. /\ op # "idle" /\ at = "mark" /\ tmp' = FALSE /\ made' = "owned" /\ at' = "return"
      /\ UNCHANGED <<journal, tail, pending, owner, healthy, seq, op, rec, acked, budget>>
  BY DEF ReplaceMarker, Takes
<1>2. op = "create"
  BY <1>1, CallFacts DEF IInv, Control
<1>3. TypeOK'
  BY <1>1 DEF IInv, TypeOK, Steps
<1>4. Consistent' /\ Acknowledged' /\ (Fresh' <=> Fresh)
  BY <1>1, Kept
<1>5. Control' /\ Marked'
  BY <1>1, <1>2, CallFacts DEF IInv, Control, Marked
<1>6. Current'
  BY <1>1, <1>2, <1>4, CallFacts DEF IInv, Current
<1>7. Noting' /\ Completing' /\ Opening'
  BY <1>1, <1>2 DEF Noting, Completing, Opening
<1> QED
  BY <1>3, <1>4, <1>5, <1>6, <1>7 DEF IInv

LEMMA ReplaceStoreFileInv ==
    ASSUME IInv, NEW p \in Procs, ReplaceStoreFile(p)
    PROVE  IInv'
<1>1. /\ op # "idle" /\ at = "install" /\ tmp' = FALSE /\ at' \in {"tmp", "return"}
      /\ UNCHANGED <<made, journal, tail, pending, owner, healthy, seq, op, rec, acked, budget>>
  BY DEF ReplaceStoreFile, Takes
<1>2. op = "write"
  BY <1>1, CallFacts DEF IInv, Control
<1>3. TypeOK'
  BY <1>1 DEF IInv, TypeOK, Steps
<1>4. Consistent' /\ Acknowledged' /\ (Fresh' <=> Fresh)
  BY <1>1, Kept
<1>5. Control' /\ Marked'
  BY <1>1, <1>2, CallFacts DEF IInv, Control, Marked
<1>6. Current'
  BY <1>1, <1>2, <1>4, CallFacts DEF IInv, Current
<1>7. Noting' /\ Completing' /\ Opening'
  BY <1>1, <1>2 DEF Noting, Completing, Opening
<1> QED
  BY <1>3, <1>4, <1>5, <1>6, <1>7 DEF IInv

(* What a snapshot replaces: nothing, or the incident it is a snapshot of,     *)
(* whose acknowledged record is not newer.                                     *)
LEMMA SwapFacts ==
    ASSUME IInv, op # "idle", at = "swap"
    PROVE  /\ op \in {"open", "checkpoint", "complete"} /\ rec \in Record
           /\ rec.seq = NextSeq /\ rec.seq \in 1 .. MaxIncidents /\ tail = NoRecord
           /\ pending # NoRecord =>
                  pending \in Record /\ pending.st = "open" /\ pending.seq = NextSeq
           /\ pending # NoRecord => rec.note >= pending.note
           /\ rec.note >= acked[rec.seq].note /\ acked[rec.seq].st # "closed"
           /\ op = "open" => pending # NoRecord /\ rec = Interrupted(pending)
           /\ op = "checkpoint" => rec.st = "open" /\ seq <= NextSeq
           /\ op = "complete" => rec.st = "closed"
<1>1. /\ op \in {"open", "checkpoint", "complete"} /\ tail = NoRecord
      /\ Len(journal) \in Nat /\ NextSeq = Len(journal) + 1 /\ healthy
  BY CallFacts DEF IInv, Control
<1>2. CASE op = "open"
  <2>1. pending.st = "open" /\ pending.seq = NextSeq /\ rec = Interrupted(pending)
    BY <1>2 DEF IInv, Opening
  <2>2. pending \in Record
    BY <2>1, NoRecordFacts DEF IInv, TypeOK
  <2>3. /\ rec \in Record /\ rec.seq = NextSeq /\ rec.note = pending.note
        /\ rec.seq \in 1 .. MaxIncidents /\ rec.note \in 0 .. MaxNotes /\ pending # NoRecord
    BY <2>1, <2>2, RecordFacts
  <2>4. Stored(rec.seq) = pending
    BY <1>1, <2>3 DEF Stored
  <2>5. rec.note >= acked[rec.seq].note /\ acked[rec.seq].st # "closed"
    <3>1. CASE acked[rec.seq] = NoRecord
      BY <2>3, <3>1, NoRecordFacts, StoreAssumption DEF StoreAssumption
    <3>2. CASE acked[rec.seq] # NoRecord
      BY <2>1, <2>3, <2>4, <3>2 DEF IInv, Acknowledged, NothingLost
    <3> QED
      BY <3>1, <3>2
  <2> QED
    BY <1>1, <1>2, <2>1, <2>2, <2>3, <2>5
<1>3. CASE op \in {"checkpoint", "complete"}
  <2>1. Fresh /\ rec \in Record
    BY <1>1, <1>3 DEF IInv, Current, Control
  <2>2. /\ op = "checkpoint" => rec.st = "open" /\ rec.note = acked[NextSeq].note + 1
        /\ op = "complete" => rec.st = "closed" /\ rec.note = acked[NextSeq].note
        /\ rec.seq = NextSeq
    BY <1>3 DEF IInv, Noting, Completing
  <2>3. rec.seq \in 1 .. MaxIncidents
    BY <2>1, RecordFacts
  <2>4. acked[rec.seq] = pending
    <3>1. CASE pending = NoRecord
      <4>1. Stored(rec.seq) = NoRecord
        BY <1>1, <2>2, <3>1 DEF Stored
      <4>2. acked[rec.seq] # NoRecord => Stored(rec.seq).seq = rec.seq
        BY <2>3 DEF IInv, Acknowledged, NothingLost
      <4> QED
        BY <2>3, <3>1, <4>1, <4>2, NoRecordFacts
    <3>2. CASE pending # NoRecord
      BY <2>1, <2>2, <3>2 DEF Fresh
    <3> QED
      BY <3>1, <3>2
  <2>5. pending.note \in Nat /\ rec.note >= pending.note
    <3>1. pending.note \in 0 .. MaxNotes
      BY RecordFacts, NoRecordFacts, StoreAssumption DEF IInv, TypeOK, StoreAssumption
    <3> QED
      BY <1>3, <2>2, <2>4, <3>1
  <2>6. CASE pending = NoRecord
    BY <1>1, <1>3, <2>1, <2>2, <2>3, <2>4, <2>5, <2>6, NoRecordFacts DEF Fresh
  <2>7. CASE pending # NoRecord
    <3>1. pending \in Record /\ pending.st = "open" /\ pending.seq = NextSeq /\ seq <= NextSeq
      BY <1>1, <2>1, <2>7 DEF Fresh, IInv, TypeOK
    <3> QED
      BY <1>1, <1>3, <2>1, <2>2, <2>3, <2>4, <2>5, <2>7, <3>1
  <2> QED
    BY <2>6, <2>7
<1> QED
  BY <1>1, <1>2, <1>3

LEMMA ReplacePendingInv ==
    ASSUME IInv, NEW p \in Procs, ReplacePending(p)
    PROVE  IInv'
<1>1. /\ op # "idle" /\ at = "swap" /\ tmp' = FALSE /\ pending' = rec
      /\ UNCHANGED <<made, journal, tail, owner, healthy, seq, op, rec, acked, budget>>
      /\ op = "checkpoint" => at' = "return"
      /\ op # "checkpoint" => at' = "start"
  BY DEF ReplacePending, Takes
<1>2. /\ op \in {"open", "checkpoint", "complete"} /\ rec \in Record /\ rec # NoRecord
      /\ rec.seq = NextSeq /\ rec.seq \in 1 .. MaxIncidents /\ tail = NoRecord
      /\ op = "checkpoint" => rec.st = "open" /\ seq <= NextSeq
      /\ op = "complete" => rec.st = "closed"
      /\ Len(journal) \in Nat /\ NextSeq = Len(journal) + 1
  BY <1>1, SwapFacts, CallFacts, RecordFacts
<1>3. op = "open" => Terminal(rec)
  BY <1>1, SwapFacts, RecordFacts DEF Terminal
<1>4. TypeOK'
  BY <1>1, <1>2 DEF IInv, TypeOK, Steps
<1>5. Consistent'
  BY <1>1, <1>2 DEF IInv, Consistent, WellNumbered, Explained, NextSeq
<1>6. Acknowledged'
  <2>1. \A n \in 1 .. MaxIncidents : acked'[n] # NoRecord => acked'[n].seq = n
    BY <1>1 DEF IInv, Acknowledged
  <2>2. ASSUME NEW n \in 1 .. MaxIncidents, acked[n] # NoRecord
        PROVE  /\ Stored(n)'.seq = n /\ Stored(n)'.note >= acked[n].note
               /\ acked[n].st = "closed" => Stored(n)' = acked[n]
    <3>1. /\ Stored(n).seq = n /\ Stored(n).note >= acked[n].note
          /\ acked[n].st = "closed" => Stored(n) = acked[n]
      BY <2>2 DEF IInv, Acknowledged, NothingLost
    <3>2. CASE n <= Len(journal)
      BY <1>1, <3>1, <3>2 DEF Stored
    <3>3. CASE n > Len(journal)
      <4>1. pending.seq = n
        BY <1>2, <3>1, <3>3 DEF Stored
      <4>2. pending # NoRecord /\ pending.seq = NextSeq
        BY <1>1, <4>1, SwapFacts, NoRecordFacts
      <4>3. n = rec.seq /\ Stored(n)' = rec
        BY <1>1, <1>2, <3>3, <4>1, <4>2 DEF Stored
      <4> QED
        BY <1>1, <1>2, <4>3, SwapFacts
    <3> QED
      BY <1>2, <3>2, <3>3
  <2> QED
    BY <1>1, <2>1, <2>2 DEF Acknowledged, NothingLost
<1>7. Control' /\ Marked'
  BY <1>1, <1>2, CallFacts DEF IInv, Control, Marked
<1>8. Current'
  BY <1>1, <1>2 DEF Current
<1>9. Noting' /\ Completing' /\ Opening'
  BY <1>1, <1>2, <1>3 DEF Noting, Completing, Opening, NextSeq, Terminal
<1> QED
  BY <1>4, <1>5, <1>6, <1>7, <1>8, <1>9 DEF IInv

(* The line is cut only to be written again, and written in at least two parts. *)
LEMMA TailInv ==
    ASSUME IInv, NEW p \in Procs, Truncate(p) \/ WritePart(p)
    PROVE  IInv'
<1>1. /\ op # "idle" /\ at \in {"cut", "start"}
      /\ at = "cut" => at' = "start" /\ tail' = NoRecord
      /\ at = "start" => at' = "finish" /\ tail' = rec
      /\ UNCHANGED <<made, tmp, journal, pending, owner, healthy, seq, op, rec, acked, budget>>
  BY DEF Truncate, WritePart, Takes
<1>2. /\ op \in {"open", "complete"} /\ rec \in Record /\ rec # NoRecord
      /\ Terminal(rec) /\ rec.seq = NextSeq /\ pending = rec
  <2>1. op \in {"open", "complete"}
    BY <1>1, CallFacts DEF IInv, Control
  <2>2. Terminal(rec) /\ rec.seq = NextSeq /\ pending = rec
    BY <1>1, <2>1 DEF IInv, Control, Completing, Opening, Terminal
  <2> QED
    BY <2>1, <2>2, NoRecordFacts DEF IInv, TypeOK
<1>3. TypeOK'
  BY <1>1, <1>2 DEF IInv, TypeOK, Steps
<1>4. Consistent'
  BY <1>1, <1>2 DEF IInv, Consistent, WellNumbered, Explained, NextSeq
<1>5. Acknowledged'
  BY <1>1 DEF IInv, Acknowledged, NothingLost, Stored
<1>6. Control' /\ Marked'
  BY <1>1, <1>2, CallFacts DEF IInv, Control, Marked
<1>7. Current'
  BY <1>1, <1>2 DEF Current
<1>8. Noting' /\ Completing' /\ Opening'
  BY <1>1, <1>2 DEF IInv, Noting, Completing, Opening, NextSeq
<1> QED
  BY <1>3, <1>4, <1>5, <1>6, <1>7, <1>8 DEF IInv

(* The journal after one more line. *)
LEMMA AppendFacts ==
    ASSUME TypeOK, WellNumbered, rec \in Record, Terminal(rec), rec.seq = NextSeq,
           journal' = Append(journal, rec)
    PROVE  /\ journal' \in Seq(Record) /\ Len(journal') = Len(journal) + 1
           /\ \A k \in 1 .. Len(journal) : journal'[k] = journal[k]
           /\ journal'[Len(journal')] = rec /\ WellNumbered'
<1>1. /\ journal \in Seq(Record) /\ Len(journal) \in Nat /\ NextSeq = Len(journal) + 1
      /\ \A k \in 1 .. Len(journal) : journal[k].seq = k /\ Terminal(journal[k])
  BY JournalFacts DEF TypeOK
<1>2. /\ journal' \in Seq(Record) /\ Len(journal') = Len(journal) + 1
      /\ \A k \in 1 .. Len(journal) : journal'[k] = journal[k]
      /\ journal'[Len(journal) + 1] = rec
  BY <1>1
<1>3. ASSUME NEW k \in 1 .. Len(journal')
      PROVE  journal'[k].seq = k /\ Terminal(journal'[k])
  <2>1. CASE k \in 1 .. Len(journal)
    BY <1>1, <1>2, <2>1
  <2>2. CASE k = Len(journal) + 1
    BY <1>1, <1>2, <2>2
  <2> QED
    BY <1>1, <1>2, <2>1, <2>2
<1>4. WellNumbered'
  BY <1>3 DEF WellNumbered, Terminal
<1> QED
  BY <1>2, <1>4

LEMMA WriteRestInv ==
    ASSUME IInv, NEW p \in Procs, WriteRest(p)
    PROVE  IInv'
<1>1. /\ op # "idle" /\ at = "finish" /\ at' = "unlink" /\ tail' = NoRecord
      /\ journal' = Append(journal, rec)
      /\ UNCHANGED <<made, tmp, pending, owner, healthy, seq, op, rec, acked, budget>>
  BY DEF WriteRest, Takes
<1>2. /\ op \in {"open", "complete"} /\ rec \in Record /\ rec # NoRecord
      /\ Terminal(rec) /\ rec.seq = NextSeq /\ pending = rec
  <2>1. op \in {"open", "complete"}
    BY <1>1, CallFacts DEF IInv, Control
  <2>2. Terminal(rec) /\ rec.seq = NextSeq /\ pending = rec
    BY <1>1, <2>1 DEF IInv, Control, Completing, Opening, Terminal
  <2> QED
    BY <2>1, <2>2, NoRecordFacts DEF IInv, TypeOK
<1>3. /\ journal' \in Seq(Record) /\ Len(journal') = Len(journal) + 1
      /\ \A k \in 1 .. Len(journal) : journal'[k] = journal[k]
      /\ journal'[Len(journal')] = rec /\ WellNumbered'
      /\ Len(journal) \in Nat /\ NextSeq = Len(journal) + 1
  BY <1>1, <1>2, AppendFacts, JournalFacts DEF IInv, Consistent
<1>4. TypeOK'
  BY <1>1, <1>3 DEF IInv, TypeOK, Steps
<1>5. Consistent'
  BY <1>1, <1>2, <1>3 DEF Consistent, Explained
<1>6. Acknowledged'
  <2>1. \A n \in 1 .. MaxIncidents : acked'[n] # NoRecord => acked'[n].seq = n
    BY <1>1 DEF IInv, Acknowledged
  <2>2. ASSUME NEW n \in 1 .. MaxIncidents, acked[n] # NoRecord
        PROVE  Stored(n)' = Stored(n)
    <3>1. Stored(n).seq = n
      BY <2>2 DEF IInv, Acknowledged, NothingLost
    <3>2. CASE n <= Len(journal)
      BY <1>3, <3>2 DEF Stored
    <3>3. CASE n > Len(journal)
      <4>1. n = Len(journal) + 1
        BY <1>2, <1>3, <3>1, <3>3 DEF Stored
      <4> QED
        BY <1>1, <1>2, <1>3, <3>3, <4>1 DEF Stored
    <3> QED
      BY <1>3, <3>2, <3>3
  <2> QED
    BY <1>1, <2>1, <2>2 DEF IInv, Acknowledged, NothingLost
<1>7. Control' /\ Marked'
  BY <1>1, <1>2, CallFacts DEF IInv, Control, Marked
<1>8. Current'
  BY <1>1, <1>2 DEF Current
<1>9. Noting' /\ Completing' /\ Opening'
  BY <1>1, <1>2, <1>3 DEF IInv, Noting, Completing, Opening
<1> QED
  BY <1>4, <1>5, <1>6, <1>7, <1>8, <1>9 DEF IInv

LEMMA RemovePendingInv ==
    ASSUME IInv, NEW p \in Procs, RemovePending(p)
    PROVE  IInv'
<1>1. /\ op # "idle" /\ at = "unlink" /\ at' = "return" /\ pending' = NoRecord
      /\ UNCHANGED <<made, tmp, journal, tail, owner, healthy, seq, op, rec, acked, budget>>
  BY DEF RemovePending, Takes
<1>2. /\ op \in {"open", "complete"} /\ tail = NoRecord
      /\ Len(journal) \in Nat /\ Len(journal) > 0
      /\ pending = journal[Len(journal)] /\ pending.seq = Len(journal)
      /\ op = "complete" => rec.seq = Len(journal) /\ journal[rec.seq] = rec
  <2>1. op \in {"open", "complete"} /\ tail = NoRecord /\ Len(journal) \in Nat
    BY <1>1, CallFacts DEF IInv, Control
  <2>2. /\ Len(journal) > 0 /\ pending = journal[Len(journal)]
        /\ op = "complete" => pending = rec
    BY <1>1, <2>1 DEF IInv, Completing, Opening
  <2>3. pending.seq = Len(journal)
    BY <2>1, <2>2, JournalFacts DEF IInv, Consistent
  <2> QED
    BY <2>1, <2>2, <2>3
<1>3. TypeOK'
  BY <1>1 DEF IInv, TypeOK, Steps
<1>4. Consistent'
  BY <1>1, <1>2 DEF IInv, Consistent, WellNumbered, Explained
<1>5. Acknowledged'
  <2>1. \A n \in 1 .. MaxIncidents : acked'[n] # NoRecord => acked'[n].seq = n
    BY <1>1 DEF IInv, Acknowledged
  <2>2. ASSUME NEW n \in 1 .. MaxIncidents, acked[n] # NoRecord
        PROVE  Stored(n)' = Stored(n)
    <3>1. Stored(n).seq = n
      BY <2>2 DEF IInv, Acknowledged, NothingLost
    <3>2. n <= Len(journal)
      BY <1>2, <3>1 DEF Stored
    <3> QED
      BY <1>1, <3>2 DEF Stored
  <2> QED
    BY <1>1, <2>1, <2>2 DEF IInv, Acknowledged, NothingLost
<1>6. Control' /\ Marked'
  BY <1>1, <1>2, CallFacts DEF IInv, Control, Marked
<1>7. Current'
  BY <1>1, <1>2 DEF Current
<1>8. Noting' /\ Completing' /\ Opening'
  BY <1>1, <1>2 DEF IInv, Noting, Completing, Opening
<1> QED
  BY <1>3, <1>4, <1>5, <1>6, <1>7, <1>8 DEF IInv

(* What is returned is on the disk. *)
LEMMA ReturnFacts ==
    ASSUME IInv, op # "idle", at = "return", op \in {"checkpoint", "complete"}
    PROVE  /\ rec \in Record /\ rec # NoRecord /\ rec.seq \in 1 .. MaxIncidents
           /\ Stored(rec.seq) = rec
           /\ op = "checkpoint" => /\ pending = rec /\ rec.seq = NextSeq /\ rec.st = "open"
                                   /\ seq <= NextSeq
           /\ op = "complete" => pending = NoRecord
<1>1. /\ rec \in Record /\ rec # NoRecord /\ rec.seq \in 1 .. MaxIncidents
      /\ Len(journal) \in Nat /\ NextSeq = Len(journal) + 1
  BY CallFacts, RecordFacts DEF IInv, Control
<1>2. CASE op = "checkpoint"
  BY <1>1, <1>2 DEF IInv, Noting, Stored
<1>3. CASE op = "complete"
  BY <1>1, <1>3 DEF IInv, Completing, Stored
<1> QED
  BY <1>1, <1>2, <1>3

LEMMA ReturnInv ==
    ASSUME IInv, NEW p \in Procs, Return(p)
    PROVE  IInv'
<1>1. /\ op # "idle" /\ at = "return" /\ op' = "idle" /\ rec' = NoRecord
      /\ owner = p /\ owner' = owner /\ at' = "return"
      /\ UNCHANGED <<made, tmp, journal, tail, pending, healthy, budget>>
  BY DEF Return, disk
<1>2. /\ op \in {"open", "complete"} => seq' = Len(journal)
      /\ op = "checkpoint" => seq' = IF rec.seq > seq THEN rec.seq ELSE seq
      /\ op \in {"create", "write"} => seq' = seq
      /\ op \in {"checkpoint", "complete"} => acked' = [acked EXCEPT ![rec.seq] = rec]
      /\ op \notin {"checkpoint", "complete"} => acked' = acked
  BY DEF Return
<1>3. /\ op \in {"create", "open", "checkpoint", "complete", "write"} /\ healthy
      /\ Len(journal) \in Nat /\ NextSeq = Len(journal) + 1 /\ tail = NoRecord
      /\ seq \in Nat /\ Len(journal) \in 0 .. MaxIncidents
  BY <1>1, CallFacts, JournalFacts, StoreAssumption DEF IInv, Consistent, TypeOK, StoreAssumption
<1>4. TypeOK'
  <2>1. acked' \in [1 .. MaxIncidents -> Record \cup {NoRecord}]
    BY <1>1, <1>2, ReturnFacts DEF IInv, TypeOK
  <2>2. seq' \in 0 .. MaxIncidents
    <3>1. CASE op = "checkpoint"
      BY <1>1, <1>2, <1>3, <3>1, ReturnFacts, StoreAssumption DEF IInv, TypeOK, StoreAssumption
    <3>2. CASE op # "checkpoint"
      BY <1>2, <1>3, <3>2 DEF IInv, TypeOK
    <3> QED
      BY <3>1, <3>2
  <2> QED
    BY <1>1, <2>1, <2>2 DEF IInv, TypeOK, Ops, Steps
<1>5. Consistent'
  BY <1>1 DEF IInv, Consistent, WellNumbered, Explained, NextSeq
<1>6. Acknowledged'
  <2>1. \A n : Stored(n)' = Stored(n)
    BY <1>1 DEF Stored
  <2>2. ASSUME NEW n \in 1 .. MaxIncidents, acked'[n] # NoRecord
        PROVE  /\ acked'[n].seq = n /\ Stored(n).seq = n /\ Stored(n).note >= acked'[n].note
               /\ acked'[n].st = "closed" => Stored(n) = acked'[n]
    <3>1. CASE op \in {"checkpoint", "complete"} /\ n = rec.seq
      <4>1. acked'[n] = rec /\ Stored(n) = rec /\ rec.note \in Nat
        BY <1>1, <1>2, <3>1, ReturnFacts, RecordFacts, StoreAssumption
           DEF IInv, TypeOK, StoreAssumption
      <4> QED
        BY <3>1, <4>1
    <3>2. CASE ~(op \in {"checkpoint", "complete"} /\ n = rec.seq)
      <4>1. acked'[n] = acked[n]
        BY <1>1, <1>2, <3>2, ReturnFacts DEF IInv, TypeOK
      <4> QED
        BY <2>2, <4>1 DEF IInv, Acknowledged, NothingLost
    <3> QED
      BY <3>1, <3>2
  <2> QED
    BY <2>1, <2>2 DEF Acknowledged, NothingLost
<1>7. Control' /\ Marked'
  BY <1>1, <1>3, StoreAssumption DEF IInv, Control, Marked, StoreAssumption
<1>8. Current'
  <2>1. CASE op = "open"
    BY <1>1, <1>2, <1>3, <2>1 DEF IInv, Opening, Current, Fresh
  <2>2. CASE op \in {"create", "write"}
    BY <1>1, <1>2, <1>3, <2>2 DEF IInv, Current, Fresh, NextSeq
  <2>3. CASE op = "complete"
    BY <1>1, <1>2, <1>3, <2>3, ReturnFacts DEF Current, Fresh
  <2>4. CASE op = "checkpoint"
    <3>1. /\ pending = rec /\ rec # NoRecord /\ rec.seq = NextSeq /\ rec.st = "open"
          /\ rec.seq \in 1 .. MaxIncidents
      BY <1>1, <2>4, ReturnFacts
    <3>2. seq' = NextSeq
      BY <1>1, <1>2, <1>3, <2>4, <3>1, ReturnFacts
    <3>3. acked'[NextSeq] = rec
      BY <1>2, <2>4, <3>1 DEF IInv, TypeOK
    <3>4. NextSeq' = NextSeq
      BY <1>1 DEF NextSeq
    <3> QED
      BY <1>1, <1>3, <3>1, <3>2, <3>3, <3>4 DEF Current, Fresh
  <2> QED
    BY <1>3, <2>1, <2>2, <2>3, <2>4
<1>9. Noting' /\ Completing' /\ Opening'
  BY <1>1 DEF Noting, Completing, Opening
<1> QED
  BY <1>4, <1>5, <1>6, <1>7, <1>8, <1>9 DEF IInv

-----------------------------------------------------------------------------
(* The invariant of the workspace. *)

LEMMA StutterInv ==
    ASSUME IInv, UNCHANGED vars
    PROVE  IInv'
<1>1. UNCHANGED <<made, tmp, journal, tail, pending, owner, healthy, seq, op, at, rec, acked, budget>>
  BY DEF vars
<1>2. Consistent' /\ Acknowledged' /\ (Fresh' <=> Fresh)
  BY <1>1, Kept
<1>3. TypeOK' /\ Control' /\ Marked' /\ Current'
  BY <1>1, <1>2 DEF IInv, TypeOK, Control, Marked, Current
<1>4. Noting' /\ Completing' /\ Opening'
  BY <1>1 DEF IInv, Noting, Completing, Opening, NextSeq
<1> QED
  BY <1>2, <1>3, <1>4 DEF IInv

LEMMA StepInv ==
    ASSUME IInv, NEW p \in Procs, Step(p)
    PROVE  IInv'
BY WriteTmpInv, ReplaceMarkerInv, ReplacePendingInv, ReplaceStoreFileInv, TailInv,
   WriteRestInv, RemovePendingInv, ReturnInv DEF Step

LEMMA NextInv ==
    ASSUME IInv, [Next]_vars
    PROVE  IInv'
<1>1. ASSUME NEW p \in Procs, Create(p) \/ Open(p) \/ Write(p)
      PROVE  IInv'
  BY <1>1, CreateInv, OpenInv, WriteInv
<1>2. ASSUME NEW p \in Procs, NEW n \in 1 .. MaxIncidents, Checkpoint(p, n) \/ Complete(p, n)
      PROVE  IInv'
  BY <1>2, CheckpointInv, CompleteInv
<1>3. ASSUME NEW p \in Procs, Step(p)
      PROVE  IInv'
  BY <1>3, StepInv
<1>4. ASSUME NEW p \in Procs, Fault(p) \/ Close(p) \/ Crash(p)
      PROVE  IInv'
  <2>1. CASE Fault(p)
    BY <2>1, FaultInv
  <2>2. CASE Close(p) \/ Crash(p)
    BY <2>2, LeavesInv DEF Close, Crash
  <2> QED
    BY <1>4, <2>1, <2>2
<1> QED
  BY <1>1, <1>2, <1>3, <1>4, StutterInv DEF Next

(* The invariant above is inductive: whatever call, failure, close or death    *)
(* comes next, the disk and the call in progress keep explaining each other.   *)
THEOREM StoreInvariant == Spec => []IInv
<1>1. Init => IInv
  BY InitInv
<1>2. IInv /\ [Next]_vars => IInv'
  BY NextInv
<1> QED
  BY <1>1, <1>2, PTL DEF Spec

(* Every variable of the workspace keeps its type. *)
THEOREM StoreTypeCorrect == Spec => []TypeOK
<1>1. IInv => TypeOK
  BY DEF IInv
<1> QED
  BY <1>1, StoreInvariant, PTL

(* Evidence whose call returned is on the disk for good: in the pending file   *)
(* in its own or a newer note until it is filed, then in the journal           *)
(* (checkpoint, complete, and the recovery of _open_existing).                 *)
THEOREM NothingIsLost == Spec => []NothingLost
<1>1. IInv => NothingLost
  BY DEF IInv, Acknowledged
<1> QED
  BY <1>1, StoreInvariant, PTL

(* A workspace left at any point, but between a temporary file and its         *)
(* renaming, is accepted by the next _open_existing.                           *)
THEOREM StoreReopens == Spec => []Reopens
<1>1. IInv => Reopens
  BY DEF IInv, Consistent, Reopens, Readable
<1> QED
  BY <1>1, StoreInvariant, PTL

(* A process that may write holds the lock of a finished workspace and counts  *)
(* with what is in it.                                                         *)
THEOREM WriterCurrent == Spec => []WriterIsCurrent
<1>1. ASSUME IInv PROVE WriterIsCurrent
  <2>1. CASE op = "idle" /\ healthy
    BY <1>1, <2>1, FreshFacts DEF WriterIsCurrent, Fresh, IInv, Control
  <2> QED
    BY <2>1 DEF WriterIsCurrent
<1> QED
  BY <1>1, StoreInvariant, PTL

-----------------------------------------------------------------------------
(* The workspace implements the log of incidents.                              *)

LEMMA LogInit == Init => Log!Init
BY NoRecordFacts DEF Init, Log!Init, ClosedLog, LiveRecord, NoRecord, Log!NoRecord

(* A step that leaves the journal and the pending file alone is none of the    *)
(* log.                                                                        *)
LEMMA LogKept ==
    ASSUME UNCHANGED <<journal, pending>>
    PROVE  UNCHANGED <<ClosedLog, LiveRecord>>
BY DEF ClosedLog, LiveRecord, NextSeq, Terminal

(* The rename of the pending file is the step that counts: it notes, closes or *)
(* interrupts the incident in progress.                                        *)
LEMMA LogReplacePending ==
    ASSUME IInv, NEW p \in Procs, ReplacePending(p)
    PROVE  Log!Next(Record)
<1>1. /\ op # "idle" /\ at = "swap" /\ pending' = rec /\ journal' = journal
  BY DEF ReplacePending, Takes
<1>2. /\ op \in {"open", "checkpoint", "complete"} /\ rec \in Record /\ rec.seq = NextSeq
      /\ pending # NoRecord => /\ pending.st = "open" /\ rec.note >= pending.note
      /\ op = "open" => pending # NoRecord /\ rec = Interrupted(pending)
      /\ op = "checkpoint" => rec.st = "open"
      /\ op = "complete" => rec.st = "closed"
      /\ NextSeq = Len(journal) + 1
  BY <1>1, SwapFacts, CallFacts
<1>3. /\ ClosedLog = journal /\ LiveRecord = pending
      /\ NextSeq' = NextSeq /\ ClosedLog' = (IF Terminal(rec) THEN Append(journal, rec) ELSE journal)
      /\ LiveRecord' = (IF rec.st = "open" THEN rec ELSE NoRecord)
  BY <1>1, <1>2, NoRecordFacts DEF ClosedLog, LiveRecord, NextSeq, Terminal
<1>4. Log!NoRecord = NoRecord
  BY DEF Log!NoRecord, NoRecord
<1>5. rec.note >= pending.note
  <2>1. CASE pending = NoRecord
    BY <1>2, <2>1, RecordFacts, NoRecordFacts, StoreAssumption DEF StoreAssumption
  <2> QED
    BY <1>2, <2>1
<1>6. CASE op = "checkpoint"
  <2>1. Log!Note(rec)
    BY <1>2, <1>3, <1>5, <1>6 DEF Log!Note, Terminal
  <2> QED
    BY <1>2, <2>1 DEF Log!Next
<1>7. CASE op = "complete"
  <2>1. Log!Close(rec)
    BY <1>2, <1>3, <1>4, <1>5, <1>7 DEF Log!Close, Terminal
  <2> QED
    BY <1>2, <2>1 DEF Log!Next
<1>8. CASE op = "open"
  <2>1. pending \in Record /\ rec.st = "interrupted"
    BY <1>2, <1>8, RecordFacts DEF IInv, TypeOK
  <2>2. rec = Log!Interrupted(pending)
    BY <1>2, <1>8 DEF Log!Interrupted, Interrupted
  <2>3. Log!Interrupt
    BY <1>2, <1>3, <1>4, <1>8, <2>1, <2>2 DEF Log!Interrupt, Terminal
  <2> QED
    BY <2>3 DEF Log!Next
<1> QED
  BY <1>2, <1>6, <1>7, <1>8

(* The line in the journal and the end of the pending file only carry the      *)
(* record to where the next incident finds it.                                 *)
LEMMA LogWriteRest ==
    ASSUME IInv, NEW p \in Procs, WriteRest(p)
    PROVE  UNCHANGED <<ClosedLog, LiveRecord>>
<1>1. /\ op # "idle" /\ at = "finish" /\ journal' = Append(journal, rec) /\ pending' = pending
  BY DEF WriteRest, Takes
<1>2. op \in {"open", "complete"}
  BY <1>1, CallFacts DEF IInv, Control
<1>3. Terminal(rec) /\ rec.seq = NextSeq /\ pending = rec
  BY <1>1, <1>2 DEF IInv, Control, Completing, Opening, Terminal
<1>4. rec \in Record
  BY <1>3, NoRecordFacts DEF IInv, TypeOK
<1>5. /\ Len(journal') = Len(journal) + 1 /\ Len(journal) \in Nat /\ NextSeq = Len(journal) + 1
  BY <1>1, <1>3, <1>4, AppendFacts, JournalFacts DEF IInv, Consistent
<1>6. ClosedLog = Append(journal, rec) /\ ClosedLog' = journal'
  BY <1>1, <1>3, <1>5 DEF ClosedLog, NextSeq
<1> QED
  BY <1>1, <1>6 DEF LiveRecord

LEMMA LogRemovePending ==
    ASSUME IInv, NEW p \in Procs, RemovePending(p)
    PROVE  UNCHANGED <<ClosedLog, LiveRecord>>
<1>1. /\ op # "idle" /\ at = "unlink" /\ journal' = journal /\ pending' = NoRecord
  BY DEF RemovePending, Takes
<1>2. op \in {"open", "complete"} /\ Len(journal) \in Nat /\ NextSeq = Len(journal) + 1
  BY <1>1, CallFacts DEF IInv, Control
<1>3. Len(journal) > 0 /\ pending = journal[Len(journal)]
  BY <1>1, <1>2 DEF IInv, Completing, Opening
<1>4. pending.seq = Len(journal) /\ Terminal(pending)
  BY <1>2, <1>3, JournalFacts DEF IInv, Consistent
<1> QED
  BY <1>1, <1>2, <1>4, NoRecordFacts DEF ClosedLog, LiveRecord, Terminal

LEMMA LogNext ==
    ASSUME IInv, [Next]_vars
    PROVE  [Log!Next(Record)]_<<ClosedLog, LiveRecord>>
<1>1. CASE UNCHANGED vars
  BY <1>1, LogKept DEF vars
<1>2. ASSUME NEW p \in Procs, Step(p)
      PROVE  [Log!Next(Record)]_<<ClosedLog, LiveRecord>>
  <2>1. CASE ReplacePending(p)
    BY <2>1, LogReplacePending
  <2>2. CASE WriteRest(p)
    BY <2>2, LogWriteRest
  <2>3. CASE RemovePending(p)
    BY <2>3, LogRemovePending
  <2>4. CASE \/ WriteTmp(p) \/ ReplaceMarker(p) \/ ReplaceStoreFile(p)
             \/ Truncate(p) \/ WritePart(p) \/ Return(p)
    <3>1. UNCHANGED <<journal, pending>>
      BY <2>4 DEF WriteTmp, ReplaceMarker, ReplaceStoreFile, Truncate, WritePart, Return, disk
    <3> QED
      BY <3>1, LogKept
  <2> QED
    BY <1>2, <2>1, <2>2, <2>3, <2>4 DEF Step
<1>3. ASSUME NEW p \in Procs,
             \/ Create(p) \/ Open(p) \/ Write(p) \/ Fault(p) \/ Close(p) \/ Crash(p)
             \/ \E n \in 1 .. MaxIncidents : Checkpoint(p, n) \/ Complete(p, n)
      PROVE  [Log!Next(Record)]_<<ClosedLog, LiveRecord>>
  <2>1. UNCHANGED <<journal, pending>>
    BY <1>3 DEF Create, Open, Write, Fault, Close, Crash, Leaves, Checkpoint, Complete, disk
  <2> QED
    BY <2>1, LogKept
<1> QED
  BY <1>1, <1>2, <1>3 DEF Next

(* The workspace implements the log: a numbered sequence of closed incidents   *)
(* that only grows, and one incident in progress whose latest note is never    *)
(* replaced by an older one and which ends in the log. The rename of the       *)
(* pending file is the only step that counts.                                  *)
THEOREM LogImplemented == Spec => ImplementsLog
<1>1. Init => Log!Init
  BY LogInit
<1>2. IInv /\ [Next]_vars => [Log!Next(Record)]_<<ClosedLog, LiveRecord>>
  BY LogNext
<1> QED
  BY <1>1, <1>2, StoreInvariant, PTL DEF Spec, ImplementsLog
=============================================================================
