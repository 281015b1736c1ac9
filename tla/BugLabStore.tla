----------------------------- MODULE BugLabStore -----------------------------
(* The Bug Lab's owned workspace: one directory that survives the process, the *)
(* journal of closed incidents in it, the snapshot of the incident in progress *)
(* (the pending file), and the writer lock. Every call that changes the disk   *)
(* is a step of its own, so a process may die, or the call may fail, between   *)
(* any two of them. What a step writes is synchronised before the next one     *)
(* begins, so a loss of power leaves nothing that a killed process does not.   *)
EXTENDS Naturals, Sequences

CONSTANTS
    Procs,        \* processes that may open the workspace, one after another
    Nobody,       \* no process holds the writer lock
    MaxIncidents, \* incidents of the workspace
    MaxNotes,     \* checkpoints of one incident
    MaxFaults,    \* calls of the operating system that fail
    MaxCrashes    \* deaths of the process

ASSUME StoreAssumption ==
    /\ Nobody \notin Procs
    /\ MaxIncidents \in Nat /\ MaxNotes \in Nat
    /\ MaxFaults \in Nat /\ MaxCrashes \in Nat

VARIABLES
    made,     \* "nothing", "bare" (no ownership marker yet) or "owned"
    tmp,      \* a temporary file of an atomic write is on the disk
    journal,  \* the complete lines of incidents.jsonl
    tail,     \* the record an unfinished last line belongs to
    pending,  \* the record of the pending file
    owner,    \* the process that holds the lock
    healthy,  \* its _healthy
    seq,      \* its _sequence
    op,       \* the call it is in
    at,       \* the next disk step of that call
    rec,      \* the record that call writes
    acked,    \* per incident, the last record whose call returned (observes)
    budget    \* faults and crashes that may still happen

disk == <<made, tmp, journal, tail, pending>>
vars == <<made, tmp, journal, tail, pending, owner, healthy, seq, op, at, rec,
          acked, budget>>

NoRecord == [seq |-> 0, note |-> 0, st |-> "none"]

Record ==
    [seq : 1 .. MaxIncidents, note : 0 .. MaxNotes,
     st : {"open", "closed", "interrupted"}]

Terminal(r) == r.st \in {"closed", "interrupted"}

X_Interrupted(r) == [r EXCEPT !.st = "interrupted", !.note = 0]

Interrupted(r) == [r EXCEPT !.st = "interrupted"]

Ops == {"idle", "create", "open", "checkpoint", "complete", "write"}

Steps == {"tmp", "mark", "swap", "install", "cut", "start", "finish", "unlink", "return"}

TypeOK ==
    /\ made \in {"nothing", "bare", "owned"} /\ tmp \in BOOLEAN
    /\ journal \in Seq(Record)
    /\ tail \in Record \cup {NoRecord} /\ pending \in Record \cup {NoRecord}
    /\ owner \in Procs \cup {Nobody} /\ healthy \in BOOLEAN
    /\ seq \in 0 .. MaxIncidents
    /\ op \in Ops /\ at \in Steps /\ rec \in Record \cup {NoRecord}
    /\ acked \in [1 .. MaxIncidents -> Record \cup {NoRecord}]
    /\ budget \in [faults : 0 .. MaxFaults, crashes : 0 .. MaxCrashes]

Init ==
    /\ made = "nothing" /\ tmp = FALSE
    /\ journal = <<>> /\ tail = NoRecord /\ pending = NoRecord
    /\ owner = Nobody /\ healthy = FALSE /\ seq = 0
    /\ op = "idle" /\ at = "return" /\ rec = NoRecord
    /\ acked = [n \in 1 .. MaxIncidents |-> NoRecord]
    /\ budget = [faults |-> MaxFaults, crashes |-> MaxCrashes]

-----------------------------------------------------------------------------
(* Opening. *)

Enters(o, s, r) == op' = o /\ at' = s /\ rec' = r

(* A new directory: the lock, a copy of the release and, last, the marker. *)
Create(p) ==
    /\ owner = Nobody /\ made = "nothing"
    /\ owner' = p /\ healthy' = TRUE /\ seq' = 0
    /\ made' = "bare"
    /\ Enters("create", "tmp", NoRecord)
    /\ UNCHANGED <<tmp, journal, tail, pending, acked, budget>>

(* What _open_existing accepts; anything else fails the start and changes      *)
(* nothing. An unfinished temporary file is an unknown layout entry.           *)
NextSeq == Len(journal) + 1

WellNumbered ==
    \A k \in 1 .. Len(journal) : journal[k].seq = k /\ Terminal(journal[k])

Explained ==
    /\ tail # NoRecord => Terminal(pending) /\ pending.seq = NextSeq /\ tail = pending
    /\ \/ pending = NoRecord
       \/ pending.seq = NextSeq
       \/ Len(journal) > 0 /\ pending = journal[Len(journal)]

Readable == made = "owned" /\ ~tmp /\ WellNumbered /\ Explained

(* The recovery: an unfinished line is cut and written again, a snapshot whose *)
(* incident was closed is filed, one in progress is first marked interrupted.  *)
Open(p) ==
    /\ owner = Nobody /\ Readable
    /\ owner' = p /\ healthy' = TRUE /\ seq' = 0
    /\ Enters("open",
              IF pending = NoRecord THEN "return"
              ELSE IF tail # NoRecord THEN "cut"
              ELSE IF pending.seq # NextSeq THEN "unlink"
              ELSE IF Terminal(pending) THEN "start" ELSE "tmp",
              IF pending = NoRecord \/ Terminal(pending)
              THEN pending ELSE Interrupted(pending))
    /\ UNCHANGED <<disk, acked, budget>>

-----------------------------------------------------------------------------
(* The calls of the lab. *)

Calls(p) == owner = p /\ op = "idle" /\ healthy

(* The layout or a record is not what it must be: nothing is written any more. *)
Condemns == healthy' = FALSE /\ UNCHANGED <<op, at, rec>>

Proceeds(o, s, r) == Enters(o, s, r) /\ UNCHANGED healthy

(* A snapshot of incident n. Its note is newer than the last one that returned. *)
Checkpoint(p, n) ==
    LET r == [seq |-> n, note |-> acked[n].note + 1, st |-> "open"]
    IN  /\ Calls(p) /\ acked[n].note < MaxNotes
        /\ pending = NoRecord => n = seq + 1
        /\ IF pending # NoRecord /\ pending.seq # n
           THEN Condemns ELSE Proceeds("checkpoint", "tmp", r)
        /\ UNCHANGED <<disk, owner, seq, acked, budget>>

X_Complete(p, n) ==
    LET r == [seq |-> n, note |-> acked[n].note, st |-> "closed"]
    IN  /\ Calls(p) /\ n = NextSeq /\ pending # NoRecord => pending.seq = n
        /\ Proceeds("complete", "start", r)
        /\ UNCHANGED <<disk, owner, seq, acked, budget>>

(* The record of a closed incident goes to the pending file first, then to the *)
(* journal; one that is already there needs only its snapshot removed.         *)
Complete(p, n) ==
    LET r == [seq |-> n, note |-> acked[n].note, st |-> "closed"]
    IN  /\ Calls(p) /\ tail = NoRecord
        /\ IF n <= Len(journal)
           THEN IF journal[n] # r \/ pending \notin {NoRecord, r} THEN Condemns
                ELSE Proceeds("complete", IF pending = r THEN "unlink" ELSE "return", r)
           ELSE IF n # NextSeq \/ (pending # NoRecord /\ pending.seq # n) THEN Condemns
                ELSE Proceeds("complete", "tmp", r)
        /\ UNCHANGED <<disk, owner, seq, acked, budget>>

(* Files of the store are written the same way: an injection, a patch, a       *)
(* revert, or each file of a reset.                                            *)
Write(p) ==
    /\ Calls(p)
    /\ Proceeds("write", "tmp", NoRecord)
    /\ UNCHANGED <<disk, owner, seq, acked, budget>>

-----------------------------------------------------------------------------
(* The disk steps of the call in progress. *)

Takes(p, s, next) ==
    /\ owner = p /\ op # "idle" /\ at = s /\ at' = next
    /\ UNCHANGED <<owner, healthy, seq, op, rec, acked, budget>>

(* _atomic_write_raw: the temporary file, then its replacement of the target. *)
WriteTmp(p) ==
    /\ ~tmp /\ tmp' = TRUE
    /\ Takes(p, "tmp", CASE op = "create" -> "mark" [] op = "write" -> "install"
                         [] OTHER -> "swap")
    /\ UNCHANGED <<made, journal, tail, pending>>

ReplaceMarker(p) ==
    /\ tmp' = FALSE /\ made' = "owned"
    /\ Takes(p, "mark", "return")
    /\ UNCHANGED <<journal, tail, pending>>

X_ReplacePending(p) ==
    /\ tmp' = FALSE /\ pending' = rec
    /\ Takes(p, "swap", IF op = "checkpoint" THEN "return" ELSE "unlink")
    /\ UNCHANGED <<made, journal, tail>>

ReplacePending(p) ==
    /\ tmp' = FALSE /\ pending' = rec
    /\ Takes(p, "swap", IF op = "checkpoint" THEN "return" ELSE "start")
    /\ UNCHANGED <<made, journal, tail>>

ReplaceStoreFile(p) ==
    /\ tmp' = FALSE
    /\ \E next \in {"tmp", "return"} : Takes(p, "install", next)
    /\ UNCHANGED <<made, journal, tail, pending>>

(* _rewrite_partial_journal truncates the unfinished line ... *)
Truncate(p) ==
    /\ tail' = NoRecord
    /\ Takes(p, "cut", "start")
    /\ UNCHANGED <<made, tmp, journal, pending>>

(* ... and it and _append_record write the line, in as many writes as it takes. *)
WritePart(p) ==
    /\ tail = NoRecord /\ rec.seq = NextSeq
    /\ tail' = rec
    /\ Takes(p, "start", "finish")
    /\ UNCHANGED <<made, tmp, journal, pending>>

WriteRest(p) ==
    /\ journal' = Append(journal, rec) /\ tail' = NoRecord
    /\ Takes(p, "finish", "unlink")
    /\ UNCHANGED <<made, tmp, pending>>

RemovePending(p) ==
    /\ pending' = NoRecord
    /\ Takes(p, "unlink", "return")
    /\ UNCHANGED <<made, tmp, journal, tail>>

(* The call returns: the constructor and complete count what is in the journal. *)
Return(p) ==
    /\ owner = p /\ op # "idle" /\ at = "return"
    /\ op' = "idle" /\ rec' = NoRecord
    /\ seq' = CASE op \in {"open", "complete"} -> Len(journal)
                [] op = "checkpoint" -> (IF rec.seq > seq THEN rec.seq ELSE seq)
                [] OTHER -> seq
    /\ acked' = IF op \in {"checkpoint", "complete"}
                THEN [acked EXCEPT ![rec.seq] = rec] ELSE acked
    /\ UNCHANGED <<disk, owner, healthy, at, budget>>

-----------------------------------------------------------------------------
(* Failures. *)

X_Fault(p) ==
    /\ owner = p /\ op # "idle" /\ budget.faults > 0
    /\ budget' = [budget EXCEPT !.faults = @ - 1]
    /\ owner' = IF op \in {"create", "open"} THEN Nobody ELSE owner
    /\ healthy' = (op \notin {"create", "open"})
    /\ op' = "idle" /\ at' = "return" /\ rec' = NoRecord
    /\ UNCHANGED <<disk, seq, acked>>

(* A call of the operating system raises: a constructor gives the workspace up, *)
(* any other call leaves it refusing every write of this process.              *)
Fault(p) ==
    /\ owner = p /\ op # "idle" /\ budget.faults > 0
    /\ budget' = [budget EXCEPT !.faults = @ - 1]
    /\ healthy' = FALSE
    /\ owner' = IF op \in {"create", "open"} THEN Nobody ELSE owner
    /\ op' = "idle" /\ at' = "return" /\ rec' = NoRecord
    /\ UNCHANGED <<disk, seq, acked>>

Leaves ==
    /\ owner' = Nobody /\ healthy' = FALSE /\ seq' = 0
    /\ op' = "idle" /\ at' = "return" /\ rec' = NoRecord
    /\ UNCHANGED <<disk, acked>>

Close(p) == owner = p /\ op = "idle" /\ Leaves /\ UNCHANGED budget

Crash(p) ==
    /\ owner = p /\ budget.crashes > 0
    /\ budget' = [budget EXCEPT !.crashes = @ - 1]
    /\ Leaves

Step(p) ==
    \/ WriteTmp(p) \/ ReplaceMarker(p) \/ ReplacePending(p) \/ ReplaceStoreFile(p)
    \/ Truncate(p) \/ WritePart(p) \/ WriteRest(p) \/ RemovePending(p) \/ Return(p)

Next ==
    \E p \in Procs :
        \/ Create(p) \/ Open(p) \/ Write(p)
        \/ \E n \in 1 .. MaxIncidents : Checkpoint(p, n) \/ Complete(p, n)
        \/ Step(p) \/ Fault(p) \/ Close(p) \/ Crash(p)

Spec == Init /\ [][Next]_vars

-----------------------------------------------------------------------------
(* Properties. *)

(* Where incident n is to be found: in the journal once it is filed, in the    *)
(* pending file before that.                                                   *)
Stored(n) == IF n <= Len(journal) THEN journal[n] ELSE pending

(* Evidence whose call returned is never lost or rolled back, whatever fails   *)
(* later: a checkpoint is on the disk in its own or a newer note, a completed  *)
(* incident in the journal as it was completed (checkpoint and complete).      *)
NothingLost ==
    \A n \in 1 .. MaxIncidents : acked[n] # NoRecord =>
        /\ Stored(n).seq = n /\ Stored(n).note >= acked[n].note
        /\ acked[n].st = "closed" => Stored(n) = acked[n]

(* A workspace that a process left at any point, but between the creation of a *)
(* temporary file and its renaming, is one _open_existing accepts: no sequence *)
(* of failures and recoveries leads to a journal without a recovery proof.     *)
Reopens == owner = Nobody /\ made = "owned" /\ ~tmp => Readable

(* A process that may write has a disk with nothing unfinished and a counter   *)
(* that agrees with it: the next incident of the lab is never refused.         *)
WriterIsCurrent ==
    op = "idle" /\ healthy =>
        /\ owner # Nobody /\ made = "owned" /\ ~tmp /\ tail = NoRecord
        /\ IF pending = NoRecord THEN seq = Len(journal)
           ELSE pending.st = "open" /\ pending.seq = NextSeq /\ seq = NextSeq

(* The workspace is an IncidentLog: a closing record counts from the moment it *)
(* replaces the pending file, and later steps, failures and recoveries only    *)
(* carry it to the journal.                                                    *)
ClosedLog == IF Terminal(pending) /\ pending.seq = NextSeq
             THEN Append(journal, pending) ELSE journal
LiveRecord == IF pending.st = "open" THEN pending ELSE NoRecord

Log == INSTANCE IncidentLog WITH closed <- ClosedLog, live <- LiveRecord

ImplementsLog == Log!Init /\ [][Log!Next(Record)]_<<ClosedLog, LiveRecord>>

(* The README of the Bug Lab: "a process crash becomes `interrupted` on        *)
(* recovery". An incident in progress is always one the next start can file.   *)
CrashIsRecovered == owner = Nobody /\ pending # NoRecord => Readable
=============================================================================
