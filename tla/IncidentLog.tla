----------------------------- MODULE IncidentLog -----------------------------
(* What the Bug Lab's workspace promises to the lab: a numbered log of closed  *)
(* incidents that only grows, and at most one incident in progress, whose      *)
(* latest note is never replaced by an older one and which ends in the log,    *)
(* closed by the lab or marked as interrupted with its latest note.            *)
EXTENDS Naturals, Sequences

VARIABLES closed, live

NoRecord == [seq |-> 0, note |-> 0, st |-> "none"]

Interrupted(r) == [r EXCEPT !.st = "interrupted"]

Init == closed = <<>> /\ live = NoRecord

(* The incident in progress is opened, or its note is brought up to date. *)
Note(r) ==
    /\ r.st = "open" /\ r.seq = Len(closed) + 1
    /\ r.note >= live.note
    /\ live' = r /\ UNCHANGED closed

Close(r) ==
    /\ r.st = "closed" /\ r.seq = Len(closed) + 1
    /\ r.note >= live.note
    /\ closed' = Append(closed, r) /\ live' = NoRecord

Interrupt ==
    /\ live # NoRecord
    /\ closed' = Append(closed, Interrupted(live)) /\ live' = NoRecord

Next(Records) == Interrupt \/ \E r \in Records : Note(r) \/ Close(r)
=============================================================================
