----------------------------- MODULE AuditLog -----------------------------
(***************************************************************************)
(* The audit trail of agents/audit.py: one file of records, each of which  *)
(* names the hash of the one before it, appended to by the processes that  *)
(* opened it.  A hash is the number of the append that made the record,    *)
(* 0 the empty string.  An append may fail or be cut off by the death of   *)
(* its process after any part of the line was written.                     *)
(***************************************************************************)
EXTENDS Naturals, SequencesExt

CONSTANTS Processes, MaxAppends, MaxCuts

VARIABLES
    lines,     \* the lines of the file
    ended,     \* the last line ends in a newline
    last,      \* _last_hash of each process, or Down
    appends,   \* appends begun so far
    told,      \* records whose record() returned, in that order
    cuts,      \* appends that did not return
    overlap    \* two processes ever had the file open at once

vars == <<lines, ended, last, appends, told, cuts, overlap>>

Down == MaxAppends + 1
Garbage == [prev |-> Down, hash |-> Down]     \* a line that is not JSON

TypeOK ==
    /\ \A i \in DOMAIN lines : lines[i] \in [prev : 0 .. Down, hash : 0 .. Down]
    /\ ended \in BOOLEAN /\ last \in [Processes -> 0 .. Down]
    /\ appends \in 0 .. MaxAppends /\ cuts \in 0 .. MaxCuts

Init ==
    /\ lines = <<>> /\ ended = TRUE
    /\ last = [p \in Processes |-> Down]
    /\ appends = 0 /\ told = <<>> /\ cuts = 0 /\ overlap = FALSE

\* _load_last_hash: the last line, and the empty hash if it cannot be parsed.
LoadLastHash ==
    IF lines = <<>> \/ Last(lines) = Garbage THEN 0 ELSE Last(lines).hash

Open(p) ==
    /\ last[p] = Down
    /\ last' = [last EXCEPT ![p] = LoadLastHash]
    /\ overlap' = (overlap \/ \E q \in Processes : last[q] # Down)
    /\ UNCHANGED <<lines, ended, appends, told, cuts>>

\* A line written behind one without a newline makes one line of two.
With(line) == IF ended THEN Append(lines, line)
              ELSE Append(Front(lines), Garbage)

Entry(p) == [prev |-> last[p], hash |-> appends + 1]

\* Mutant: the chain is not moved on.
X_Record(p) ==
    /\ last[p] # Down /\ appends < MaxAppends
    /\ appends' = appends + 1 /\ told' = Append(told, Entry(p))
    /\ lines' = With(Entry(p)) /\ ended' = TRUE
    /\ UNCHANGED <<last, cuts, overlap>>

Record(p) ==
    /\ last[p] # Down /\ appends < MaxAppends
    /\ appends' = appends + 1 /\ told' = Append(told, Entry(p))
    /\ lines' = With(Entry(p)) /\ ended' = TRUE
    /\ last' = [last EXCEPT ![p] = Entry(p).hash]
    /\ UNCHANGED <<cuts, overlap>>

\* The write fails, or the process dies in it: nothing, a part, or all of the
\* line but its newline, is in the file, and _last_hash has not moved.
IsCutOff(p) ==
    /\ last[p] # Down /\ appends < MaxAppends /\ cuts < MaxCuts
    /\ appends' = appends + 1 /\ cuts' = cuts + 1
    /\ \/ UNCHANGED <<lines, ended>>
       \/ \E line \in {Entry(p), Garbage} : lines' = With(line) /\ ended' = FALSE
       \/ lines' = With(Entry(p)) /\ ended' = TRUE
    /\ \/ UNCHANGED last
       \/ last' = [last EXCEPT ![p] = Down]
    /\ UNCHANGED <<told, overlap>>

Stop(p) ==
    /\ last[p] # Down /\ last' = [last EXCEPT ![p] = Down]
    /\ UNCHANGED <<lines, ended, appends, told, cuts, overlap>>

Next == \E p \in Processes : Open(p) \/ Record(p) \/ IsCutOff(p) \/ Stop(p)

Spec == Init /\ [][Next]_vars

-----------------------------------------------------------------------------
\* verify_integrity: each line parses and names the hash of the line before.
Verifies ==
    \A i \in DOMAIN lines :
        lines[i] # Garbage /\ lines[i].prev = (IF i = 1 THEN 0 ELSE lines[i - 1].hash)

(* A trail that verifies holds every record the program was told of, in    *)
(* the order it was told, and no other than those and the appends that     *)
(* reached the file without returning; and a trail of one process after    *)
(* another, whose appends all returned, verifies (record, verify_integrity *)
(* and _load_last_hash, through restarts and appends that are cut off).    *)
AuditIsExact ==
    /\ Verifies =>
        /\ \A k \in DOMAIN told : \E i \in DOMAIN lines : lines[i] = told[k]
        /\ \A i, j \in DOMAIN lines, k, m \in DOMAIN told :
               lines[i] = told[k] /\ lines[j] = told[m] => (i < j <=> k < m)
        /\ Len(lines) =< Len(told) + cuts
    /\ cuts = 0 /\ ~overlap => Verifies
=============================================================================
