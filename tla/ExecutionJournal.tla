-------------------------- MODULE ExecutionJournal --------------------------
(***************************************************************************)
(* The journal of executions of agents/execution_journal.py, and its       *)
(* reconciliation when a server process starts (operations_lifespan).      *)
(*                                                                         *)
(* Each process that opens the same runtime directory shares the SQLite    *)
(* file.  begin() is one transaction.  _note() reads the row and the last  *)
(* event in autocommit mode, and only its INSERT opens the transaction that *)
(* its UPDATE ends, so other processes can come in between; a process      *)
(* itself does one call at a time.  The hash of an event stands for its    *)
(* content and its predecessor's hash, so an event is named by its place   *)
(* in the history of its execution and prev by the place it continues.     *)
(***************************************************************************)
EXTENDS Naturals, Sequences

CONSTANTS Procs,       \* server processes
          Execs,       \* execution ids
          MaxEvents,   \* bound: events of an execution
          MaxFaults,   \* bound: notes that fail
          MaxCrashes   \* bound: processes that die

ASSUME JournalAssumption ==
    MaxEvents \in Nat /\ MaxFaults \in Nat /\ MaxCrashes \in Nat

Terminal == {"completed", "failed", "cancelled", "interrupted", "uncertain"}
(* The phases of _PHASES; "working" is any of triage, diagnosis, remediation, *)
(* approval, verification and comms, which are treated alike.                 *)
Phases == {"queued", "working", "applying", "finished"}

VARIABLES
    row,      \* executions: execution -> phase and state
    events,   \* execution_events: execution -> its history
    owner,    \* execution -> the process that runs it, or Nobody
    proc,     \* process -> whether it is down, starting, up, or failed to start
    todo,     \* process -> <<execution, phase>> it has still to reconcile
    call,     \* process -> the note it is in the middle of
    budget    \* what is left of the bounds on faults and crashes

vars == <<row, events, owner, proc, todo, call, budget>>

CONSTANT Nobody

NoRow == [phase |-> "none", state |-> "none"]
Row   == [phase : Phases, state : Terminal \cup {"running"}]
Event == [prev : 0 .. MaxEvents, phase : Phases, state : Terminal \cup {"running"}]
Idle  == [step |-> "idle"]
Call  == [step : {"last", "commit"}, exec : Execs, row : Row, prev : 0 .. MaxEvents]

TypeOK ==
    /\ row \in [Execs -> Row \cup {NoRow}]
    /\ events \in [Execs -> Seq(Event)] /\ \A e \in Execs : Len(events[e]) <= MaxEvents
    /\ owner \in [Execs -> Procs \cup {Nobody}]
    /\ proc \in [Procs -> {"down", "starting", "up", "failed"}]
    /\ todo \in [Procs -> SUBSET (Execs \X Phases)]
    /\ call \in [Procs -> Call \cup {Idle}]
    /\ budget \in [faults : 0 .. MaxFaults, crashes : 0 .. MaxCrashes]

Init ==
    /\ row = [e \in Execs |-> NoRow]
    /\ events = [e \in Execs |-> <<>>]
    /\ owner = [e \in Execs |-> Nobody]
    /\ proc = [p \in Procs |-> "down"]
    /\ todo = [p \in Procs |-> {}]
    /\ call = [p \in Procs |-> Idle]
    /\ budget = [faults |-> MaxFaults, crashes |-> MaxCrashes]

-----------------------------------------------------------------------------
(* begin(): the row and its first event in one transaction. *)
Begin(p, e) ==
    LET admitted == [phase |-> "queued", state |-> "running"]
    IN  /\ proc[p] = "up" /\ call[p] = Idle /\ row[e] = NoRow /\ MaxEvents > 0
        /\ row' = [row EXCEPT ![e] = admitted]
        /\ events' = [events EXCEPT ![e] =
                        <<[prev |-> 0, phase |-> "queued", state |-> "running"]>>]
        /\ owner' = [owner EXCEPT ![e] = p]
        /\ UNCHANGED <<proc, todo, call, budget>>

(* _note(), its first SELECT: a terminal execution is refused. *)
X_Open(e) == row[e] # NoRow
Open(e) == row[e].state = "running"

NoteReadsRow(p, e, to) ==
    /\ call[p] = Idle /\ Open(e) /\ Len(events[e]) < MaxEvents
    /\ call' = [call EXCEPT ![p] = [step |-> "last", exec |-> e, row |-> to, prev |-> 0]]

(* Its second SELECT: the event it will link to. *)
X_Last(e) == Len(events[e]) - 1
Last(e) == Len(events[e])

NoteReadsLast(p) ==
    /\ call[p].step = "last"
    /\ call' = [call EXCEPT ![p] = [step |-> "commit", exec |-> @.exec, row |-> @.row,
                                    prev |-> Last(@.exec)]]
    /\ UNCHANGED <<row, events, owner, proc, todo, budget>>

(* Its transaction. *)
NoteCommits(p) ==
    LET e == call[p].exec  to == call[p].row
    IN  /\ call[p].step = "commit" /\ Len(events[e]) < MaxEvents
        /\ events' = [events EXCEPT ![e] =
                        Append(@, [prev |-> call[p].prev, phase |-> to.phase, state |-> to.state])]
        /\ row' = [row EXCEPT ![e] = to]
        /\ todo' = [todo EXCEPT ![p] = {w \in @ : w[1] # e}]
        /\ call' = [call EXCEPT ![p] = Idle]
        /\ UNCHANGED <<owner, proc, budget>>

(* The audit log, the lock or the disk fails: nothing is written.  A run whose *)
(* terminal note fails is over all the same, and a start fails.                *)
NoteFails(p) ==
    LET e == call[p].exec
    IN  /\ call[p] # Idle
        /\ budget.faults > 0 /\ budget' = [budget EXCEPT !.faults = @ - 1]
        /\ call' = [call EXCEPT ![p] = Idle]
        /\ IF proc[p] = "starting"
           THEN proc' = [proc EXCEPT ![p] = "failed"] /\ UNCHANGED owner
           ELSE /\ owner' = IF call[p].row.state \in Terminal
                            THEN [owner EXCEPT ![e] = Nobody] ELSE owner
                /\ UNCHANGED proc
        /\ UNCHANGED <<row, events, todo>>

(* A run in p notes its progress or its end.  A run that is cancelled or fails *)
(* reads its phase first: an execution that was applying ends uncertain.       *)
Progress == {[phase |-> ph, state |-> "running"] : ph \in {"working", "applying"}}
Ending(e) ==
    IF row[e].phase = "applying"
    THEN {[phase |-> "finished", state |-> "uncertain"]}
    ELSE {[phase |-> "finished", state |-> s] : s \in {"completed", "failed", "cancelled"}}

RunNotes(p, e) ==
    /\ proc[p] = "up" /\ owner[e] = p
    /\ \E to \in Progress \cup Ending(e) : NoteReadsRow(p, e, to)
    /\ UNCHANGED <<row, events, owner, proc, todo, budget>>

(* The run is over; until then a cancellation can still make it note its end. *)
RunEnds(p, e) ==
    /\ owner[e] = p /\ call[p] = Idle /\ row[e].state \in Terminal
    /\ owner' = [owner EXCEPT ![e] = Nobody]
    /\ UNCHANGED <<row, events, proc, todo, call, budget>>

-----------------------------------------------------------------------------
(* What read() accepts: a linked history that ends in the row. *)
Linked(h) == \A n \in DOMAIN h : h[n].prev = n - 1
Readable(e) ==
    /\ events[e] # <<>> /\ Linked(events[e])
    /\ row[e] = [phase |-> events[e][Len(events[e])].phase,
                 state |-> events[e][Len(events[e])].state]

(* reconcile_restart(): the running rows, with their phases, are read once.    *)
X_Unfinished == {<<e, row[e].phase>> : e \in {x \in Execs : row[x].phase = "applying"}}
Unfinished == {<<e, row[e].phase>> : e \in {x \in Execs : row[x].state = "running"}}

Start(p) ==
    /\ proc[p] \in {"down", "failed"}
    /\ proc' = [proc EXCEPT ![p] = "starting"]
    /\ todo' = [todo EXCEPT ![p] = Unfinished]
    /\ UNCHANGED <<row, events, owner, call, budget>>

X_Verdict(ph) == IF ph = "applying" THEN "interrupted" ELSE "uncertain"
Verdict(ph) == IF ph = "applying" THEN "uncertain" ELSE "interrupted"

(* An execution that cannot be read, or that turned terminal meanwhile, fails *)
(* the start.  The SELECTs of read() are taken at once.                       *)
Reconcile(p) ==
    \E w \in todo[p] :
        /\ proc[p] = "starting" /\ call[p] = Idle
        /\ IF Readable(w[1]) /\ Open(w[1])
           THEN /\ NoteReadsRow(p, w[1], [phase |-> "finished", state |-> Verdict(w[2])])
                /\ UNCHANGED proc
           ELSE proc' = [proc EXCEPT ![p] = "failed"] /\ UNCHANGED call
        /\ UNCHANGED <<row, events, owner, todo, budget>>

Started(p) ==
    /\ proc[p] = "starting" /\ todo[p] = {}
    /\ proc' = [proc EXCEPT ![p] = "up"]
    /\ UNCHANGED <<row, events, owner, todo, call, budget>>

Crash(p) ==
    /\ proc[p] # "down"
    /\ budget.crashes > 0 /\ budget' = [budget EXCEPT !.crashes = @ - 1]
    /\ proc' = [proc EXCEPT ![p] = "down"]
    /\ todo' = [todo EXCEPT ![p] = {}]
    /\ call' = [call EXCEPT ![p] = Idle]
    /\ owner' = [e \in Execs |-> IF owner[e] = p THEN Nobody ELSE owner[e]]
    /\ UNCHANGED <<row, events>>

Next ==
    \E p \in Procs :
        \/ \E e \in Execs : Begin(p, e) \/ RunNotes(p, e) \/ RunEnds(p, e)
        \/ NoteReadsLast(p) \/ NoteCommits(p) \/ NoteFails(p)
        \/ Start(p) \/ Reconcile(p) \/ Started(p) \/ Crash(p)

Spec == Init /\ [][Next]_vars

-----------------------------------------------------------------------------
(* Whatever the processes do, a row has a history and repeats its last event:  *)
(* no crash or failure leaves a row that no start can read for want of events. *)
Backed ==
    \A e \in Execs :
        IF row[e] = NoRow THEN events[e] = <<>>
        ELSE /\ events[e] # <<>>
             /\ row[e].phase = events[e][Len(events[e])].phase
             /\ row[e].state = events[e][Len(events[e])].state

(* A terminal execution cannot replay or advance. *)
TerminalIsFinal ==
    [][\A e \in Execs : row[e].state \in Terminal => row'[e] = row[e]]_vars

(* Each event links to the one before it, so that every execution can be read. *)
ChainIntact == \A e \in Execs : Linked(events[e])

(* A process that comes up has left no execution running, and one that cannot  *)
(* come up has met a failing note.                                             *)
StartSettles ==
    [][\A p \in Procs : proc[p] = "starting" =>
           /\ proc'[p] = "up" => \A e \in Execs : row'[e].state # "running"
           /\ proc'[p] = "failed" => budget'.faults < budget.faults]_vars

(* An execution is called interrupted only if nothing was being applied, and   *)
(* what was being applied when its run ended is called uncertain.              *)
UncertainIsSaid ==
    \A e \in Execs :
        LET h == events[e]  n == Len(h)
        IN  n > 1 /\ h[n].state \in Terminal =>
              (h[n].state = "uncertain") <=> (h[n - 1].phase = "applying")
=============================================================================
