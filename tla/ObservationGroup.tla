-------------------------- MODULE ObservationGroup --------------------------
(***************************************************************************)
(* A training group that observes before it acts, and the journal of it    *)
(* (training/grpo_observation_first.py, training/grpo_observation_journal. *)
(* py).  The trainer writes a marker before each callback that touches the *)
(* environment; the journal takes a row only if it continues the rows      *)
(* before it, and none after a row that failed; a reader applies the same  *)
(* rules to the file.  A callback may raise, the thread may be interrupted *)
(* between any two steps, a write may be cut off, the process may die.     *)
(* Digests, prompts and scores are left out: a record is "open" until its  *)
(* sample has a reward, and "strange" once it holds a result status that   *)
(* the journal does not know.                                              *)
(***************************************************************************)
EXTENDS Naturals, SequencesExt

CONSTANTS
    MaxGroups,       \* calls of _generate_and_score_completions
    GroupSize,       \* num_generations
    MaxCuts,         \* writes that are cut off
    MaxInterrupts    \* KeyboardInterrupts

VARIABLES
    pc,          \* where the trainer is
    group,       \* number of the group, for its two random identifiers
    active,      \* _active_group is set
    records,     \* _active_records
    status,      \* status of the call: "failed", "interrupted", "completed"
    finish,      \* finish_callback_status
    evidence,    \* _observation_evidence: <<group, status>> of each ended group
    rows,        \* the complete lines of the journal's file
    torn,        \* the file ends in a part of a line
    mem,         \* _state and _sequence of the journal
    poisoned,    \* _poisoned
    open,        \* the journal is neither closed nor dead
    called,      \* callbacks that were called: <<name, group, sample>>
    returned,    \* those of them that returned what the trainer accepts
    cuts, interrupts

journal == <<rows, torn, mem, poisoned, open, cuts>>
trainer == <<pc, group, active, records, status, finish, evidence>>
vars == <<trainer, journal, called, returned, interrupts>>

Statuses == {"failed", "interrupted", "completed"}
Phases == {"none", "started", "observed", "sample_started", "executed"}

TypeOK ==
    /\ pc \in {"idle", "starting", "beginning", "observing", "generating", "sampling",
               "admitting", "marking", "executing", "finishing", "filing", "dead"}
    /\ group \in 0 .. MaxGroups /\ active \in BOOLEAN
    /\ Range(records) \subseteq {"open", "scored", "strange"}
    /\ status \in Statuses /\ finish \in {"returned", "raised"}
    /\ torn \in BOOLEAN /\ poisoned \in BOOLEAN /\ open \in BOOLEAN
    /\ mem.phase \in Phases /\ mem.samples \in 0 .. GroupSize
    /\ cuts \in 0 .. MaxCuts /\ interrupts \in 0 .. MaxInterrupts

-----------------------------------------------------------------------------
(* The journal: _apply_event on the state of a file, used by its writer and *)
(* by its reader.                                                           *)

InitialState == [phase |-> "none", group |-> 0, samples |-> 0, seq |-> 1, groups |-> <<>>]

Row(event, sample) ==
    [event |-> event, group |-> group, seq |-> mem.seq, sample |-> sample,
     status |-> "", finish |-> "", records |-> <<>>]

FinalRow ==
    [Row("group_finished", 0) EXCEPT !.status = status, !.finish = finish,
                                     !.records = records]

\* _validate_data: what a final row must say of itself.
IsValid(row) ==
    row.event = "group_finished" =>
        /\ "strange" \notin Range(row.records)
        /\ row.status = "completed" =>
            row.finish = "returned" /\ Range(row.records) \subseteq {"scored"}

\* What may follow the rows that led to s.  Every sample before the last one
\* was executed, since a sample follows an observation or an execution.
Follows(s, row) ==
    \/ row.event = "group_started" /\ s.phase = "none"
    \/ /\ s.phase # "none" /\ row.group = s.group
       /\ \/ row.event = "group_observed" /\ s.phase = "started"
          \/ /\ row.event = "sample_started" /\ s.phase \in {"observed", "executed"}
             /\ row.sample = s.samples
          \/ /\ row.event = "sample_execute_started" /\ s.phase = "sample_started"
             /\ row.sample = s.samples - 1
          \/ /\ row.event = "group_finished" /\ Len(row.records) = s.samples
             /\ row.status = "completed" => s.phase = "executed"

Applied(s, row) ==
    LET next == [s EXCEPT !.seq = s.seq + 1]
    IN  CASE row.event = "group_started" ->
                [next EXCEPT !.phase = "started", !.group = row.group, !.samples = 0]
          [] row.event = "group_observed" -> [next EXCEPT !.phase = "observed"]
          [] row.event = "sample_started" ->
                [next EXCEPT !.phase = "sample_started", !.samples = s.samples + 1]
          [] row.event = "sample_execute_started" -> [next EXCEPT !.phase = "executed"]
          [] row.event = "group_finished" ->
                [next EXCEPT !.phase = "none", !.samples = 0,
                             !.groups = Append(s.groups, <<row.group, row.status>>)]

\* _verify_path: the file is as long as the rows that were accepted.
IsWhole == ~torn /\ Len(rows) = mem.seq - 1

MayAppend(row) == open /\ ~poisoned /\ IsValid(row) /\ Follows(mem, row) /\ IsWhole

Accepts(row) ==
    /\ MayAppend(row)
    /\ rows' = Append(rows, row) /\ mem' = Applied(mem, row)
    /\ UNCHANGED <<torn, poisoned, open, cuts>>

\* A row that does not continue the file poisons the journal; a journal that
\* is closed stays as it is.
Refuses(row) ==
    /\ ~MayAppend(row)
    /\ poisoned' = (poisoned \/ open)
    /\ UNCHANGED <<rows, torn, mem, open, cuts>>

\* The journal is full, the write, the fsync or a look at the path fails, or
\* the thread is interrupted: no part, a part or all of the row is in the file.
IsCutOff(row) ==
    /\ MayAppend(row)
    /\ cuts < MaxCuts /\ cuts' = cuts + 1
    /\ \/ UNCHANGED <<rows, torn>>
       \/ torn' = TRUE /\ UNCHANGED rows
       \/ rows' = Append(rows, row) /\ UNCHANGED torn
    /\ poisoned' = TRUE /\ UNCHANGED <<mem, open>>

Fails(row) == Refuses(row) \/ IsCutOff(row)

-----------------------------------------------------------------------------
(* The trainer: _generate_and_score_completions and _observation_reward.     *)

Init ==
    /\ pc = "idle" /\ group = 0 /\ active = FALSE /\ records = <<>>
    /\ status = "failed" /\ finish = "raised" /\ evidence = <<>>
    /\ rows = <<>> /\ torn = FALSE /\ mem = InitialState
    /\ poisoned = FALSE /\ open = TRUE
    /\ called = {} /\ returned = {} /\ cuts = 0 /\ interrupts = 0

Goes(where) == pc' = where

Calls(name) ==
    called' = called \cup {<<name, group, Len(records)>>}

Returns(name) ==
    returned' = returned \cup {<<name, group, Len(records)>>}

\* The except clause: finish is called with the status, whatever failed.
Raises(as) == Goes("finishing") /\ status' = as

Throws == \E s \in {"failed", "interrupted"} : Raises(s)

\* A trainer whose last group never left its finally refuses the call.
Start ==
    /\ pc = "idle" /\ ~active /\ group < MaxGroups
    /\ group' = group + 1 /\ status' = "failed" /\ Goes("starting")
    /\ UNCHANGED <<active, records, finish, evidence, journal, called, returned, interrupts>>

\* Nothing was begun if the first marker fails, and finish is not called.
MarkGroup ==
    /\ pc = "starting"
    /\ \/ Accepts(Row("group_started", 0)) /\ Goes("beginning")
       \/ Fails(Row("group_started", 0)) /\ Goes("idle")
    /\ UNCHANGED <<group, active, records, status, finish, evidence, called, returned, interrupts>>

Begin ==
    /\ pc = "beginning"
    /\ called' = called \cup {<<"begin", group, 0>>}
    /\ \/ /\ active' = TRUE /\ records' = <<>> /\ Goes("observing")
          /\ returned' = returned \cup {<<"begin", group, 0>>} /\ UNCHANGED status
       \/ Throws /\ UNCHANGED <<active, records, returned>>
    /\ UNCHANGED <<group, finish, evidence, journal, interrupts>>

Observe ==
    /\ pc = "observing"
    /\ \/ Accepts(Row("group_observed", 0)) /\ Goes("generating") /\ UNCHANGED status
       \/ Fails(Row("group_observed", 0)) /\ Throws
    /\ UNCHANGED <<group, active, records, finish, evidence, called, returned, interrupts>>

\* TRL calls the reward function with what it was given, or fails, or returns
\* without having called it.
Generate ==
    /\ pc = "generating"
    /\ \/ Goes("sampling") /\ UNCHANGED status
       \/ Throws
    /\ UNCHANGED <<group, active, records, finish, evidence, journal, called, returned,
                   interrupts>>

Sample ==
    /\ pc = "sampling" /\ Len(records) < GroupSize
    /\ records' = Append(records, "open")
    /\ \/ Accepts(Row("sample_started", Len(records))) /\ Goes("admitting") /\ UNCHANGED status
       \/ Fails(Row("sample_started", Len(records))) /\ Throws
    /\ UNCHANGED <<group, active, finish, evidence, called, returned, interrupts>>

\* before_action raises, or returns a state that is malformed, older than the
\* observation or other than it.
Admit ==
    /\ pc = "admitting" /\ Calls("before_action")
    /\ \/ Returns("before_action") /\ Goes("marking") /\ UNCHANGED status
       \/ Throws /\ UNCHANGED returned
    /\ UNCHANGED <<group, active, records, finish, evidence, journal, interrupts>>

\* Mutant: a marker that cannot be written does not stop the action.
X_MarkExecution ==
    /\ pc = "marking" /\ Goes("executing")
    /\ \/ Accepts(Row("sample_execute_started", Len(records) - 1))
       \/ Fails(Row("sample_execute_started", Len(records) - 1))
    /\ UNCHANGED <<group, active, records, status, finish, evidence, called, returned,
                   interrupts>>

MarkExecution ==
    /\ pc = "marking"
    /\ \/ /\ Accepts(Row("sample_execute_started", Len(records) - 1))
          /\ Goes("executing") /\ UNCHANGED status
       \/ Fails(Row("sample_execute_started", Len(records) - 1)) /\ Throws
    /\ UNCHANGED <<group, active, records, finish, evidence, called, returned, interrupts>>

\* The result is scored; or it raises, is blocked, of another action or
\* unscorable, and its record may hold a status that nobody knows.
Execute ==
    /\ pc = "executing" /\ Calls("execute")
    /\ \/ /\ records' = [records EXCEPT ![Len(records)] = "scored"]
          /\ Returns("execute") /\ Goes("sampling") /\ UNCHANGED status
       \/ /\ \/ records' = [records EXCEPT ![Len(records)] = "strange"]
             \/ UNCHANGED records
          /\ Throws /\ UNCHANGED returned
    /\ UNCHANGED <<group, active, finish, evidence, journal, interrupts>>

\* The rewards are returned to TRL, whose remainder may still fail.
Score ==
    /\ pc = "sampling" /\ Len(records) = GroupSize
    /\ Raises("completed") \/ Throws
    /\ UNCHANGED <<group, active, records, finish, evidence, journal, called, returned,
                   interrupts>>

\* A finish that raises, or is interrupted, takes the completion back.
Finish ==
    /\ pc = "finishing" /\ Goes("filing")
    /\ called' = called \cup {<<"finish", group, 0>>}
    /\ \/ /\ finish' = "returned" /\ UNCHANGED status
          /\ returned' = returned \cup {<<"finish", group, 0>>}
       \/ /\ finish' = "raised" /\ UNCHANGED returned
          /\ status' = IF status = "completed" THEN "failed" ELSE status
    /\ UNCHANGED <<group, active, records, evidence, journal, interrupts>>

File ==
    /\ pc = "filing"
    /\ \/ Accepts(FinalRow) /\ evidence' = Append(evidence, <<group, status>>)
       \/ Fails(FinalRow) /\ evidence' = Append(evidence, <<group, "failed">>)
    /\ active' = FALSE /\ records' = <<>> /\ Goes("idle")
    /\ UNCHANGED <<group, status, finish, called, returned, interrupts>>

\* Between two steps.  Before begin_attempted, and before the finish that the
\* finally begins with, nothing catches the interrupt: the call ends as it
\* stands.  A sample may be recorded whose marker was not yet written.
Interrupt ==
    /\ pc \notin {"idle", "filing", "dead"} /\ interrupts < MaxInterrupts
    /\ interrupts' = interrupts + 1
    /\ IF pc \in {"starting", "beginning", "finishing"}
       THEN Goes("idle") /\ UNCHANGED status
       ELSE Raises("interrupted")
    /\ \/ UNCHANGED records
       \/ /\ pc = "sampling" /\ Len(records) < GroupSize
          /\ records' = Append(records, "open")
    /\ UNCHANGED <<group, active, finish, evidence, journal, called, returned>>

\* The journal was not yet asked for the final row.
InterruptFiling ==
    /\ pc = "filing" /\ interrupts < MaxInterrupts
    /\ interrupts' = interrupts + 1
    /\ evidence' = Append(evidence, <<group, "failed">>)
    /\ active' = FALSE /\ records' = <<>> /\ Goes("idle")
    /\ UNCHANGED <<group, status, finish, journal, called, returned>>

\* The trainer is left and with it the journal's context.
Close ==
    /\ pc = "idle" /\ open /\ open' = FALSE
    /\ UNCHANGED <<trainer, rows, torn, mem, poisoned, cuts, called, returned, interrupts>>

Kill ==
    /\ pc # "dead" /\ Goes("dead") /\ open' = FALSE
    /\ UNCHANGED <<group, active, records, status, finish, evidence, rows, torn, mem,
                   poisoned, cuts, called, returned, interrupts>>

Next ==
    \/ Start \/ MarkGroup \/ Begin \/ Observe \/ Generate \/ Sample \/ Admit
    \/ MarkExecution \/ Execute \/ Score \/ Finish \/ File
    \/ Interrupt \/ InterruptFiling \/ Close \/ Kill

Spec == Init /\ [][Next]_vars

-----------------------------------------------------------------------------
(* read_observation_journal: the rows of a file, and what is said of it.     *)
ReadRow(s, row) ==
    IF s.phase # "invalid" /\ row.seq = s.seq /\ IsValid(row) /\ Follows(s, row)
    THEN Applied(s, row) ELSE [s EXCEPT !.phase = "invalid"]

Read(file) ==
    LET Upto[n \in 0 .. Len(file)] ==
            IF n = 0 THEN InitialState ELSE ReadRow(Upto[n - 1], file[n])
    IN  Upto[Len(file)]

Reading == Read(rows)

ReadStatus ==
    CASE Reading.phase = "invalid" -> "INVALID"
      [] torn \/ Reading.phase # "none" \/ Reading.groups = <<>> -> "INCOMPLETE"
      [] OTHER -> "RECORDED"

Marker(event, g, i) ==
    \E k \in DOMAIN rows :
        rows[k].event = event /\ rows[k].group = g /\ rows[k].sample = i

(* Whatever callback raises, whatever write is cut off, wherever the thread  *)
(* is interrupted or the process dies: the file can be read; a group that    *)
(* was begun and an action that was executed have their markers in it; a     *)
(* group it calls completed executed and scored every sample and its finish  *)
(* returned; what the trainer calls completed, the file does; and after a    *)
(* group whose end the file does not tell as the trainer does, the file      *)
(* tells of no other (append, _apply_event, read_observation_journal and the *)
(* order of the trainer's callbacks).                                        *)
JournalIsHonest ==
    /\ ReadStatus # "INVALID"
    /\ \A c \in called :
        /\ c[1] = "begin" => Marker("group_started", c[2], 0)
        /\ c[1] = "execute" => Marker("sample_execute_started", c[2], c[3] - 1)
    /\ \A e \in Range(Reading.groups) :
        e[2] = "completed" =>
            /\ <<"finish", e[1], 0>> \in returned
            /\ \A i \in 1 .. GroupSize : <<"execute", e[1], i>> \in returned
    /\ \A e \in Range(evidence) \ Range(Reading.groups) :
        /\ e[2] # "completed"
        /\ \A k \in DOMAIN rows : rows[k].group =< e[1]
=============================================================================
