----------------------- MODULE ExecutionJournalProofs -----------------------
(***************************************************************************)
(* Theorems of ExecutionJournal, for any executions and any bounds: those   *)
(* that hold for any number of processes on one file, and those that hold   *)
(* only if one process uses it at a time.                                   *)
(***************************************************************************)
EXTENDS ExecutionJournal, SequenceTheorems, TLAPS

AnyState == Terminal \cup {"running"}

(* At most one process uses the file. *)
Solo == \A p, q \in Procs : p = q

IInv == TypeOK /\ Backed

(* The rows, events and calls that the steps write have their types. *)
LEMMA TypesOfSteps ==
    ASSUME TypeOK
    PROVE  /\ \A p \in Procs : call[p] # Idle => call[p] \in Call
           /\ \A p \in Procs : call[p].step \in {"last", "commit"} => call[p] \in Call
           /\ \A e \in Execs : events[e] \in Seq(Event) /\ Len(events[e]) \in Nat
           /\ \A e \in Execs : row[e].state \in AnyState => row[e] \in Row
<1>1. \A p \in Procs : call[p] \in Call \cup {Idle}
  BY DEF TypeOK
<1>2. Idle.step = "idle" /\ NoRow.state = "none"
  BY DEF Idle, NoRow
<1>3. \A e \in Execs : row[e] \in Row \cup {NoRow} /\ events[e] \in Seq(Event)
  BY DEF TypeOK
<1>4. "none" \notin AnyState
  BY DEF AnyState, Terminal
<1> QED BY <1>1, <1>2, <1>3, <1>4

(* What appending an event does to a history. *)
LEMMA AppendFacts ==
    ASSUME NEW S, NEW h \in Seq(S), NEW v \in S
    PROVE  LET g == Append(h, v)
           IN  /\ g \in Seq(S) /\ Len(g) = Len(h) + 1 /\ g # <<>>
               /\ DOMAIN g = 1 .. Len(h) + 1 /\ DOMAIN h = 1 .. Len(h)
               /\ g[Len(h) + 1] = v /\ \A n \in DOMAIN h : g[n] = h[n]
<1>1. Append(h, v) \in Seq(S) /\ Len(Append(h, v)) = Len(h) + 1 /\ Len(h) \in Nat
  OBVIOUS
<1>2. Append(h, v) # <<>>
  BY <1>1
<1>3. DOMAIN Append(h, v) = 1 .. Len(h) + 1 /\ DOMAIN h = 1 .. Len(h)
  BY <1>1
<1>4. Append(h, v)[Len(h) + 1] = v /\ \A n \in DOMAIN h : Append(h, v)[n] = h[n]
  BY <1>1, <1>3
<1> QED BY <1>1, <1>2, <1>3, <1>4

(* An event appended to the history of e, the row following it. *)
LEMMA Appended ==
    ASSUME IInv, NEW e \in Execs, NEW v \in Event, Len(events[e]) < MaxEvents,
           events' = [events EXCEPT ![e] = Append(@, v)],
           row' = [row EXCEPT ![e] = [phase |-> v.phase, state |-> v.state]]
    PROVE  /\ row' \in [Execs -> Row \cup {NoRow}]
           /\ events' \in [Execs -> Seq(Event)]
           /\ \A x \in Execs : Len(events'[x]) <= MaxEvents
           /\ Backed'
           /\ Len(events'[e]) = Len(events[e]) + 1 /\ Len(events[e]) \in Nat
           /\ DOMAIN events'[e] = 1 .. Len(events[e]) + 1
           /\ DOMAIN events[e] = 1 .. Len(events[e])
           /\ events'[e][Len(events[e]) + 1] = v
           /\ \A n \in DOMAIN events[e] : events'[e][n] = events[e][n]
<1>1. /\ events \in [Execs -> Seq(Event)] /\ row \in [Execs -> Row \cup {NoRow}]
      /\ \A x \in Execs : Len(events[x]) <= MaxEvents
      /\ events[e] \in Seq(Event) /\ Len(events[e]) \in Nat
  BY TypesOfSteps DEF IInv, TypeOK
<1>2. [phase |-> v.phase, state |-> v.state] \in Row
  BY DEF Event, Row
<1>3. [phase |-> v.phase, state |-> v.state] # NoRow
  BY DEF Event, NoRow, Terminal
<1>4. PICK h : h = Append(events[e], v)
  OBVIOUS
<1>5. /\ h \in Seq(Event) /\ Len(h) = Len(events[e]) + 1 /\ h # <<>>
      /\ DOMAIN h = 1 .. Len(events[e]) + 1 /\ DOMAIN events[e] = 1 .. Len(events[e])
      /\ h[Len(h)] = v /\ \A n \in DOMAIN events[e] : h[n] = events[e][n]
  <2>1. LET g == Append(events[e], v)
        IN  /\ g \in Seq(Event) /\ Len(g) = Len(events[e]) + 1 /\ g # <<>>
            /\ DOMAIN g = 1 .. Len(events[e]) + 1 /\ DOMAIN events[e] = 1 .. Len(events[e])
            /\ g[Len(events[e]) + 1] = v /\ \A n \in DOMAIN events[e] : g[n] = events[e][n]
    BY ONLY <1>1, AppendFacts, v \in Event
  <2> QED BY <1>4, <2>1
<1>6. events' = [events EXCEPT ![e] = h]
  BY <1>4
<1>7. events'[e] = h /\ \A x \in Execs : x # e => events'[x] = events[x]
  BY <1>1, <1>6
<1>8. /\ events' \in [Execs -> Seq(Event)]
      /\ \A x \in Execs : Len(events'[x]) <= MaxEvents
  BY <1>1, <1>5, <1>6, <1>7, JournalAssumption
<1>9. /\ row'[e] = [phase |-> v.phase, state |-> v.state]
      /\ row' \in [Execs -> Row \cup {NoRow}]
      /\ \A x \in Execs : x # e => row'[x] = row[x]
  BY <1>1, <1>2
<1>10. Backed'
  BY <1>3, <1>5, <1>7, <1>9 DEF IInv, Backed
<1> QED BY <1>1, <1>5, <1>7, <1>8, <1>9, <1>10

(* A bounded event takes one from its bound. *)
LEMMA BudgetSpent ==
    ASSUME TypeOK
    PROVE  /\ budget.faults > 0 =>
                 /\ [budget EXCEPT !.faults = @ - 1] \in
                        [faults : 0 .. MaxFaults, crashes : 0 .. MaxCrashes]
                 /\ [budget EXCEPT !.faults = @ - 1].faults < budget.faults
           /\ budget.crashes > 0 =>
                 [budget EXCEPT !.crashes = @ - 1] \in
                        [faults : 0 .. MaxFaults, crashes : 0 .. MaxCrashes]
<1>1. PICK f \in 0 .. MaxFaults, c \in 0 .. MaxCrashes :
        budget = [faults |-> f, crashes |-> c]
  BY DEF TypeOK
<1>2. f > 0 => f - 1 \in 0 .. MaxFaults /\ f - 1 < f
  BY JournalAssumption
<1>3. c > 0 => c - 1 \in 0 .. MaxCrashes
  BY JournalAssumption
<1> QED BY <1>1, <1>2, <1>3

-----------------------------------------------------------------------------
(* What each step leaves of the invariant, for any number of processes. *)
LEMMA InitHolds == Init => IInv
<1> SUFFICES ASSUME Init PROVE IInv
  OBVIOUS
<1>1. TypeOK
  BY JournalAssumption DEF Init, TypeOK
<1>2. Backed
  BY DEF Init, Backed
<1> QED BY <1>1, <1>2 DEF IInv

LEMMA BeginKeeps ==
    ASSUME IInv, NEW p \in Procs, NEW e \in Execs, Begin(p, e)
    PROVE  IInv'
<1> DEFINE v == [prev |-> 0, phase |-> "queued", state |-> "running"]
<1>1. v \in Event /\ MaxEvents > 0 /\ MaxEvents \in Nat
  BY JournalAssumption DEF Event, Phases, Begin
<1>2. PICK h : h = <<v>>
  OBVIOUS
<1>3. h \in Seq(Event) /\ Len(h) = 1 /\ h # <<>> /\ h[Len(h)] = v
  BY <1>1, <1>2
<1>4. [phase |-> "queued", state |-> "running"] \in Row
      /\ [phase |-> "queued", state |-> "running"] # NoRow
  BY DEF Row, Phases, NoRow
<1>5. /\ row' = [row EXCEPT ![e] = [phase |-> "queued", state |-> "running"]]
      /\ events' = [events EXCEPT ![e] = h] /\ owner' = [owner EXCEPT ![e] = p]
      /\ UNCHANGED <<proc, todo, call, budget>>
  BY <1>2 DEF Begin
<1>6. v.phase = "queued" /\ v.state = "running"
  OBVIOUS
<1> HIDE DEF v
<1>7. TypeOK'
  <2>1. row' \in [Execs -> Row \cup {NoRow}] /\ owner' \in [Execs -> Procs \cup {Nobody}]
    BY <1>4, <1>5 DEF IInv, TypeOK
  <2>2. events' \in [Execs -> Seq(Event)]
    BY <1>3, <1>5 DEF IInv, TypeOK
  <2>3. \A x \in Execs : Len(events'[x]) <= MaxEvents
    <3>1. events'[e] = h /\ \A x \in Execs : x # e => events'[x] = events[x]
      BY <1>5 DEF IInv, TypeOK
    <3>2. Len(h) <= MaxEvents
      BY <1>1, <1>3
    <3> QED BY <3>1, <3>2 DEF IInv, TypeOK
  <2> QED BY <1>5, <2>1, <2>2, <2>3 DEF IInv, TypeOK
<1>8. Backed'
  BY <1>3, <1>4, <1>5, <1>6 DEF IInv, Backed, TypeOK
<1> QED BY <1>7, <1>8 DEF IInv

(* The note p begins to write. *)
LEMMA NoteReadsRowFacts ==
    ASSUME TypeOK, NEW p \in Procs, NEW e \in Execs, NEW to \in Row, NoteReadsRow(p, e, to)
    PROVE  /\ call' \in [Procs -> Call \cup {Idle}]
           /\ call'[p].exec = e /\ call'[p].row = to /\ call'[p].step = "last"
           /\ row[e].state = "running" /\ call[p] = Idle
           /\ \A q \in Procs : q # p => call'[q] = call[q]
<1>1. [step |-> "last", exec |-> e, row |-> to, prev |-> 0] \in Call
  BY JournalAssumption DEF Call
<1> QED BY <1>1 DEF NoteReadsRow, Open, TypeOK

(* What a run notes is a row. *)
LEMMA NotesAreRows ==
    /\ Progress \subseteq Row
    /\ \A e : Ending(e) \subseteq Row
    /\ \A ph : [phase |-> "finished", state |-> Verdict(ph)] \in Row
    /\ \A ph : Verdict(ph) \in Terminal
BY DEF Progress, Ending, Verdict, Row, Phases, Terminal

LEMMA NoteReadsLastFacts ==
    ASSUME TypeOK, NEW p \in Procs, NoteReadsLast(p)
    PROVE  /\ call' \in [Procs -> Call \cup {Idle}]
           /\ call[p] \in Call /\ call[p] # Idle
           /\ call'[p].exec = call[p].exec /\ call'[p].row = call[p].row
           /\ call'[p].prev = Len(events[call[p].exec])
           /\ \A q \in Procs : q # p => call'[q] = call[q]
<1>1. call[p] \in Call /\ call[p] # Idle
  BY TypesOfSteps DEF NoteReadsLast, Idle
<1>2. PICK e \in Execs, to \in Row, n \in 0 .. MaxEvents, s \in {"last", "commit"} :
        call[p] = [step |-> s, exec |-> e, row |-> to, prev |-> n]
  BY <1>1 DEF Call
<1>3. Last(e) \in 0 .. MaxEvents
  BY JournalAssumption, TypesOfSteps DEF Last, TypeOK
<1>4. PICK c : c = [step |-> "commit", exec |-> e, row |-> to, prev |-> Last(e)]
  OBVIOUS
<1>5. c \in Call /\ c.exec = e /\ c.row = to /\ c.prev = Last(e)
  BY <1>3, <1>4 DEF Call
<1>6. call' = [call EXCEPT ![p] = c]
  BY <1>2, <1>4 DEF NoteReadsLast
<1> QED BY <1>1, <1>2, <1>5, <1>6 DEF TypeOK, Last

LEMMA NoteCommitsFacts ==
    ASSUME IInv, NEW p \in Procs, NoteCommits(p)
    PROVE  /\ IInv'
           /\ call[p] \in Call /\ call[p] # Idle /\ call'[p] = Idle
           /\ \A q \in Procs : q # p => call'[q] = call[q]
           /\ LET e == call[p].exec  to == call[p].row  n == Len(events[e])
              IN  /\ e \in Execs /\ to \in Row /\ n \in Nat
                  /\ row'[e] = to /\ \A x \in Execs : x # e => row'[x] = row[x]
                  /\ \A x \in Execs : x # e => events'[x] = events[x]
                  /\ Len(events'[e]) = n + 1
                  /\ DOMAIN events'[e] = 1 .. n + 1 /\ DOMAIN events[e] = 1 .. n
                  /\ events'[e][n + 1].prev = call[p].prev
                  /\ events'[e][n + 1].state = to.state
                  /\ \A i \in 1 .. n : events'[e][i] = events[e][i]
<1>1. call[p] \in Call /\ call[p] # Idle
  BY TypesOfSteps DEF NoteCommits, Idle, IInv
<1>2. PICK e \in Execs, to \in Row, k \in 0 .. MaxEvents, s \in {"last", "commit"} :
        call[p] = [step |-> s, exec |-> e, row |-> to, prev |-> k]
  BY <1>1 DEF Call
<1>3. PICK v : v = [prev |-> k, phase |-> to.phase, state |-> to.state]
  OBVIOUS
<1>4. /\ v \in Event /\ v.phase = to.phase /\ v.state = to.state /\ v.prev = k
      /\ to = [phase |-> v.phase, state |-> v.state]
  BY <1>3 DEF Event, Row
<1>5. /\ Len(events[e]) < MaxEvents
      /\ events' = [events EXCEPT ![e] = Append(@, v)]
      /\ row' = [row EXCEPT ![e] = to]
      /\ todo' = [todo EXCEPT ![p] = {w \in @ : w[1] # e}]
      /\ call' = [call EXCEPT ![p] = Idle]
      /\ UNCHANGED <<owner, proc, budget>>
  BY <1>2, <1>3 DEF NoteCommits
<1>6. /\ row' \in [Execs -> Row \cup {NoRow}]
      /\ events' \in [Execs -> Seq(Event)]
      /\ \A x \in Execs : Len(events'[x]) <= MaxEvents
      /\ Backed'
      /\ Len(events'[e]) = Len(events[e]) + 1 /\ Len(events[e]) \in Nat
      /\ DOMAIN events'[e] = 1 .. Len(events[e]) + 1
      /\ DOMAIN events[e] = 1 .. Len(events[e])
      /\ events'[e][Len(events[e]) + 1] = v
      /\ \A n \in DOMAIN events[e] : events'[e][n] = events[e][n]
  BY <1>4, <1>5, Appended
<1>7. /\ todo' \in [Procs -> SUBSET (Execs \X Phases)]
      /\ call' \in [Procs -> Call \cup {Idle}] /\ call'[p] = Idle
      /\ \A q \in Procs : q # p => call'[q] = call[q]
  BY <1>5 DEF IInv, TypeOK
<1>8. IInv'
  BY <1>5, <1>6, <1>7 DEF IInv, TypeOK
<1>9. /\ row'[e] = to /\ \A x \in Execs : x # e => row'[x] = row[x]
      /\ \A x \in Execs : x # e => events'[x] = events[x]
  BY <1>5 DEF IInv, TypeOK
<1>10. call[p].exec = e /\ call[p].row = to /\ call[p].prev = k
  BY <1>2
<1> DEFINE n == Len(events[e])
<1>11. /\ Len(events'[e]) = n + 1 /\ n \in Nat
       /\ DOMAIN events'[e] = 1 .. n + 1 /\ DOMAIN events[e] = 1 .. n
       /\ events'[e][n + 1].prev = call[p].prev
       /\ events'[e][n + 1].state = to.state
       /\ \A i \in 1 .. n : events'[e][i] = events[e][i]
  BY <1>4, <1>6, <1>10
<1> HIDE DEF n
<1> QED BY <1>1, <1>7, <1>8, <1>9, <1>10, <1>11 DEF n

LEMMA NextKeeps == IInv /\ [Next]_vars => IInv'
<1> SUFFICES ASSUME IInv, [Next]_vars PROVE IInv'
  OBVIOUS
<1>1. ASSUME NEW p \in Procs, NEW e \in Execs, RunNotes(p, e) PROVE IInv'
  <2>1. PICK to \in Row : NoteReadsRow(p, e, to)
    BY <1>1, NotesAreRows DEF RunNotes
  <2>2. UNCHANGED <<row, events, owner, proc, todo, budget>>
    BY <1>1 DEF RunNotes
  <2> QED BY <2>1, <2>2, NoteReadsRowFacts DEF IInv, TypeOK, Backed
<1>2. ASSUME NEW p \in Procs, NoteReadsLast(p) PROVE IInv'
  BY <1>2, NoteReadsLastFacts DEF IInv, TypeOK, Backed, NoteReadsLast
<1>3. ASSUME NEW p \in Procs, NoteFails(p) PROVE IInv'
  <2>1. UNCHANGED <<row, events, todo>> /\ call' = [call EXCEPT ![p] = Idle]
        /\ budget' \in [faults : 0 .. MaxFaults, crashes : 0 .. MaxCrashes]
    BY <1>3, BudgetSpent DEF NoteFails, IInv
  <2>2. /\ proc' \in [Procs -> {"down", "starting", "up", "failed"}]
        /\ owner' \in [Execs -> Procs \cup {Nobody}]
    BY <1>3 DEF NoteFails, IInv, TypeOK
  <2> QED BY <2>1, <2>2 DEF IInv, TypeOK, Backed
<1>4. ASSUME NEW p \in Procs, Start(p) PROVE IInv'
  <2>1. Unfinished \subseteq Execs \X Phases
    BY DEF Unfinished, IInv, TypeOK, NoRow, Row
  <2> QED BY <1>4, <2>1 DEF Start, IInv, TypeOK, Backed
<1>5. ASSUME NEW p \in Procs, Reconcile(p) PROVE IInv'
  <2>1. PICK w \in todo[p] :
           \/ NoteReadsRow(p, w[1], [phase |-> "finished", state |-> Verdict(w[2])])
                /\ UNCHANGED proc
           \/ proc' = [proc EXCEPT ![p] = "failed"] /\ UNCHANGED call
    BY <1>5 DEF Reconcile
  <2>2. UNCHANGED <<row, events, owner, todo, budget>>
    BY <1>5 DEF Reconcile
  <2>3. w[1] \in Execs
    BY DEF IInv, TypeOK
  <2>4. call' \in [Procs -> Call \cup {Idle}]
        /\ proc' \in [Procs -> {"down", "starting", "up", "failed"}]
    BY <2>1, <2>3, NotesAreRows, NoteReadsRowFacts DEF IInv, TypeOK
  <2> QED BY <2>2, <2>4 DEF IInv, TypeOK, Backed
<1>6. ASSUME NEW p \in Procs, Started(p) \/ \E e \in Execs : RunEnds(p, e) PROVE IInv'
  BY <1>6 DEF RunEnds, Started, IInv, TypeOK, Backed
<1>7. ASSUME NEW p \in Procs, Crash(p) PROVE IInv'
  BY <1>7, BudgetSpent DEF Crash, IInv, TypeOK, Backed
<1>8. CASE UNCHANGED vars
  BY <1>8 DEF vars, IInv, TypeOK, Backed
<1>9. ASSUME NEW p \in Procs, NoteCommits(p) PROVE IInv'
  BY <1>9, NoteCommitsFacts
<1> QED BY <1>1, <1>2, <1>3, <1>4, <1>5, <1>6, <1>7, <1>8, <1>9, BeginKeeps DEF Next

(* The journal's state has the types the code gives it, in every behaviour. *)
THEOREM TypeCorrect == Spec => []TypeOK
BY InitHolds, NextKeeps, PTL DEF Spec, IInv

(* begin() and _note() keep a row and the end of its history together, however *)
(* many processes share the file and whenever they die.                        *)
THEOREM RowsAreBacked == Spec => []Backed
BY InitHolds, NextKeeps, PTL DEF Spec, IInv
-----------------------------------------------------------------------------
(* One process at a time: the note it is in the middle of is still fresh, and *)
(* its list of what it has to reconcile is exactly what is running.           *)
Fresh ==
    \A p \in Procs : call[p] # Idle =>
        LET c == call[p]
        IN  /\ row[c.exec].state = "running"
            /\ c.step = "commit" => c.prev = Len(events[c.exec])
            /\ c.row.state \in Terminal =>
                  (c.row.state = "uncertain" <=> row[c.exec].phase = "applying")
            /\ proc[p] \in {"up", "starting"}
            /\ proc[p] = "starting" => c.row.state \in Terminal

Listed ==
    \A p \in Procs :
        /\ proc[p] = "up" => todo[p] = {}
        /\ \A w \in todo[p] : row[w[1]].state = "running" /\ row[w[1]].phase = w[2]
        /\ proc[p] = "starting" =>
              \A e \in Execs : row[e].state = "running" => \E w \in todo[p] : w[1] = e

SInv == IInv /\ Fresh /\ Listed /\ ChainIntact /\ UncertainIsSaid

FinalStep == \A e \in Execs : row[e].state \in Terminal => row'[e] = row[e]

SettledStep ==
    \A p \in Procs : proc[p] = "starting" =>
        /\ proc'[p] = "up" => \A e \in Execs : row'[e].state # "running"
        /\ proc'[p] = "failed" => budget'.faults < budget.faults

(* A history that does not change keeps what is said of histories. *)
LEMMA HistoriesKept ==
    ASSUME SInv, UNCHANGED <<row, events>>
    PROVE  ChainIntact' /\ UncertainIsSaid' /\ FinalStep
BY DEF SInv, ChainIntact, UncertainIsSaid, Linked, FinalStep

LEMMA SoloInit == Init => SInv
<1> SUFFICES ASSUME Init PROVE SInv
  OBVIOUS
<1>1. Fresh
  BY DEF Init, Fresh
<1>2. Listed
  BY DEF Init, Listed
<1>3. ChainIntact
  BY DEF Init, ChainIntact, Linked
<1>4. UncertainIsSaid
  BY DEF Init, UncertainIsSaid
<1> QED BY <1>1, <1>2, <1>3, <1>4, InitHolds DEF SInv

LEMMA SoloBegin ==
    ASSUME Solo, SInv, NEW p \in Procs, NEW e \in Execs, Begin(p, e)
    PROVE  Fresh' /\ Listed' /\ ChainIntact' /\ UncertainIsSaid' /\ FinalStep /\ SettledStep
<1>1. /\ row[e] = NoRow /\ call[p] = Idle /\ proc[p] = "up"
      /\ row'[e] = [phase |-> "queued", state |-> "running"]
      /\ events'[e] = <<[prev |-> 0, phase |-> "queued", state |-> "running"]>>
      /\ \A x \in Execs : x # e => row'[x] = row[x] /\ events'[x] = events[x]
      /\ UNCHANGED <<proc, todo, call, budget>>
  BY DEF Begin, SInv, IInv, TypeOK
<1>2. \A q \in Procs : q = p
  BY DEF Solo
<1>3. Fresh' /\ Listed'
  BY <1>1, <1>2 DEF SInv, Fresh, Listed
<1>4. Linked(events'[e]) /\ Len(events'[e]) = 1
  BY <1>1 DEF Linked
<1>5. ChainIntact'
  BY <1>1, <1>4 DEF SInv, ChainIntact, Linked
<1>6. UncertainIsSaid'
  BY <1>1, <1>4 DEF SInv, UncertainIsSaid
<1>7. FinalStep
  BY <1>1 DEF FinalStep, NoRow, Terminal
<1>8. SettledStep
  BY <1>1, <1>2 DEF SettledStep
<1> QED BY <1>3, <1>5, <1>6, <1>7, <1>8

(* A note of p that has been read but not written. *)
LEMMA SoloReads ==
    ASSUME Solo, SInv, NEW p \in Procs, NEW e \in Execs, NEW to \in Row,
           NoteReadsRow(p, e, to), UNCHANGED <<row, events, proc, todo>>,
           proc[p] \in {"up", "starting"},
           proc[p] = "starting" => to.state \in Terminal,
           to.state \in Terminal => (to.state = "uncertain" <=> row[e].phase = "applying")
    PROVE  Fresh' /\ Listed' /\ SettledStep
<1>1. /\ call'[p].exec = e /\ call'[p].row = to /\ call'[p].step = "last"
      /\ row[e].state = "running"
  BY NoteReadsRowFacts DEF SInv, IInv
<1>2. \A q \in Procs : q = p
  BY DEF Solo
<1>3. Fresh'
  BY <1>1, <1>2 DEF Fresh
<1>4. Listed'
  BY DEF SInv, Listed
<1>5. SettledStep
  BY DEF SettledStep
<1> QED BY <1>3, <1>4, <1>5

LEMMA SoloCommits ==
    ASSUME Solo, SInv, NEW p \in Procs, NoteCommits(p)
    PROVE  Fresh' /\ Listed' /\ ChainIntact' /\ UncertainIsSaid' /\ FinalStep /\ SettledStep
<1>0. PICK e, to, n : e = call[p].exec /\ to = call[p].row /\ n = Len(events[e])
  OBVIOUS
<1>1. /\ e \in Execs /\ to \in Row /\ n \in Nat
      /\ row'[e] = to /\ \A x \in Execs : x # e => row'[x] = row[x]
      /\ \A x \in Execs : x # e => events'[x] = events[x]
      /\ Len(events'[e]) = n + 1
      /\ DOMAIN events'[e] = 1 .. n + 1 /\ DOMAIN events[e] = 1 .. n
      /\ events'[e][n + 1].prev = call[p].prev
      /\ events'[e][n + 1].state = to.state
      /\ \A i \in 1 .. n : events'[e][i] = events[e][i]
  BY <1>0, NoteCommitsFacts DEF SInv
<1>2. call[p] # Idle /\ call'[p] = Idle /\ call[p].step = "commit"
  BY NoteCommitsFacts DEF SInv, NoteCommits
<1>3. \A q \in Procs : q = p
  BY DEF Solo
<1>4. /\ row[e].state = "running" /\ call[p].prev = n
      /\ to.state \in Terminal => (to.state = "uncertain" <=> row[e].phase = "applying")
      /\ proc[p] = "starting" => to.state \in Terminal
  BY <1>0, <1>1, <1>2 DEF SInv, Fresh
<1>5. todo'[p] = {w \in todo[p] : w[1] # e} /\ UNCHANGED <<proc, budget>>
  BY <1>0, <1>1 DEF NoteCommits, SInv, IInv, TypeOK
<1>6. \A w \in todo[p] : w[1] \in Execs
  BY DEF SInv, IInv, TypeOK
<1>7. Fresh'
  BY <1>2, <1>3 DEF Fresh
<1>8. Listed'
  <2>1. proc'[p] = "up" => todo'[p] = {}
    BY <1>5 DEF SInv, Listed
  <2>2. \A w \in todo'[p] : row'[w[1]].state = "running" /\ row'[w[1]].phase = w[2]
    BY <1>1, <1>5, <1>6 DEF SInv, Listed
  <2>3. ASSUME proc'[p] = "starting", NEW x \in Execs, row'[x].state = "running"
        PROVE  \E w \in todo'[p] : w[1] = x
    <3>1. x # e
      BY <1>1, <1>4, <1>5, <2>3 DEF Terminal
    <3> QED BY <1>1, <1>5, <2>3, <3>1 DEF SInv, Listed
  <2> QED BY <1>3, <2>1, <2>2, <2>3 DEF Listed
<1>9. ChainIntact'
  <2>1. \A i \in 1 .. n : events'[e][i].prev = i - 1
    BY <1>1 DEF SInv, ChainIntact, Linked
  <2>2. events'[e][n + 1].prev = n /\ (n + 1) - 1 = n
    BY <1>1, <1>4
  <2>3. \A i \in 1 .. n + 1 : i \in 1 .. n \/ i = n + 1
    BY <1>1
  <2>4. Linked(events'[e])
    BY <1>1, <2>1, <2>2, <2>3 DEF Linked
  <2> QED BY <1>1, <2>4 DEF SInv, ChainIntact
<1>10. UncertainIsSaid'
  <2>1. n > 0 /\ events[e][n].phase = row[e].phase
    BY <1>0, <1>1, <1>4 DEF SInv, IInv, Backed, NoRow
  <2>2. events'[e][n].phase = row[e].phase
    BY <1>1, <2>1
  <2>3. (n + 1) - 1 = n
    BY <1>1
  <2>4. events'[e][n + 1].state \in Terminal =>
          (events'[e][n + 1].state = "uncertain" <=> events'[e][n].phase = "applying")
    BY <1>1, <1>4, <2>2
  <2>5. LET h == events'[e]  k == Len(h)
        IN  k > 1 /\ h[k].state \in Terminal =>
              (h[k].state = "uncertain") <=> (h[k - 1].phase = "applying")
    BY <1>1, <2>3, <2>4
  <2> QED BY <1>1, <2>5 DEF SInv, UncertainIsSaid
<1>11. FinalStep
  BY <1>1, <1>4 DEF FinalStep, Terminal
<1>12. SettledStep
  BY <1>3, <1>5 DEF SettledStep
<1> QED BY <1>7, <1>8, <1>9, <1>10, <1>11, <1>12

(* What a start lists can be read and is running. *)
LEMMA SoloReadable ==
    ASSUME SInv, NEW p \in Procs, NEW w \in todo[p]
    PROVE  /\ w[1] \in Execs /\ Readable(w[1]) /\ Open(w[1])
           /\ Verdict(w[2]) \in Terminal
           /\ Verdict(w[2]) = "uncertain" <=> row[w[1]].phase = "applying"
<1>1. w[1] \in Execs /\ row[w[1]].state = "running" /\ row[w[1]].phase = w[2]
  BY DEF SInv, IInv, TypeOK, Listed
<1>2. row[w[1]] \in Row /\ row[w[1]] # NoRow
  BY <1>1 DEF SInv, IInv, TypeOK, NoRow
<1>3. Readable(w[1])
  BY <1>1, <1>2 DEF SInv, IInv, Backed, ChainIntact, Readable, Row
<1> QED BY <1>1, <1>3 DEF Open, Verdict, Terminal

LEMMA SoloNext ==
    ASSUME Solo, SInv, [Next]_vars
    PROVE  SInv' /\ [FinalStep]_vars /\ [SettledStep]_vars
<1> DEFINE Kept == /\ Fresh' /\ Listed' /\ ChainIntact' /\ UncertainIsSaid'
                   /\ FinalStep /\ SettledStep
<1>0. \A p, q \in Procs : p = q
  BY DEF Solo
<1>1. ASSUME NEW p \in Procs, NEW e \in Execs, RunNotes(p, e) PROVE Kept
  <2>1. PICK to \in Progress \cup Ending(e) : NoteReadsRow(p, e, to)
    BY <1>1 DEF RunNotes
  <2>2. to \in Row
    BY NotesAreRows
  <2>3. to.state \in Terminal => (to.state = "uncertain" <=> row[e].phase = "applying")
    BY DEF Progress, Ending, Terminal
  <2>4. UNCHANGED <<row, events, proc, todo>> /\ proc[p] = "up"
    BY <1>1 DEF RunNotes
  <2> QED BY <2>1, <2>2, <2>3, <2>4, SoloReads, HistoriesKept
<1>2. ASSUME NEW p \in Procs, Reconcile(p) PROVE Kept
  <2>1. PICK w \in todo[p] : NoteReadsRow(p, w[1], [phase |-> "finished", state |-> Verdict(w[2])])
    BY <1>2, SoloReadable DEF Reconcile
  <2>2. UNCHANGED <<row, events, proc, todo>> /\ proc[p] = "starting"
    BY <1>2, SoloReadable DEF Reconcile
  <2>3. PICK to \in Row : to = [phase |-> "finished", state |-> Verdict(w[2])]
    BY NotesAreRows
  <2>4. to.state = Verdict(w[2])
    BY <2>3
  <2> QED BY <2>1, <2>2, <2>3, <2>4, SoloReadable, SoloReads, HistoriesKept
<1>3. ASSUME NEW p \in Procs, NoteReadsLast(p) PROVE Kept
  <2>1. UNCHANGED <<row, events, proc, todo, budget>>
    BY <1>3 DEF NoteReadsLast
  <2>2. Fresh'
    BY <1>0, <1>3, <2>1, NoteReadsLastFacts DEF SInv, IInv, Fresh
  <2>3. Listed' /\ SettledStep
    BY <2>1 DEF SInv, Listed, SettledStep
  <2> QED BY <2>1, <2>2, <2>3, HistoriesKept
<1>4. ASSUME NEW p \in Procs, NoteFails(p) PROVE Kept
  <2>1. /\ UNCHANGED <<row, events, todo>> /\ call'[p] = Idle
        /\ budget'.faults < budget.faults
        /\ proc'[p] = proc[p] \/ proc'[p] = "failed"
    BY <1>4, BudgetSpent DEF NoteFails, SInv, IInv, TypeOK
  <2>2. Fresh' /\ Listed' /\ SettledStep
    BY <1>0, <2>1 DEF SInv, Fresh, Listed, SettledStep
  <2> QED BY <2>1, <2>2, HistoriesKept
<1>5. ASSUME NEW p \in Procs, Start(p) PROVE Kept
  <2>1. /\ UNCHANGED <<row, events, call>> /\ proc'[p] = "starting" /\ todo'[p] = Unfinished
        /\ proc[p] \in {"down", "failed"}
    BY <1>5 DEF Start, SInv, IInv, TypeOK
  <2>2. Fresh'
    BY <1>0, <2>1 DEF SInv, Fresh
  <2>3. \A w \in Unfinished : row[w[1]].state = "running" /\ row[w[1]].phase = w[2]
    BY DEF Unfinished
  <2>4. \A e \in Execs : row[e].state = "running" => \E w \in Unfinished : w[1] = e
    <3> SUFFICES ASSUME NEW e \in Execs, row[e].state = "running"
                 PROVE  \E w \in Unfinished : w[1] = e
      OBVIOUS
    <3>1. <<e, row[e].phase>> \in Unfinished
      BY DEF Unfinished
    <3> QED BY <3>1
  <2>5. Listed' /\ SettledStep
    BY <1>0, <2>1, <2>3, <2>4 DEF Listed, SettledStep
  <2> QED BY <2>1, <2>2, <2>5, HistoriesKept
<1>6. ASSUME NEW p \in Procs, Started(p) PROVE Kept
  <2>1. /\ UNCHANGED <<row, events, call, todo>> /\ proc'[p] = "up" /\ todo[p] = {}
        /\ proc[p] = "starting"
    BY <1>6 DEF Started, SInv, IInv, TypeOK
  <2>2. \A e \in Execs : row[e].state # "running"
    BY <2>1 DEF SInv, Listed
  <2>3. Fresh' /\ Listed' /\ SettledStep
    BY <1>0, <2>1, <2>2 DEF SInv, Fresh, Listed, SettledStep
  <2> QED BY <2>1, <2>3, HistoriesKept
<1>7. ASSUME NEW p \in Procs, Crash(p) PROVE Kept
  <2>1. /\ UNCHANGED <<row, events>> /\ proc'[p] = "down" /\ todo'[p] = {} /\ call'[p] = Idle
    BY <1>7 DEF Crash, SInv, IInv, TypeOK
  <2>2. Fresh' /\ Listed' /\ SettledStep
    BY <1>0, <2>1 DEF Fresh, Listed, SettledStep
  <2> QED BY <2>1, <2>2, HistoriesKept
<1>8. ASSUME NEW p \in Procs, NEW e \in Execs, RunEnds(p, e) PROVE Kept
  <2>1. UNCHANGED <<row, events, proc, todo, call>>
    BY <1>8 DEF RunEnds
  <2>2. Fresh' /\ Listed' /\ SettledStep
    BY <2>1 DEF SInv, Fresh, Listed, SettledStep
  <2> QED BY <2>1, <2>2, HistoriesKept
<1>9. CASE UNCHANGED vars
  <2>1. UNCHANGED <<row, events, proc, todo, call, budget>>
    BY <1>9 DEF vars
  <2>2. Fresh' /\ Listed' /\ SettledStep
    BY <2>1 DEF SInv, Fresh, Listed, SettledStep
  <2> QED BY <2>1, <2>2, HistoriesKept, NextKeeps DEF SInv
<1>10. CASE Next
  <2>1. Kept
    BY <1>1, <1>2, <1>3, <1>4, <1>5, <1>6, <1>7, <1>8, <1>10, SoloBegin, SoloCommits DEF Next
  <2> QED BY <2>1, NextKeeps DEF SInv
<1> QED BY <1>9, <1>10

(* With one server process, the stronger invariant holds in every state. *)
LEMMA SoloHolds == ASSUME Solo PROVE Spec => []SInv
<1>1. SInv /\ [Next]_vars => SInv'
  BY SoloNext
<1> QED BY <1>1, SoloInit, PTL DEF Spec

(* If one process uses the file at a time, a terminal execution cannot replay *)
(* or advance: _note's check still holds when its transaction writes.         *)
THEOREM TerminalStays == ASSUME Solo PROVE Spec => TerminalIsFinal
<1>1. SInv /\ [Next]_vars => [FinalStep]_vars
  BY SoloNext
<1> QED BY <1>1, SoloHolds, PTL DEF Spec, TerminalIsFinal, FinalStep

(* If one process uses the file at a time, every history stays linked, so that *)
(* read() accepts every execution.                                             *)
THEOREM HistoriesLinked == ASSUME Solo PROVE Spec => []ChainIntact
BY SoloHolds, PTL DEF SInv

(* If one process uses the file at a time, an execution ends uncertain if and *)
(* only if it was applying, whether its run or a restart ended it.            *)
THEOREM UncertaintyIsRecorded == ASSUME Solo PROVE Spec => []UncertainIsSaid
BY SoloHolds, PTL DEF SInv

(* If one process uses the file at a time, reconcile_restart() leaves nothing *)
(* running when the server comes up, and only a failing note can prevent it.  *)
THEOREM RestartSettles == ASSUME Solo PROVE Spec => StartSettles
<1>1. SInv /\ [Next]_vars => [SettledStep]_vars
  BY SoloNext
<1> QED BY <1>1, SoloHolds, PTL DEF Spec, StartSettles, SettledStep
=============================================================================
