-------------------------- MODULE IncidentDispatch --------------------------
(***************************************************************************)
(* The dispatcher of agents/incident_dispatch.py over the durable          *)
(* admission table of agents/incident_admission.py.                        *)
(*                                                                         *)
(* Several server processes share one SQLite file.  In a process one event *)
(* loop runs everything: loop[p] says which callback it is in the middle   *)
(* of, so that the other processes, and a crash, can come between two      *)
(* database transactions of one call of submit() or of one turn of         *)
(* _drain(), and nothing else of the same process can.                     *)
(*                                                                         *)
(* A dispatch is named by its admission token.  A worker task is named by  *)
(* the token of the dispatch that caused its creation: submit() creates a  *)
(* task for the dispatch it has just queued, and _finish_worker() for the  *)
(* oldest deferred one, so no name is used twice.                          *)
(***************************************************************************)
EXTENDS Naturals, Sequences, FiniteSets

CONSTANTS Procs,          \* server processes
          Keys,           \* occurrence keys of alerts
          Incidents,      \* incident ids
          MaxDispatch,    \* bound: admissions that are not wholly duplicate
          MaxFaults,      \* bound: failing transactions, preparations, create_task
          MaxCancels,     \* bound: cancellations of a worker task
          MaxCrashes      \* bound: crashes of a process

ASSUME BoundsAssumption ==
    /\ MaxDispatch \in Nat /\ MaxFaults \in Nat
    /\ MaxCancels \in Nat /\ MaxCrashes \in Nat

Token   == 1 .. MaxDispatch
NoToken == 0

VARIABLES
    adm,        \* the table: key -> row
    disp,       \* the dispatches made so far; a token is an index in it
    queue,      \* process -> incident -> _IncidentQueue
    task,       \* task name -> asyncio task of a worker
    loop,       \* process -> what its event loop is in the middle of
    processing, \* process -> incident -> active_processing of the correlator
    log,        \* observer: tokens in the order their handlers were invoked
    budget      \* what is left of the bounds on faults, cancels and crashes

vars == <<adm, disp, queue, task, loop, processing, log, budget>>

-----------------------------------------------------------------------------
NoRow   == [state |-> "none", token |-> NoToken]
NoQueue == [pending |-> <<>>, deferred |-> <<>>, worker |-> NoToken]
NoTask  == [st |-> "none", tok |-> NoToken, cancelling |-> FALSE, must |-> FALSE]
Idle    == [op |-> "idle", tok |-> NoToken, undo |-> {}]
At(op, t)  == [op |-> op, tok |-> t, undo |-> {}]
Undoing(S) == IF S = {} THEN Idle ELSE [op |-> "undo", tok |-> NoToken, undo |-> S]

(* A row of the table; its incident_id is that of its token's dispatch. *)
Row == [state : {"none", "queued", "attempted"}, token : Token \cup {NoToken}]

(* "lost" is the completion of a dispatch whose process died. *)
Dispatch == [proc : Procs, inc : Incidents, keys : SUBSET Keys,
             completion : {"pending", "result", "exception", "cancelled", "lost"}]

(* NoQueue stands for an incident without an entry in _queues. *)
Queue == [pending : Seq(Token), deferred : Seq(Token), worker : Token \cup {NoToken}]

(* st: "scheduled" before the first step, "active" once started, "done" until *)
(* the done callback has run.  tok: the dispatch whose handler is awaited.    *)
(* cancelling: cancelling() # 0, which nothing resets.  must: a CancelledError *)
(* has still to be thrown into the coroutine.                                 *)
Task  == [st : {"none", "scheduled", "active", "done", "gone"},
          tok : Token \cup {NoToken}, cancelling : BOOLEAN, must : BOOLEAN]

(* "admitted": submit() has committed its admission; "undo": rollbacks are due; *)
(* "drain": at the head of the loop of _drain(); "invoke": marked attempted,   *)
(* handler not yet called.                                                      *)
Loop  == [op : {"idle", "admitted", "undo", "drain", "invoke"},
          tok : Token \cup {NoToken}, undo : SUBSET Token]

TypeOK ==
    /\ adm \in [Keys -> Row]
    /\ disp \in Seq(Dispatch) /\ Len(disp) <= MaxDispatch
    /\ queue \in [Procs -> [Incidents -> Queue]]
    /\ task \in [Token -> Task]
    /\ loop \in [Procs -> Loop]
    /\ processing \in [Procs -> [Incidents -> BOOLEAN]]
    /\ log \in Seq(Token)
    /\ budget \in [faults : 0 .. MaxFaults, cancels : 0 .. MaxCancels,
                   crashes : 0 .. MaxCrashes]

Init ==
    /\ adm = [k \in Keys |-> NoRow]
    /\ disp = <<>>
    /\ queue = [p \in Procs |-> [i \in Incidents |-> NoQueue]]
    /\ task = [t \in Token |-> NoTask]
    /\ loop = [p \in Procs |-> Idle]
    /\ processing = [p \in Procs |-> [i \in Incidents |-> FALSE]]
    /\ log = <<>>
    /\ budget = [faults |-> MaxFaults, cancels |-> MaxCancels,
                 crashes |-> MaxCrashes]

-----------------------------------------------------------------------------
(* The transactions of IncidentAdmissionStore.  The keys a transaction would   *)
(* insert, the insertion, the condition under which mark_attempted commits, its *)
(* update, and rollback_queued.  Operators named X_... are wrong versions of    *)
(* the operator after them; the properties are tested against them.             *)
X_FreshReclaimsAttempted(K) == {k \in K : adm[k].state # "queued"}
Fresh(K) == {k \in K : adm[k] = NoRow}

Admitted(t, ks) ==
    [k \in Keys |-> IF k \in ks THEN [state |-> "queued", token |-> t] ELSE adm[k]]

CanMark(t) ==
    \A k \in disp[t].keys : adm[k] = [state |-> "queued", token |-> t]

MarkedAttempted(t) ==
    [k \in Keys |-> IF k \in disp[t].keys THEN [state |-> "attempted", token |-> t]
                                         ELSE adm[k]]

X_RolledBackAll(t) ==
    [k \in Keys |-> IF adm[k].state = "queued" THEN NoRow ELSE adm[k]]
RolledBack(t) ==
    [k \in Keys |-> IF adm[k] = [state |-> "queued", token |-> t] THEN NoRow ELSE adm[k]]

-----------------------------------------------------------------------------
Fault == /\ budget.faults > 0
         /\ budget' = [budget EXCEPT !.faults = @ - 1]

(* done() or cancelling() of a worker. *)
Stopping(w) == task[w].st = "done" \/ task[w].cancelling

Created(t) == [task EXCEPT ![t] = [NoTask EXCEPT !.st = "scheduled"]]

Settled(S, outcome) ==
    [t \in DOMAIN disp |->
        IF t \in S /\ disp[t].completion = "pending"
        THEN [disp[t] EXCEPT !.completion = outcome] ELSE disp[t]]

(* The dispatches in S fail, those in R are cancelled. *)
SettledTwo(S, R) ==
    [t \in DOMAIN disp |-> IF t \in S THEN Settled(S, "exception")[t]
                                     ELSE Settled(R, "cancelled")[t]]

SeqSet(s) == {s[n] : n \in DOMAIN s}

-----------------------------------------------------------------------------
(* submit(), up to the commit of its admission.  A batch none of whose keys is *)
(* new is answered "duplicate" and changes nothing, and so does an admission   *)
(* that fails.                                                                  *)
SubmitAdmit(p, i, K) ==
    LET new == Fresh(K)
        t == Len(disp) + 1
    IN  /\ loop[p] = Idle
        /\ new # {} /\ t \in Token
        /\ adm' = Admitted(t, new)
        /\ disp' = Append(disp, [proc |-> p, inc |-> i, keys |-> new,
                                 completion |-> "pending"])
        /\ loop' = [loop EXCEPT ![p] = At("admitted", t)]
        /\ UNCHANGED <<queue, task, processing, log, budget>>

(* Anchors, payload or the journal fail: the admission is to be rolled back. *)
PreparationFails(p) ==
    /\ loop[p].op = "admitted" /\ Fault
    /\ disp' = Settled({loop[p].tok}, "cancelled")
    /\ loop' = [loop EXCEPT ![p] = Undoing({loop[p].tok})]
    /\ UNCHANGED <<adm, queue, task, processing, log>>

HasWorker(q) == q.worker # NoToken

(* The worker there is may still take the dispatch, or is on its way out and *)
(* its done callback will move the dispatch to a successor.                  *)
X_PlacedAtFront(q, t) ==
    IF Stopping(q.worker) THEN [q EXCEPT !.deferred = <<t>> \o @]
                          ELSE [q EXCEPT !.pending = Append(@, t)]
Placed(q, t) ==
    IF Stopping(q.worker) THEN [q EXCEPT !.deferred = Append(@, t)]
                          ELSE [q EXCEPT !.pending = Append(@, t)]

SubmitJoin(p) ==
    LET t == loop[p].tok  i == disp[t].inc
    IN  /\ loop[p].op = "admitted" /\ HasWorker(queue[p][i])
        /\ queue' = [queue EXCEPT ![p][i] = Placed(@, t)]
        /\ loop' = [loop EXCEPT ![p] = Idle]
        /\ UNCHANGED <<adm, disp, task, processing, log, budget>>

Started(q, t) == [q EXCEPT !.pending = Append(@, t), !.worker = t]

SubmitStart(p) ==
    LET t == loop[p].tok  i == disp[t].inc
    IN  /\ loop[p].op = "admitted" /\ ~HasWorker(queue[p][i])
        /\ \/ /\ queue' = [queue EXCEPT ![p][i] = Started(@, t)]
              /\ processing' = [processing EXCEPT ![p][i] = TRUE]
              /\ task' = Created(t)
              /\ loop' = [loop EXCEPT ![p] = Idle]
              /\ UNCHANGED <<disp, budget>>
           \/ /\ Fault                                \* create_task raises
              /\ queue' = [queue EXCEPT ![p][i] = NoQueue]
              /\ processing' = [processing EXCEPT ![p][i] = FALSE]
              /\ disp' = Settled({t}, "cancelled")
              /\ loop' = [loop EXCEPT ![p] = Undoing({t})]
              /\ UNCHANGED task
        /\ UNCHANGED <<adm, log>>

(* One rollback_queued; a failure leaves the rows queued for good. *)
Rollback(p) ==
    \E t \in loop[p].undo :
        /\ loop[p].op = "undo"
        /\ loop' = [loop EXCEPT ![p] = Undoing(@.undo \ {t})]
        /\ \/ adm' = RolledBack(t) /\ UNCHANGED budget
           \/ Fault /\ UNCHANGED adm
        /\ UNCHANGED <<disp, queue, task, processing, log>>

-----------------------------------------------------------------------------
(* _finish_worker.  Its first two returns, then the release of the queue or *)
(* its hand-over to a new worker.                                           *)
X_FinishAnyWorker(q, w, done) == q.deferred # <<>> /\ ~done
X_FinishDropsDeferred(q, w, done) == q.worker # w
FinishReturns(q, w, done) ==
    \/ q.worker # w
    \/ q.deferred # <<>> /\ ~done

Release(p, i, outcome) ==
    /\ disp' = Settled(SeqSet(queue[p][i].pending) \cup outcome, "cancelled")
    /\ queue' = [queue EXCEPT ![p][i] = NoQueue]
    /\ processing' = [processing EXCEPT ![p][i] = FALSE]

(* The finally block of _drain, then the end of the coroutine.  interrupted *)
(* holds the dispatch whose handler was cancelled.                          *)
LeaveDrain(p, w, interrupted) ==
    LET i == disp[w].inc
    IN  /\ task' = [task EXCEPT ![w] = [@ EXCEPT !.st = "done", !.tok = NoToken,
                                                !.must = FALSE]]
        /\ IF FinishReturns(queue[p][i], w, FALSE)
           THEN disp' = Settled(interrupted, "cancelled") /\ UNCHANGED <<queue, processing>>
           ELSE Release(p, i, interrupted)

(* The first step of a worker task.  Cancelled before it, the coroutine never *)
(* runs, and neither does its finally block.                                  *)
WorkerFirstStep(p, w) ==
    /\ loop[p] = Idle /\ disp[w].proc = p /\ task[w].st = "scheduled"
    /\ IF task[w].must
       THEN /\ task' = [task EXCEPT ![w] = [@ EXCEPT !.st = "done", !.must = FALSE]]
            /\ UNCHANGED loop
       ELSE /\ task' = [task EXCEPT ![w].st = "active"]
            /\ loop' = [loop EXCEPT ![p] = At("drain", w)]
    /\ UNCHANGED <<adm, disp, queue, processing, log, budget>>

DrainTake(p) ==
    LET w == loop[p].tok  i == disp[w].inc  t == Head(queue[p][i].pending)
    IN  /\ loop[p].op = "drain"
        /\ queue[p][i].worker = w /\ queue[p][i].pending # <<>>
        /\ queue' = [queue EXCEPT ![p][i].pending = Tail(@)]
        /\ \/ /\ CanMark(t)
              /\ adm' = MarkedAttempted(t)
              /\ task' = [task EXCEPT ![w].tok = t]
              /\ loop' = [loop EXCEPT ![p] = At("invoke", w)]
              /\ UNCHANGED <<disp, budget>>
           \/ /\ IF CanMark(t) THEN Fault ELSE UNCHANGED budget
              /\ disp' = Settled({t}, "exception")
              /\ UNCHANGED <<adm, task, loop>>
        /\ UNCHANGED <<processing, log>>

DrainReturn(p) ==
    LET w == loop[p].tok  i == disp[w].inc
    IN  /\ loop[p].op = "drain"
        /\ queue[p][i].worker # w \/ queue[p][i].pending = <<>>
        /\ LeaveDrain(p, w, {})
        /\ loop' = [loop EXCEPT ![p] = Idle]
        /\ UNCHANGED <<adm, log, budget>>

InvokeHandler(p) ==
    /\ loop[p].op = "invoke"
    /\ log' = Append(log, task[loop[p].tok].tok)
    /\ loop' = [loop EXCEPT ![p] = Idle]
    /\ UNCHANGED <<adm, disp, queue, task, processing, budget>>

Awaiting(p, w) ==
    /\ loop[p] = Idle /\ disp[w].proc = p
    /\ task[w].st = "active" /\ task[w].tok # NoToken

(* The handler ends.  It may swallow a CancelledError and return or raise *)
(* something else: the loop of _drain then goes on.                       *)
X_HandlerEndsWorker(p, w) ==
    /\ Awaiting(p, w)
    /\ LeaveDrain(p, w, {task[w].tok})
    /\ UNCHANGED <<adm, loop, log, budget>>
HandlerEnds(p, w) ==
    /\ Awaiting(p, w)
    /\ \E outcome \in {"result", "exception"} :
           disp' = Settled({task[w].tok}, outcome)
    /\ task' = [task EXCEPT ![w] = [@ EXCEPT !.tok = NoToken, !.must = FALSE]]
    /\ loop' = [loop EXCEPT ![p] = At("drain", w)]
    /\ UNCHANGED <<adm, queue, processing, log, budget>>

HandlerCancelled(p, w) ==
    /\ Awaiting(p, w) /\ task[w].must
    /\ LeaveDrain(p, w, {task[w].tok})
    /\ UNCHANGED <<adm, loop, log, budget>>

(* The done callback registered by _start_worker. *)
DoneCallback(p, w) ==
    LET i == disp[w].inc  q == queue[p][i]  first == Head(q.deferred)
        over == [task EXCEPT ![w].st = "gone"]
    IN  /\ loop[p] = Idle /\ disp[w].proc = p /\ task[w].st = "done"
        /\ \/ /\ FinishReturns(q, w, TRUE)
              /\ task' = over
              /\ UNCHANGED <<disp, queue, loop, processing, budget>>
           \/ /\ ~FinishReturns(q, w, TRUE) /\ q.deferred = <<>>
              /\ task' = over
              /\ Release(p, i, {})
              /\ UNCHANGED <<loop, budget>>
           \/ /\ ~FinishReturns(q, w, TRUE) /\ q.deferred # <<>>
              /\ task' = [over EXCEPT ![first] = [NoTask EXCEPT !.st = "scheduled"]]
              /\ disp' = Settled(SeqSet(q.pending), "cancelled")
              /\ queue' = [queue EXCEPT ![p][i] =
                             [pending |-> q.deferred, deferred |-> <<>>, worker |-> first]]
              /\ UNCHANGED <<loop, processing, budget>>
           \/ /\ ~FinishReturns(q, w, TRUE) /\ q.deferred # <<>>
              /\ Fault                                \* create_task raises
              /\ task' = over
              /\ disp' = SettledTwo(SeqSet(q.deferred), SeqSet(q.pending))
              /\ queue' = [queue EXCEPT ![p][i] = NoQueue]
              /\ processing' = [processing EXCEPT ![p][i] = FALSE]
              /\ loop' = [loop EXCEPT ![p] = Undoing(SeqSet(q.deferred))]
        /\ UNCHANGED <<adm, log>>

-----------------------------------------------------------------------------
(* Task.cancel() on a worker, by the shutdown of its event loop. *)
Cancel(p, w) ==
    /\ loop[p] = Idle /\ disp[w].proc = p
    /\ task[w].st \in {"scheduled", "active"}
    /\ budget.cancels > 0
    /\ budget' = [budget EXCEPT !.cancels = @ - 1]
    /\ task' = [task EXCEPT ![w] = [@ EXCEPT !.cancelling = TRUE, !.must = TRUE]]
    /\ UNCHANGED <<adm, disp, queue, loop, processing, log>>

(* A process dies, between any two transactions, and starts again empty. *)
Crash(p) ==
    LET mine == {t \in DOMAIN disp : disp[t].proc = p}
    IN  /\ budget.crashes > 0
        /\ budget' = [budget EXCEPT !.crashes = @ - 1]
        /\ disp' = Settled(mine, "lost")
        /\ queue' = [queue EXCEPT ![p] = [i \in Incidents |-> NoQueue]]
        /\ task' = [t \in Token |-> IF t \in mine /\ task[t].st # "none"
                                   THEN [NoTask EXCEPT !.st = "gone"] ELSE task[t]]
        /\ loop' = [loop EXCEPT ![p] = Idle]
        /\ processing' = [processing EXCEPT ![p] = [i \in Incidents |-> FALSE]]
        /\ UNCHANGED <<adm, log>>

-----------------------------------------------------------------------------
LoopGoesOn(p) ==
    \/ PreparationFails(p) \/ SubmitJoin(p) \/ SubmitStart(p) \/ Rollback(p)
    \/ DrainTake(p) \/ DrainReturn(p) \/ InvokeHandler(p)

TaskGoesOn(p, w) ==
    WorkerFirstStep(p, w) \/ HandlerEnds(p, w) \/ HandlerCancelled(p, w) \/ DoneCallback(p, w)

Next ==
    \E p \in Procs :
        \/ \E i \in Incidents, K \in SUBSET Keys : SubmitAdmit(p, i, K)
        \/ LoopGoesOn(p)
        \/ \E w \in DOMAIN disp : TaskGoesOn(p, w) \/ Cancel(p, w)
        \/ Crash(p)

Spec == Init /\ [][Next]_vars

(* A callback that runs reaches its end, and the event loop runs every ready *)
(* callback; a handler ends (handle_incident bounds its own steps by         *)
(* timeouts).  Nothing obliges a submission, a cancellation or a crash.      *)
Fairness ==
    \A p \in Procs :
        /\ WF_vars(LoopGoesOn(p))
        /\ \A w \in Token : WF_vars(w \in DOMAIN disp /\ TaskGoesOn(p, w))

FairSpec == Spec /\ Fairness

-----------------------------------------------------------------------------
(* The handler of an occurrence is invoked at most once, whatever processes   *)
(* receive it, die or are cancelled: the promise of mark_attempted.           *)
AtMostOnce ==
    \A m, n \in DOMAIN log :
        m # n => disp[log[m]].keys \cap disp[log[n]].keys = {}

(* Two dispatches of one incident are never handled at the same time in a     *)
(* process, across the hand-over from a cancelled worker to its successor.    *)
NoOverlap ==
    \A v, w \in DOMAIN disp :
        /\ disp[v].proc = disp[w].proc /\ disp[v].inc = disp[w].inc
        /\ task[v].st = "active" /\ task[w].st = "active"
        => v = w

(* A process handles the dispatches of an incident in the order it admitted   *)
(* them, the ones deferred during a cancellation included.                    *)
InOrder ==
    \A m, n \in DOMAIN log :
        /\ m < n
        /\ disp[log[m]].proc = disp[log[n]].proc /\ disp[log[m]].inc = disp[log[n]].inc
        => log[m] < log[n]

(* Whatever waits in a queue still holds its own queued rows: no rollback and *)
(* no other process has taken away what mark_attempted will look for.         *)
QueuedIsBacked ==
    \A p \in Procs, i \in Incidents :
        \A t \in SeqSet(queue[p][i].pending) \cup SeqSet(queue[p][i].deferred) :
            CanMark(t) /\ disp[t].completion = "pending"

(* The correlator counts an incident as being processed exactly while its     *)
(* queue has a worker that will still run or whose callback will, and no      *)
(* other worker is under way: neither an incident kept active by nobody, nor  *)
(* one that the late callback of an old worker took from its successor.       *)
ProcessingIsExact ==
    \A p \in Procs, i \in Incidents :
        LET w == queue[p][i].worker
        IN  /\ processing[p][i] <=> w # NoToken
            /\ w # NoToken => task[w].st \in {"scheduled", "active", "done"}
            /\ w = NoToken => queue[p][i] = NoQueue
            /\ \A v \in DOMAIN disp :
                  /\ disp[v].proc = p /\ disp[v].inc = i
                  /\ task[v].st \in {"scheduled", "active"}
                  => v = w

(* The worker of an incident handles its dispatches one at a time and in the   *)
(* order of their admission, whoever cancels it and whoever takes over.        *)
HandledInTurn == NoOverlap /\ InOrder

(* What a queue says is true of the table, of the worker and of the correlator. *)
QueueIsExact == QueuedIsBacked /\ ProcessingIsExact

(* A row once attempted stays as it is: it is neither released, nor claimed by *)
(* another token, nor queued again.                                            *)
AttemptedIsFinal ==
    [][\A k \in Keys : adm[k].state = "attempted" => adm'[k] = adm[k]]_vars

Unsettled(t) == t \in DOMAIN disp /\ disp[t].completion = "pending"

(* Every submitter gets an answer: a completion does not stay pending, even if *)
(* the worker is cancelled before its first step, in a handler or with         *)
(* dispatches deferred.                                                        *)
EverySettled == \A t \in Token : Unsettled(t) ~> ~Unsettled(t)

Undisturbed ==
    budget = [faults |-> MaxFaults, cancels |-> MaxCancels, crashes |-> MaxCrashes]

(* As long as nothing fails, is cancelled or crashes, every admitted occurrence *)
(* is handed to its handler, through any hand-over between workers.             *)
EveryAdmittedIsAttempted ==
    \A k \in Keys : (adm[k].state = "queued") ~> (adm[k].state = "attempted" \/ ~Undisturbed)

-----------------------------------------------------------------------------
(* The dispatcher implements the ledger of occurrences, whatever its processes *)
(* do: the rows of the table are the ledger, the invocations are its runs.     *)
Ledger == INSTANCE OccurrenceLedger WITH row <- adm, made <- Len(disp), ran <- log

ImplementsLedger == Ledger!Spec
=============================================================================
