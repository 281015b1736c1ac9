# AtlasOps in TLA+

AtlasOps receives alerts, turns each into an incident and lets a chain of
language-model agents (triage, diagnosis, remediation, comms) work on it.  What
keeps that safe is not the agents but the machinery around them: an alert starts
at most one run, a mutation of the cluster happens only when an operator
approved exactly that mutation, the state of a run survives a restart, and a
breaker stops runaway automation.  Around it stand a demonstration lab, governed
fault experiments on a real cluster, and a trainer, each with a protocol of its
own.  This directory models that machinery, checks it with TLC on small instances
and proves most of its safety with TLAPS.

Paths of source files below are relative to the root of the repository.

1. [Inventory](#1-inventory)
2. [Plan](#2-plan)
3. [How the modules correspond to the code](#3-how-the-modules-correspond-to-the-code)
4. [The runs](#4-the-runs)
5. [Fairness](#5-fairness)
6. [The proofs](#6-the-proofs)
7. [Where code and documents disagree](#7-where-code-and-documents-disagree)
8. [What is not modelled](#8-what-is-not-modelled)

## 1. Inventory

One server process (`uvicorn app:app --workers 1`, Dockerfile:79) runs an event
loop.  The webhook and the UI submit alerts to the dispatcher; a worker task per
incident calls `handle_incident`; the agents' tools run in the loop, except that
an operator-approved mutation is applied by a thread.  The endpoints that change
something run in the loop too, except `POST /operations/pause`: it and the ones that
only read, `GET /operations` among them, are plain functions, which the server runs
in threads.  Two SQLite files, the admission table and the journal, survive a
restart; everything else is memory.
The Bug Lab is a server of its own, a governed run a script of its own, the
trainer a program of its own.

| component | code | state it keeps | operations | what makes it correct |
|---|---|---|---|---|
| Dispatcher | `agents/incident_dispatch.py` | per incident: pending dispatches, deferred ones, a worker task | `submit`, `_drain`, `_finish_worker` | workers of one incident neither overlap nor reorder; every submitter gets an answer; the incident is marked active exactly while a worker will run |
| Admission table | `agents/incident_admission.py` | SQLite rows: occurrence key, token, queued or attempted | `admit`, `mark_attempted`, `rollback_queued` | an occurrence is handled at most once, across processes and crashes |
| Approval gate | `agents/approval.py`, `agents/approval_http.py` | pending requests by incident and by token, unused permits | `request_action`, `wait_for_action_decision`, `callback`, `consume_action_permit` | one approval lets exactly the approved action run, once, before it expires; a decision is final and is what the waiter gets |
| Execution journal | `agents/execution_journal.py` | SQLite rows: phase and state of an execution, its hash-chained events | `begin`, `note`, `read`, `reconcile_restart` | terminal executions stay; histories link; what died while applying is called uncertain |
| Circuit breaker | `agents/circuit_breaker.py` | calls per incident, mutations of the hour, runs in flight, streak of failures, open or closed | `start_incident`, `check_before_tool_call`, `finish_incident`, `pause`, `reset` | the limits hold; it opens only for cause; it never refuses for runs that are over |
| Operational run | `agents/coordinator.py` (`handle_incident`, `call_agent`), `agents/action_execution.py` | where each run is, its last action, approval, mutation and observation | from await to await, cancellation, failure | no mutation without approval, after its check found the breaker open, or on top of an unobserved one; unknown outcomes are said; every run ends and gives its place back |
| Operator endpoints | `agents/operations_api.py`, `app.py` | none of their own | decisions, pause, reset, `operations_lifespan` | they only call the components above |
| Audit log | `agents/audit.py` | a JSON-lines file and the hash of its last line | `record`, `tail`, `verify_integrity` | what verifies is what was recorded, and a log that lost or forked does not |
| Thought stream | `agents/stream.py` | a ring of events, bounded subscriber queues | `emit`, `subscribe`, `clear` | what a subscriber is replayed and what it is sent meet |
| Bug lab workspace | `demo/bug_lab/workspace.py` | a marker, a pending record, an append-only journal, the store's files, a lock | create, open and recover, `checkpoint`, `complete`, `reset`, `write`, `close` | acknowledged evidence survives any failure; recovery only appends |
| Bug lab engine | `demo/bug_lab/engine.py` | the incident, its pipeline, the monitor, an approval, browser reports | `inject`, `decide`, `record_browser_report`, `reset`, `_run`, `_monitor` | only approved changes; unverified ones are taken back; everything ends |
| Governed run | `scripts/run_stage4_golden_incident.py`, `agents/stage_a.py` | attempt markers under a budget lock, evidence files, a poison record; one fault in a cluster | reserve, consume, inject, freeze, clean up, the except clause | no fault without somebody to answer for it; attempts within the budget; every spent attempt recorded |
| Managed callbacks | `training/grpo_async_lifecycle.py` | a loop thread, two locks, a future | `begin`, `execute`, `observe`, ... (`_invoke`), `close` | one callback at a time; none survives `close` |
| Observation groups | `training/grpo_observation_first.py`, `training/grpo_observation_journal.py` | the active group and its samples; a hash-chained journal | begin, observe, generate, execute, finish; `append`, `read` | the journal is readable after any failure and claims no more than was done |
| Correlator | `agents/correlator.py` | incidents, observed occurrence keys, activity | `ingest`, `mark_processing`, `_expire_old`, `reset` | an active incident is not expired; one occurrence is not split over two incidents |
| HTTP retry | `agents/_http_retry.py` | none | `post_with_retry` | every attempt is observed once; it stops |
| Environment verifier | `agents/verifier.py` | none that lasts | `verify_environment` | its verdict matches the cluster's state |
| Evidence, grounding, tool policy, tools | `agents/grounding.py`, `agents/evidence_redaction.py`, `agents/tool_policy.py`, `agents/policy_remediation.py`, `agents/tools` | none | checks of proposed calls; wrappers of external services | calls without evidence are refused |
| History, judge, telemetry, metrics | `agents/incident_history.py`, `agents/judge.py`, ... | read models and counters | queries, scores | no run depends on them |
| Demo operator, monitors | `demo/operator.py`, `demo/incident_monitor.py` | one launch record | `start`, `decide`, `snapshot` | one launch |
| Designer, benchmarks, recommender, other training code and scripts, frontend | the rest | files | offline | - |

The interactions that matter, in the order in which they happen:

    alert -> Correlator.ingest -> Dispatcher.submit -> admit (table)
                                       |             -> begin (journal)
                                       v
             worker task: mark_attempted (table) -> handle_incident
                                       |
          start_incident (breaker) -> triage, diagnosis
                                       |
          remediation: check_before_tool_call (breaker) -> prepare the patch
             -> request_action (gate), note (journal)
             -> wait for the operator  <- callback (endpoint)
             -> consume the permit, breaker still closed?  <- pause (a thread)
             -> note "applying" -> thread applies the patch -> note -> observe -> again, or stop
                                       |
          verify -> comms -> note "completed" -> finish_incident (breaker)

In the Bug Lab the engine is the only user of its workspace: each event of an
incident is a `checkpoint`, its end a `complete`.  A governed run calls the same
agents on a cluster in which it has made the fault itself.  The trainer calls the
observation callbacks through the managed lifecycle, and the group trainer writes
each step of a group to its journal before or after the callback it is about.

What makes it hard:

* *Hand-over between workers.*  asyncio calls a task's done callback after the
  task ended, and a task cancelled before its first step never runs its
  `finally`; submissions in between are deferred and must neither be lost nor
  overtake (incident_dispatch.py:311-395).
* *Transactions interleaved with a queue.*  Admission, preparation, queueing and
  marking are separate steps, of which any can fail, and other processes on the
  same table come in between.
* *Waiting for a person.*  A decision races with the timeout, with the
  cancellation of the waiter, with a restart, with a step of the wall clock, and
  with a breaker that opens while the operator thinks.
* *Threads outlive coroutines.*  Cancelling a run does not stop the thread of
  its mutation, which may still land after the run, or the process, is gone.
* *Threads come in between.*  An operator's pause and a request for the status run
  beside the event loop and touch the breaker between any two of its statements:
  after a run has checked the breaker and before it starts its mutation, or in the
  middle of the roll of the hourly window.
* *Many exits.*  A run ends by refusal, failure, cancellation or completion, and
  each must settle the journal and the breaker.
* *Files written in steps.*  The lab's workspace, the trainer's journal, the
  audit log and the evidence of a governed run are each written by several system
  calls; a process dies, is interrupted, or meets a full disk between any two.
* *Cleanup after a failure.*  The except clause of a governed run must know how
  far it got, whether its fault exists, and what it has already filed, and may be
  interrupted itself.
* *Reset at any await.*  An operator may reset the breaker, and the lab, while
  runs, approvals and verifications are under way.

The list `hazards` of `PROJECT.json` places each of these at its line, with the
properties that would show it going wrong.

## 2. Plan

The order was that of what may be lost if it is wrong: handling an alert twice,
applying what was not approved, losing track of what was applied, then losing
evidence.

1. Dispatch and admission: `OccurrenceLedger` (abstract), `IncidentDispatch`
   (refines it), with proofs.
2. Approval gate: `ApprovalGate`, with proofs.
3. Execution journal: `ExecutionJournal`, with proofs.
4. Circuit breaker: `Breaker` (operators on its state), `CircuitBreaker` (the
   breaker among its runs), with proofs.
5. Operational run: `OperationalRun` composes `Breaker` with what the journal and
   the gate promise, with proofs.
6. Bug Lab: `IncidentLog` (abstract), `BugLabStore` (refines it), `BugLabEngine`,
   with proofs.
7. Governed runs: `GovernedRun`, with proofs.
8. Records and streams: `AuditLog`, `ThoughtStream`, with proofs.
9. Trainer: `AsyncLifecycle`, `ObservationGroup`, with proofs.

What a next step would take: an abstract specification of one mutation
(proposed, approved, applied at most once, its outcome known or said to be
unknown) for `OperationalRun` to implement; the correlator composed with the
dispatcher's `mark_processing`.

Runs keep to two or three processes, incidents or keys: the hazards above are
races of two actors around one object, with one event (a fault, a cancellation,
a crash) at the worst moment.  Every module takes its sizes and limits as
CONSTANTS, and no module declares a RECURSIVE operator, so that each can be proved
about; the one recursion, reading a journal row by row, is a recursive function.

## 3. How the modules correspond to the code

`map` in `PROJECT.json` gives the lines of every definition.  In general an
action is what one coroutine does from one await (or one database transaction)
to the next, because no other coroutine of its process can run in between; where
several processes share a file, a step ends at each transaction.  Threads can run in
between, and where one touches what the step reads or writes the step is split: the
start of a mutation (`OperationalRun`), the roll of the window (`CircuitBreaker`),
the calls of the trainer (`AsyncLifecycle`).  The audit log and the dispatcher
hold a lock over such a step.  Operators
whose name begins with `X_` are deliberately wrong versions of the operator after
them.  No specification uses them; each property is tried against one of them,
to show that it would notice such a mistake.

### OccurrenceLedger, IncidentDispatch

`OccurrenceLedger` says what admission promises without processes or queues:
an occurrence is free, reserved for a dispatch, or spent; a handler runs once on
occurrences its dispatch has spent.  `IncidentDispatch` is the code.

| model | code |
|---|---|
| `adm` | the table of `IncidentAdmissionStore` |
| `disp` | dispatches; a token is the `admission_token` |
| `queue` | `_queues`: `_IncidentQueue` with pending, deferred and worker |
| `task` | the asyncio tasks of workers: state, cancelling, the CancelledError to throw |
| `loop` | which callback the event loop of a process is in the middle of |
| `processing` | `active_processing` of the correlator, set by `mark_processing` |
| `SubmitAdmit`, `PreparationFails`, `SubmitJoin`, `SubmitStart`, `Rollback` | `submit` with its exits |
| `WorkerFirstStep`, `DrainTake`, `InvokeHandler`, `HandlerEnds`, `HandlerCancelled`, `DrainReturn` | `_drain` |
| `DoneCallback` | `_finish_worker`, called by the done callback |

A process dies between any two transactions (`Crash`).  Payloads, anchors and
journal entries are abstracted to `PreparationFails`.  A handler may swallow its
cancellation and return: the loop of `_drain` then goes on, as in the code.

### ApprovalGate

A request is named by its place in `reqs`, which stands for its random token; an
action stands for the digest of its canonical form, so two actions are equal
exactly if their digests are.  `Wait`, `Resume` and `CancelWait` are
`wait_for_action_decision` before, after and instead of its one await; `Return`
is the common end, which issues a permit; `Callback` is `callback` with its
refusals; `Consume` is `consume_action_permit`.  Two clocks: `now` is
`time.time()`, which an administrator may set back (`StepBack`), and `left` the
sleep of a waiter on the monotonic clock of the loop.  `answered`, `returned` and
`executed` are observers: what the operator was told, what the waiter got, which
uses of a permit were allowed.  `Legacy` incidents use the older `request` and
`wait_for_decision`, which bind no action.

### ExecutionJournal

`Begin` is one transaction.  `_note` is three steps: `NoteReadsRow`,
`NoteReadsLast` and `NoteCommits`, because with Python's sqlite3 its SELECTs run
in autocommit mode and only the INSERT opens a transaction
(execution_journal.py:117-167).  `NoteFails` stands for a failing audit log,
lock or disk.  `Start`, `Reconcile` and `Started` are `reconcile_restart`, called
by `operations_lifespan`.  A hash stands for the content of an event and its
predecessor, so `prev` names the place an event continues.

### Breaker, CircuitBreaker

`Breaker` holds the methods as functions of the breaker's state, what they leave
behind when they raise included: a refused call still counts, and the window of
the hourly quota rolls only when the breaker is asked (`stale`).
`CircuitBreaker` is a process that uses it and remembers what really happened, in
`running`, `made`, `granted`, `ended`, `late`, for the properties to compare.  Runs
and resets use it from the event loop, one method at a time.  `Askers` are threads
of the server in `status()`, which `GET /operations` and a pause call: `FindsStale`,
`MarksHour` and `ZeroesCount` are the three statements of
`_roll_hour_window_if_needed`, with any steps of the loop in between.  A thread that
found the window old may zero the count after the loop has rolled it and granted
calls of the new hour (`late` counts that), and its zero may be lost under an
addition of the loop.  `QuotaKept` says what is left of the quota: one for the hour,
and one more for each such zero.

### OperationalRun

`pc` is the await a run is in, or one of two places between awaits, `Held`: the
breaker was found closed (`cleared`), the start of the mutation was journaled
(`starting`).  A run in such a place has the event loop, so that no other run moves
(`HasLoop`), but the thread of a pause may (`OperatorPauses`), and so may the threads
of mutations and the death of the process.  A reset is an endpoint of the loop and
waits.  `slipped` observes how many mutations started under an open breaker since it
opened.  `Proposes` and `IsBarred` are what the loop of
`call_agent` does with a mutating call: the breaker, the evidence and the policy.
`Prepared` stores the exact patch and the version of the object the operator
sees; `Answers` is the operator; `IsDenied` (rejected, timed out, or approved
but expired before its permit is consumed) and `IsCleared` are the two ends of the
wait; `NotesStart` and `StartsMutation` follow without an await; `Lands` is the thread and the API server, which compares the
resourceVersion in the patch's tests (action_execution.py:156) and whose reply
may be lost; `Returned` and `Observes` come back to the loop; `Verified`,
`Completes` and `Finishes` end the run.  `Fails`, `Faults` and `IsCancelled` are
the except clauses and the finally of `handle_incident`.  The journal is used
through what it promises for one process (`record`), the gate through the answer
it gives to the single request a run waits for.  Triage, diagnosis, comms and the
verifier are reduced to the outcomes the run distinguishes.

### IncidentLog, BugLabStore

`IncidentLog` is what the lab is told: a list of closed incidents and the one that
is live.  `BugLabStore` is the workspace one system call at a time.  `op` is the
call under way; `made` how far the creation got; `tmp` the temporary file of
`_atomic_write_raw`; `pending` and `journal` the two files, `tail` a journal line
that is only partly written; `healthy` and `seq` the counters of the open
workspace; `acked` observes what the engine was told is on the disk.  `Checkpoint`,
`Complete`, `Write` begin a call; `WriteTmp`, `ReplacePending`, `WritePart`,
`WriteRest`, `RemovePending`, `Return` are its steps; `Fault` is an exception from
any of them, `Crash` the death of the process, `Open` the recovery in
`_open_existing`, which files what a dead process left open as `interrupted`.
Records are abstracted to their number, their state and the count of their notes.

### BugLabEngine

A step is what a task does from one await to the next.  `pipe` holds the task of
each incident's pipeline and the place it awaits at; `mon` the monitors; `req` the
resets.  `Inject`, `Decide`, `Report`, `ResetBegins` are the requests of the
control room, `Triage` to `VerifyBrowser` the pipeline, `PipelineCancelled` and
`PipelineDies` its handlers, with the change they take back.  The store is one
version of its content, of which `Sound` ones pass the checks and `Blind` ones
fail only in a browser.  The workspace is reduced to which incident is in the
pending file and which are filed; `Breaks` is its failure, after which the lab is
unavailable.

### GovernedRun

`pc` is where a runner is: before its reservation, holding one, past T0, or in
the except clause (`handler`).  `marker` is the attempt's file, with the token of
its owner; `lock` the reservation lock, `stale` when its holder died.  `primary`
and `files` are the evidence of an experiment; `poisoned` the record that stops
all others.  `fault` is the object in the cluster, `foreign` another user's.
`Applies` is `kubectl create`, whose reply may be lost; `Deletes` needs the uid
that only `Binds` gives; `Remediates` is an agent that removed the fault itself.
`Interrupt` is an exception or a KeyboardInterrupt at any call; `Handler` is what
the except clause makes of the place it happened at; in the except clause itself
it ends the run.  `Kill` is the death of the process.  `lost` observes which
experiments ended that way: nobody in the code can answer for those, and the
reservation lock and the operator (`OperatorVerifies`) must.

### AuditLog, ThoughtStream

`AuditLog` has several processes that open one file and append to it, each with
the hash of the line it believes is last; an append is cut off (`IsCutOff`) or two
overlap.  `Verifies` is `verify_integrity`.  `ThoughtStream` numbers the events;
`Subscribe` takes the ring and registers the queue without an await in between,
`Emit` drops the oldest event of a full queue, `Leaves` at the replay leaves the queue
registered, as in the code.

### AsyncLifecycle, ObservationGroup

`AsyncLifecycle` has the threads that call (`Invoke`, `Submit`, `Returns`,
`Interrupted`), the loop's thread (`Starts`, `Settles`, `Stops`, `Drained`), and
`close` in three steps, with the two locks in between.  Timeouts and
KeyboardInterrupts are `Interrupted`, at either of the two waits.
`ObservationGroup` is one group at a time: the journal marks the group, the begin
callback runs, the observation is recorded, completions are generated, each sample
is admitted, marked, executed; `Finish` and `File` end it however it ends.  An
append reads the file again and refuses what does not follow (`Follows`); it may be
cut off, after which the journal is `poisoned`, or fail after its line is
complete.  `ReadRow` is what the reader makes of one row after those before it,
`Read` of a whole file, and `ReadStatus` the status it reports.

### MCParts

Six components that share no state with any other are checked in one run: `part`
picks one in the initial state, and only its steps are taken.  That is six
independent state spaces.  The breaker, the governed runs and the lifecycle are
extended, the audit trail, the stream and the group's journal are the instances
`A`, `S` and `O`, with variables of their own.

## 4. The runs

| run | instance | what it shows |
|---|---|---|
| `dispatch_shared` | 2 processes, 2 keys, 1 incident, 3 dispatches, a fault, a cancellation, a crash | `AtMostOnce`, and that the table implements the ledger |
| `dispatch_worker` | 1 process, 3 dispatches of one incident, 2 cancellations, a fault; fair | `HandledInTurn` (no overlap, no overtaking), `QueueIsExact` (a queue agrees with the table, its worker and the correlator); every completion is settled, and while nothing is disturbed every admitted occurrence reaches its handler |
| `gate_exact` | 3 incidents, one of them legacy, 2 actions (one names a target), 2 requests, a cancelled waiter, a restart or step back; fair | approvals are used once and for what they were given; answers stand; the indexes agree; every waiter returns |
| `journal_one` | 1 process, 2 executions, 2 failing notes, 3 crashes | terminal is final, histories link, verdicts are right, a start settles |
| `run_safe` | 2 runs, 2 mutations each of one object, a fault, a cancellation, a crash, a pause by a thread | `UnknownIsSaid`, `ActiveIsExact`, `NoOverwrite`, `ResolvedIsEarned`, `OpenBreakerHolds`, `StartsAreInformed` |
| `run_live` | 2 runs of one mutation for one place, a quota of one, a breaker that opens on the first failure, a crash, a reset; fair | `EveryRunSettles`: every run ends, and every execution is settled by its run or by a restart |
| `lab_store` | 2 processes one after another, 2 incidents of 2 notes, 2 failing calls, 3 crashes | `NothingLost`, `Reopens`, `WriterIsCurrent`, and that the workspace implements `IncidentLog` |
| `lab_crash` | 1 process, 1 incident, a crash | *violation*: a crash leaves a workspace nobody can open |
| `lab_engine` | 2 incidents of 2 plans, 2 monitors, a reset, a browser report, a failing disk; fair | only approved changes, nothing leaks through a reset, what is resolved is sound, what is not verified is taken back, everything ends |
| `lab_resets` | 2 resets at once | *violation*: a reset leaves a monitor running |
| `parts` | breaker: 2 runs, limits of 2, pauses, a reset, a thread that asks for the status; governed: 2 runners, 2 experiments, a budget of 1, 2 interruptions, a death; audit: 2 processes, 4 appends, 2 cut off; stream: 2 clients, a ring of 2, queues of 1, 4 events; lifecycle: 3 threads, 4 calls; group: 2 groups of 2 samples, a cut-off append, an interrupt, a death | `OpenForCause`, `QuotaKept`; `FaultIsAccounted`, `BudgetHolds`, `SpentIsRecorded`; `AuditIsExact`; `StreamIsSeamless`; `CallbacksAreSerial`; `JournalIsHonest` |
| `governed_verdict` | 2 runners, 2 experiments, an interruption | *violation*: a verdict is on the disk and the interruption record says there is none |

*Bounds.*  Every `Max...` constant that is not a limit of the code bounds a
counter in a guard and is marked `bound:` where it is declared.  Three dispatches
are the fewest with one running and two deferred, whose order can go wrong, and,
with two cancellations, with a hand-over from a successor to its own successor.
Two requests are the fewest where a late waiter meets a newer request of its
incident.  Four events of an execution are a whole life (queued, working,
applying, end).  The breaker's limits are 2, the fewest that differ from "one" and
from "none"; three endings hold a streak, or one that a success or a designed outcome
interrupts; one thread that asks for the status is enough to come late.  Two runs
on one object are the fewest that can overwrite; a run needs two mutations to act
on an observation.  Time in the gate is counted in ticks of which a timeout takes
one or two, so that all of before, at and after the expiry occur.  Two notes of
two incidents let a pending record be new, rewritten, and left by an earlier
incident; three crashes let a recovery die and its recovery too.  Two plans let a
rejected change be followed by another; a second monitor lets one outlive a reset.
Two runners with a budget of one are the fewest that compete for it, and two
interruptions let the except clause be interrupted.  Three threads are one that
calls, one that waits for the call lock, one that closes.  Two groups let a
journal go on after an ending.

*Deadlock.*  The bounded systems come to a real stop: a server that is idle has
nothing to do, and a bound that is used up lets nothing more happen.  The
configurations therefore switch the check for deadlock off; that nothing waits for
ever is the subject of the liveness properties.

*Symmetry* is used for safety runs only, over keys, incidents, actions,
executions, processes or experiments, which no definition compares except for
equality.

## 5. Fairness

* The event loop runs every callback that is ready, and a callback that started
  reaches its next await (`LoopGoesOn`, `TaskGoesOn`, `Resume`, `Step`, `Pipeline`).
  A handler ends because `handle_incident` bounds its waits by timeouts; `run_live`
  shows it for an operator who never answers.
* Time passes (`Tick`): the gate's waits end by the monotonic clock, and the lab's
  waits for a decision and for a browser by their timeouts.
* The thread of a mutation returns within its request timeouts (`Lands`).
* A dead process is started again (`Restart`): the container's restart policy.
* A cancelled task is given its CancelledError, and a reset that waits for a task
  goes on when it is done (`MonitorCancelled`, `Resets`).
* Nothing obliges an alert to come, an operator to answer, a browser to report, a
  cancellation, a fault or a crash.

Weak fairness is enough everywhere: each of these steps stays enabled until it is
taken, or another step of the same actor replaces it.

## 6. The proofs

Each proof module extends the module it is about, and proves its theorems for
every value of the constants that the named assumptions allow.  Listed in
`PROJECT.json` under `theorems`; all of them come from an inductive invariant.

**IncidentDispatchProofs**: `TypeCorrect`, `OccurrencesHandledAtMostOnce`,
`AttemptedRowsAreFinal`, `DispatcherImplementsLedger`, `QueuesAreExact`,
`IncidentsHandledInTurn`.  `AtMostOnce` is not
inductive: that no two invocations share a key depends on who may mark a row.
The invariant adds the shape of the state (each token belongs to one process and
appears in its queues only) and, in `Once`, that whatever was invoked has its rows
attempted with its own token, that what is about to be invoked has not been, and
that a token is taken by one task only.  `DispatcherImplementsLedger` is the
refinement proof: a step is one of the ledger's or leaves it alone.  The last two
speak of lines: the dispatches of an incident in a process, of which those still
to come are `Ahead` (in its queue, or admitted and not yet placed there).
`Lines` says that these hold their rows (`Backed`) and what is being rolled back
is not among them; that a queue is in the order of admission, deferred dispatches
last and only behind a worker on its way out (`Sorted`); and that everything
handed to a handler, held by a worker or about to be invoked is earlier than all
that is ahead (`Passed`, `Held`, `Turn`).  `Workers` says that a task under way is
the worker its queue names (`Alone`), which is `NoOverlap`.  Most steps only
shorten what is ahead, and one lemma (`LinesFramed`) covers those.

**ApprovalGateProofs**: `TypeCorrect`, `ActionsRunApprovedOnce`, `AnswersStand`,
`DecisionsAreFinal`, `IndexesAlwaysAgree`.  The invariant relates a permit to its
request (the request is approved, by the operator that was told so, for this
action and incident), a use to the absence of the permit it consumed, and a
pending entry of an index to the request that may take it away.

**ExecutionJournalProofs**: `TypeCorrect` and `RowsAreBacked` for any number of
processes; `TerminalStays`, `HistoriesLinked`, `UncertaintyIsRecorded`,
`RestartSettles` assume `Solo` (at most one server process on the runtime
directory), as `--workers 1` of the Dockerfile provides.  Without it they are
false, see section 7.  The stronger invariant says that between the SELECTs
and the INSERT of a note nothing it read has changed.

**OperationalRunProofs**: `TypeCorrect`, `UnknownMutationsAreSaid`,
`ResolutionIsEarned`, `OpenBreakerStops`, `RunsActInformed`, `NothingOverwritten`,
`PlacesAreCounted`.  The invariant is the types and, for each run, `Local`: what
its place in the program says of its record, its decision, its last thread and
its last observation.  A step of one run leaves the others' part alone, so each
action is proved once.  Two more inductions rest on it: at most one mutation
landed on each version *that has been left behind*, and none yet on the present
one; `Brink`, on which `OpenBreakerStops` rests: no mutation has slipped while the
breaker is closed or while a run stands between its check and its start, only one run
can stand there, and, unless an operator paused the breaker, none stands there while
it is open, since only that run could have opened it and it does not; and, until the first reset, the breaker's count is the number of runs in
flight, which needs that `Incidents` is finite.

**BugLabStoreProofs**: `NothingIsLost`, `StoreReopens`, `WriterCurrent`,
`LogImplemented`, and the types, for any number of processes, incidents, notes,
failing calls and deaths.  The disk alone is always numbered and explained
(`Consistent`), which is `Reopens`.  `NothingLost` is not inductive: that a rename
replaces no acknowledged note by an older one depends on what the call under way
was begun with.  So for each kind of call the invariant says, for each step it may
have reached, what the pending file, the unfinished line and the record to write
have to do with one another (`Noting`, `Completing`, `Opening`), and that a writer
that has not yet changed the pending file counts with the last acknowledged note
(`Fresh`).  A call that fails clears `healthy`, after which nothing is claimed of
the writer and the disk must speak for itself.  `LogImplemented` is the refinement:
`ReplacePending` is a step of the log, every other one leaves it alone.

**BugLabEngineProofs**: `LabNothingLeaks`, `LabExactApproval`,
`LabResolvedIsSound`, `LabTakenBack`, and the types, for any contents, plans,
incidents, monitors and failures.  All of them assume `OneReset`: resets come one
after another, never two at once.  Two at once each start a monitor, which is the
finding of `lab_resets`; the assumption is about the control room and not enforced
by `reset()`.  One invariant carries all four: only the monitor that was started
last is alive (`OneMonitor`), a pipeline only for the open incident (`OnePipeline`),
a reset has asked all that is alive to stop (`Resetting`), an approval is of the
change that waits at the gate and was recorded (`Approving`), and a verification is
of the version that is in the store (`Verification`).  The action properties follow
step by step: since one pipeline at most is alive, nobody else writes while it
verifies.  `LabAssumption` asks for one monitor at least, the one `start` begins with.

**PartsProofs** has a section for each component of `MCParts`; each theorem is about
that component's own specification.  `Named` and `"free" \notin Threads` only say that
the words which stand for nobody are not the name of a runner or a thread (and that
the experiments are finitely many and the budget is a number).

*Circuit breaker.*  `TypeCorrect`, `PlacesAreReal`, `HourlyQuota`,
`LimitsUntilReset`, with the lemmas on the breaker's methods in **BreakerProofs**.
The invariant is the conjunction of the four with the types: the count of places is
at most the number of runs, and what was granted since the hour turned is at most what
the breaker would count once its window rolls and a quota for each late zero of a
thread (`Quota`).  `OpensForCause` has an invariant of its
own: there is a place in the sequence of endings, just after the last success, since
which the breaker's counter is the number of errors; a streak that becomes long
enough ends with the last ending and begins no earlier than that place.

*Governed runs.*  `FaultsAreAccounted`, `BudgetIsKept`, `SpendingIsRecorded`,
for any number of runners, experiments, interruptions and deaths.  None of the
three is inductive.  What they rest on: `Held` (who counts and marks holds the
budget's lock, and what it counted stays true until it has marked), `Owned` (a
runner past its reservation is named by the marker of its experiment, so two such
runners have two experiments, and from T0 on the attempt is spent), `Injected`
(a fault that ever reached the cluster belongs to a spent attempt, and a run before
its first cluster call has made none), `Truthful` and `Knowing` (a cleanup record
that says "clean" is about a fault that is gone and stays gone; one that says
"dirty" stands beside the poison record), and `Recorded` (a spent attempt is
somebody's, or the disk says how it ended).  `lost` is in the statements because
it is in the code: a runner that is killed, or interrupted in its own except
clause, leaves what it leaves.

*Callbacks of the trainer.*  `CallbacksSerial`, for any number of threads.  The
invariant says who holds the call lock in which place, that a future is live only
while its thread waits or settles or the adapter is being closed, and that the loop
ends only after its tasks.

*Stream.*  `StreamSeamless`, for any number of clients and any sizes.  It is about what a client
was sent, is being replayed and has queued, one after the other (`Due`).  The
invariant adds that the ring ends with the last event unless it was cleared
(`Buffered`), so that a replay joins the queue without a gap, and that a client that
follows is listed (`Listening`): that is where it matters that `subscribe` takes the
ring and registers the queue without an await in between.

*Audit trail.*  `AuditExact`, for any number of processes.  The invariant: readable
lines, and records told, are in the order of their appends (`Numbered`); what was
told is in the file unless some line cannot be read, and the file has at most as
many lines as were told or cut off (`Kept`); and while nothing was cut off and no two
processes overlapped, the one that has the file open continues its last line
(`Chained`).

*Journal of a group.*  `JournalHonest`, for any number of groups and samples.  The
invariant: a journal that is not poisoned knows what its file says (`Readable`); each
marker is in the file before its callback is called (`HasMarkers`); a record that
says "scored" is of an action that returned (`RecordsTrue`); and once a group ended
that the file does not tell as the trainer does, no row can be written any more,
because the journal is poisoned, closed or still has that group open
(`UntoldIsLast`).  `CompleteAreTrue` then is inductive: the row that completes a group
is accepted only after all of its samples.  Reading a file is the one recursive
function of the project.  That a longer file is read like the shorter one and then
its last row is an induction over its length, done as an induction over a set of
numbers (`NatSetInduction`, from the library's fact that the order of the numbers
is well founded).

*Only model-checked.*  Liveness: `EverySettled`, `EveryAdmittedIsAttempted`,
`EveryWaiterReturns`, `EveryRunSettles`, `EverythingEnds`, because no prover here treats
ENABLED.  And the three runs that show a violation, whose traces are TLC's.  Every
invariant and every action property of the passing runs is proved.

## 7. Where code and documents disagree

Three runs end in a violation; `findings` of `PROJECT.json` quotes the lines.

* `lab_crash`.  The Bug Lab's README says that a crash becomes `interrupted` on
  recovery.  A process that dies between creating a temporary file and renaming it
  leaves a file that `_validate_layout` calls unknown, and no later start accepts
  the workspace.  In every other state a crash is recovered (`Reopens`).
* `lab_resets`.  Two resets at the same time each start a monitor.
* `governed_verdict`.  The except clause recognises a verdict by a key that the
  INVALID evidence does not have, and files an inconclusive record beside it.

Found by reading with the models, and not the subject of a run:

* The check "A terminal execution cannot replay or advance"
  (agents/execution_journal.py:134) is made on a row read before the transaction
  that writes it.  If a second process starts on the same directory meanwhile,
  its reconciliation comes in between and the terminal execution becomes running
  again; its two events name one predecessor, so that `read` refuses it.  One
  process excludes it, and that is proved (`TerminalStays`).
* A pause is audited with "Further tool execution is blocked"
  (agents/operations_api.py:167).  The pause runs in a thread, and a run that has
  passed `require_closed` (agents/coordinator.py:1834) still starts its mutation at
  line 1840, which comes after two writes to the disk.  It is one mutation at most,
  over all runs, and one that an operator approved; that is `OpenBreakerHolds`, proved
  as `OpenBreakerStops`.
* The hourly quota, also among the hard limits below, can be exceeded when a thread
  that serves `GET /operations` or a pause rolls the window late
  (agents/circuit_breaker.py:117-120): `QuotaKept` says by how much.
* A worker that is cancelled abandons the dispatches queued behind it
  (agents/incident_dispatch.py:334): their submitters are told, but their rows stay
  queued, so that the same occurrence is a duplicate ever after.  At most once is
  kept; that an admitted occurrence is attempted is claimed only while nothing is
  cancelled.
* docs/project/UPSTREAM_ALIGNMENT_AUDIT_REPORT.md:51 promises hard limits; `reset`
  of the breaker forgets runs in flight, after which as many again are admitted.
  Until a reset the limits hold, which is proved (`LimitsUntilReset`).
* docs/END_TO_END_FLOW.md:89 says that only `system_error` and `agent_error` count
  towards opening; the code counts every unresolved outcome not in
  `DESIGNED_OUTCOMES`.  `OpenForCause` states what it really does.

## 8. What is not modelled

`components` in `PROJECT.json` lists every part with its status.

* *Most of the repository by size.*  Training, evaluation, benchmarks, data
  preparation, infrastructure verification and the recommender are sequential
  scripts that read inputs and write one result; they have no state that two
  actors share and no protocol to get wrong, and a model of them would restate
  their arithmetic.  So `map` covers a small share of all lines and most lines of
  the parts that have a protocol.
* *Pure functions.*  The environment verifier, grounding, tool policy, redaction
  and the record validators compute a verdict from texts and snapshots.  A run
  uses only the verdict, and the models let it be any.  The HTTP retry is one
  sequential loop.
* *The correlator.*  The dispatcher is modelled with any assignment of keys to
  incidents; that an occurrence always reaches the same incident, and how idle
  incidents expire, is not shown.
* *The demo operator.*  It starts the governed run in a subprocess behind an
  exclusive claim file, and its monitors only read.  History, judge and metrics are
  read models.
* *Within the modelled parts.*  Prompts, the choice of tools, retries of model
  providers, the RL backend of `handle_incident`, listing endpoints,
  authentication and wording; in the governed run, the measurements, and a
  `kubectl create` whose object appears after its reply was lost; in the trainer,
  the rewards, the controlled variant (`training/grpo_controlled.py`), the trainer
  without a journal, and two processes that append to one journal (the trainer is
  its only writer, and its lock is one of threads);
  power failures in which a synchronised file is lost.
