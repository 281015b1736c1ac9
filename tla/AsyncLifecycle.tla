--------------------------- MODULE AsyncLifecycle ---------------------------
(***************************************************************************)
(* The adapter by which a synchronous trainer runs asynchronous callbacks  *)
(* on an event loop of its own (training/grpo_async_lifecycle.py,          *)
(* ManagedAsyncObservationLifecycle).  Any thread may call or close it; a  *)
(* thread that waits may be interrupted; a callback ends when it likes.    *)
(***************************************************************************)
EXTENDS Naturals, FiniteSets

CONSTANTS Threads, MaxInvokes

VARIABLES
    state,      \* _entered, _closing and _closed: "new", "open", "closing", "closed"
    loop,       \* the loop's thread: "none", "running", "draining", "done"
    stop,       \* loop.stop is scheduled
    caller,     \* where each thread is
    callLock,   \* _call_lock: a thread, or "free"
    closeLock,  \* _close_lock
    active,     \* whose future _active_future is
    future,     \* the future of each thread's call
    task,       \* the callback of each thread's call, on the loop
    calls       \* calls begun so far

lifecycleVars == <<state, loop, stop, caller, callLock, closeLock, active, future, task, calls>>

LifecycleTypeOK ==
    /\ state \in {"new", "open", "closing", "closed"}
    /\ loop \in {"none", "running", "draining", "done"} /\ stop \in BOOLEAN
    /\ caller \in [Threads -> {"idle", "calling", "waiting", "settling", "cancelling",
                             "joining"}]
    /\ callLock \in Threads \cup {"free"} /\ closeLock \in Threads \cup {"free"}
    /\ active \in Threads \cup {"none"}
    /\ future \in [Threads -> {"none", "pending", "done", "cancelled"}]
    /\ task \in [Threads -> {"none", "queued", "running", "settled"}]
    /\ calls \in 0 .. MaxInvokes

LifecycleInit ==
    /\ state = "new" /\ loop = "none" /\ stop = FALSE
    /\ caller = [t \in Threads |-> "idle"]
    /\ callLock = "free" /\ closeLock = "free" /\ active = "none"
    /\ future = [t \in Threads |-> "none"] /\ task = [t \in Threads |-> "none"]
    /\ calls = 0

Moves(t, where) == caller' = [caller EXCEPT ![t] = where]

Live == {t \in Threads : task[t] \in {"queued", "running"}}

\* __enter__ returns once the loop runs; a thread that cannot start closes it.
Enter ==
    /\ state = "new"
    /\ \/ state' = "open" /\ loop' = "running"
       \/ state' = "closed" /\ UNCHANGED loop
    /\ UNCHANGED <<stop, caller, callLock, closeLock, active, future, task, calls>>

\* A call while another one holds the lock is refused and changes nothing.
Invoke(t) ==
    /\ caller[t] = "idle" /\ calls < MaxInvokes
    /\ callLock = "free" /\ callLock' = t
    /\ calls' = calls + 1 /\ Moves(t, "calling")
    /\ UNCHANGED <<state, loop, stop, closeLock, active, future, task>>

\* The end of a call: _active_future and _call_lock are given back.
InvokeReleases(t) ==
    /\ active' = IF active = t THEN "none" ELSE active
    /\ callLock' = "free" /\ Moves(t, "idle")

Submit(t) ==
    /\ caller[t] = "calling" /\ state = "open" /\ loop = "running"
    /\ task' = [task EXCEPT ![t] = "queued"]
    /\ future' = [future EXCEPT ![t] = "pending"]
    /\ active' = t /\ Moves(t, "waiting")
    /\ UNCHANGED <<state, loop, stop, callLock, closeLock, calls>>

InvokeFails(t) ==
    /\ caller[t] = "calling" /\ ~(state = "open" /\ loop = "running")
    /\ InvokeReleases(t)
    /\ UNCHANGED <<state, loop, stop, closeLock, future, task, calls>>

Returns(t) ==
    /\ caller[t] \in {"waiting", "settling"} /\ future[t] # "pending"
    /\ InvokeReleases(t)
    /\ UNCHANGED <<state, loop, stop, closeLock, future, task, calls>>

\* Mutant: an interrupted call gives the lock back at once.
X_Interrupted(t) ==
    /\ caller[t] = "waiting" /\ future[t] = "pending" /\ InvokeReleases(t)
    /\ UNCHANGED <<state, loop, stop, closeLock, future, task, calls>>

\* _wait_for_callback_settlement: the exception is raised when the callback is over.
Interrupted(t) ==
    /\ caller[t] = "waiting" /\ future[t] = "pending" /\ Moves(t, "settling")
    /\ UNCHANGED <<state, loop, stop, callLock, closeLock, active, future, task, calls>>

-----------------------------------------------------------------------------
(* close() *)

CloseBegins(t) ==
    /\ caller[t] = "idle" /\ closeLock = "free"
    /\ \/ state = "new" /\ state' = "closed" /\ UNCHANGED <<closeLock, caller>>
       \/ /\ state = "open" /\ state' = "closing"
          /\ closeLock' = t /\ Moves(t, "cancelling")
    /\ UNCHANGED <<loop, stop, callLock, active, future, task, calls>>

\* The future that _invoke waits for is cancelled at once, its task when the loop comes to it.
CloseCancels(t) ==
    /\ caller[t] = "cancelling"
    /\ future' = [u \in Threads |-> IF u = active /\ future[u] = "pending"
                                    THEN "cancelled" ELSE future[u]]
    /\ stop' = TRUE /\ Moves(t, "joining")
    /\ UNCHANGED <<state, loop, callLock, closeLock, active, task, calls>>

CloseEnds(t) ==
    /\ caller[t] = "joining" /\ loop = "done"
    /\ state' = "closed" /\ closeLock' = "free" /\ Moves(t, "idle")
    /\ UNCHANGED <<loop, stop, callLock, active, future, task, calls>>

-----------------------------------------------------------------------------
(* The thread of the loop: _run_loop and _drain_pending_tasks *)

Starts(t) ==
    /\ loop \in {"running", "draining"} /\ task[t] = "queued"
    /\ task' = [task EXCEPT ![t] = "running"]
    /\ UNCHANGED <<state, loop, stop, caller, callLock, closeLock, active, future, calls>>

\* A callback returns, raises or honours its cancellation.
Settles(t) ==
    /\ loop \in {"running", "draining"} /\ task[t] = "running"
    /\ task' = [task EXCEPT ![t] = "settled"]
    /\ future' = [future EXCEPT ![t] = IF @ = "pending" THEN "done" ELSE @]
    /\ UNCHANGED <<state, loop, stop, caller, callLock, closeLock, active, calls>>

\* Callbacks are started in the order of their submission, before the stop.
Stops ==
    /\ loop = "running" /\ stop /\ \A t \in Threads : task[t] # "queued"
    /\ loop' = "draining"
    /\ UNCHANGED <<state, stop, caller, callLock, closeLock, active, future, task, calls>>

Drained ==
    /\ loop = "draining" /\ Live = {} /\ loop' = "done"
    /\ UNCHANGED <<state, stop, caller, callLock, closeLock, active, future, task, calls>>

LifecycleNext ==
    \/ Enter \/ Stops \/ Drained
    \/ \E t \in Threads :
        \/ Invoke(t) \/ Submit(t) \/ InvokeFails(t) \/ Returns(t) \/ Interrupted(t)
        \/ CloseBegins(t) \/ CloseCancels(t) \/ CloseEnds(t) \/ Starts(t) \/ Settles(t)

LifecycleSpec == LifecycleInit /\ [][LifecycleNext]_lifecycleVars

-----------------------------------------------------------------------------
(* At most one callback is under way, and one that is has its caller still *)
(* waiting, interrupted or not, unless the adapter is being closed: the    *)
(* trainer's finish never overlaps an unfinished action.  A closed adapter *)
(* has no callback and no loop left (_invoke, close, _drain_pending_tasks).*)
CallbacksAreSerial ==
    /\ Cardinality(Live) =< 1
    /\ state = "open" => \A t \in Live : callLock = t /\ caller[t] \in {"waiting", "settling"}
    /\ state = "closed" => Live = {} /\ loop \in {"none", "done"}
=============================================================================
