------------------------------- MODULE Breaker -------------------------------
(***************************************************************************)
(* The circuit breaker of agents/circuit_breaker.py as functions of its     *)
(* state.  A method that raises CircuitBreakerTripped leaves in the state   *)
(* what it changed before it raised.                                        *)
(***************************************************************************)
EXTENDS Naturals

CONSTANTS Incidents,       \* incident ids
          MaxCalls,        \* max_tool_calls_per_incident
          MaxMutations,    \* max_cluster_mutating_actions_per_hour
          MaxConcurrent,   \* max_concurrent_incidents
          Threshold        \* consecutive_failure_threshold

ASSUME BreakerAssumption ==
    /\ MaxCalls \in Nat /\ MaxMutations \in Nat /\ MaxConcurrent \in Nat
    /\ Threshold \in Nat \ {0}

Designed == {"approval_rejected", "approval_timeout", "manual_runbook",
             "partial_resolution", "escalation"}

(* stale: an hour has passed since _hour_window_start. *)
Breaker ==
    [calls : [Incidents -> 0 .. MaxCalls], spent : 0 .. MaxMutations, active : Nat,
     failures : Nat, tripped : BOOLEAN, stale : BOOLEAN]

Closed ==
    [calls |-> [i \in Incidents |-> 0], spent |-> 0, active |-> 0,
     failures |-> 0, tripped |-> FALSE, stale |-> FALSE]

Admits(b) == ~b.tripped /\ b.active < MaxConcurrent
Entered(b) == [b EXCEPT !.active = @ + 1]

Fewer(n) == IF n > 0 THEN n - 1 ELSE 0

X_LeftCountsAll(b, i, resolved, reason) ==
    [b EXCEPT !.calls[i] = 0, !.active = Fewer(@),
              !.failures = IF resolved THEN 0 ELSE @ + 1,
              !.tripped = @ \/ (~resolved /\ b.failures + 1 >= Threshold)]
Left(b, i, resolved, reason) ==
    LET counted  == ~resolved /\ reason \notin Designed
        failures == IF resolved THEN 0 ELSE IF counted THEN b.failures + 1 ELSE b.failures
    IN  [b EXCEPT !.calls[i] = 0,
                  !.active   = Fewer(@),
                  !.failures = failures,
                  !.tripped  = @ \/ (counted /\ failures >= Threshold)]

X_Rolled(b) == IF b.stale THEN [b EXCEPT !.spent = 0] ELSE b
Rolled(b) == IF b.stale THEN [b EXCEPT !.spent = 0, !.stale = FALSE] ELSE b

(* check_before_tool_call: whether it grants the call, and what it leaves. *)
Grants(b, i, mutating) ==
    /\ ~b.tripped
    /\ b.calls[i] < MaxCalls
    /\ mutating => Rolled(b).spent < MaxMutations

Checked(b, i, mutating) ==
    IF b.tripped \/ b.calls[i] >= MaxCalls THEN Rolled(b)
    ELSE LET counted == [Rolled(b) EXCEPT !.calls[i] = @ + 1]
         IN  IF Grants(b, i, mutating) /\ mutating
             THEN [counted EXCEPT !.spent = @ + 1] ELSE counted

(* pause; the status it then returns rolls the window as any other does. *)
Paused(b) == [b EXCEPT !.tripped = TRUE]
Reset == Closed
=============================================================================
