---------------------------- MODULE CircuitBreaker ----------------------------
(***************************************************************************)
(* The breaker of a server process among the runs that use it: runs start,  *)
(* call tools and finish, operators pause and reset it, hours pass.  Runs    *)
(* use it from the event loop; pause and GET /operations are run by threads,  *)
(* whose status() may roll the window in the middle of everything.  running,  *)
(* made, granted, ended, paused and late record what really happened, for     *)
(* the properties to compare the breaker with.                               *)
(***************************************************************************)
EXTENDS Breaker, Sequences, FiniteSets

CONSTANTS Askers,      \* threads of the server that ask for the status
          MaxEnds,     \* bound: runs that finish between two resets
          MaxResets    \* bound: resets

ASSUME BoundAssumption == MaxEnds \in Nat /\ MaxResets \in Nat

VARIABLES
    breaker,   \* the CircuitBreaker
    asker,     \* thread -> how far it is in _roll_hour_window_if_needed
    running,   \* incidents between start_incident and finish_incident
    made,      \* incident -> tool calls granted to its run
    granted,   \* mutating calls granted in this hour
    late,      \* times that a thread forgot calls granted in this hour
    ended,     \* how runs ended since the last reset: sequence of <<resolved, reason>>
    paused,    \* whether an operator paused it since the last reset
    resets     \* number of resets

vars == <<breaker, asker, running, made, granted, late, ended, paused, resets>>

(* A designed reason, one of an error, and one that stands for the others. *)
Reasons == {"approval_rejected", "unresolved", "system_error"}
Outcome == {<<TRUE, "">>} \cup {<<FALSE, r>> : r \in Reasons}

TypeOK ==
    /\ breaker \in Breaker
    /\ running \subseteq Incidents
    /\ asker \in [Askers -> {"out", "stale", "marked"}]
    /\ made \in [Incidents -> Nat] /\ granted \in Nat /\ late \in Nat
    /\ ended \in Seq(Outcome) /\ Len(ended) <= MaxEnds
    /\ paused \in BOOLEAN /\ resets \in 0 .. MaxResets

Init ==
    /\ breaker = Closed
    /\ asker = [t \in Askers |-> "out"]
    /\ running = {}
    /\ made = [i \in Incidents |-> 0]
    /\ granted = 0 /\ late = 0
    /\ ended = <<>>
    /\ paused = FALSE
    /\ resets = 0

Start(i) ==
    /\ i \notin running /\ Admits(breaker)
    /\ breaker' = Entered(breaker)
    /\ running' = running \cup {i}
    /\ UNCHANGED <<asker, made, granted, late, ended, paused, resets>>

(* A zero that a thread stores while the loop adds one to it is lost. *)
Call(i, mutating) ==
    /\ i \in running
    /\ breaker' = Checked(breaker, i, mutating)
    /\ made' = IF Grants(breaker, i, mutating) THEN [made EXCEPT ![i] = @ + 1] ELSE made
    /\ granted' = IF Grants(breaker, i, mutating) /\ mutating THEN granted + 1 ELSE granted
    /\ \/ UNCHANGED asker
       \/ /\ Grants(breaker, i, mutating) /\ mutating
          /\ \E t \in Askers : asker[t] = "marked" /\ asker' = [asker EXCEPT ![t] = "out"]
    /\ UNCHANGED <<running, late, ended, paused, resets>>

Finish(i, out) ==
    /\ i \in running /\ Len(ended) < MaxEnds
    /\ breaker' = Left(breaker, i, out[1], out[2])
    /\ running' = running \ {i}
    /\ ended' = Append(ended, out)
    /\ made' = [made EXCEPT ![i] = 0]
    /\ UNCHANGED <<asker, granted, late, paused, resets>>

HourPasses ==
    /\ ~breaker.stale
    /\ breaker' = [breaker EXCEPT !.stale = TRUE]
    /\ granted' = 0 /\ late' = 0
    /\ UNCHANGED <<asker, running, made, ended, paused, resets>>

(* A thread finds the hour over, then sets the start of the window, then the   *)
(* count.  The loop does all of it within a step, see Rolled.                  *)
FindsStale(t) ==
    /\ asker[t] = "out" /\ breaker.stale
    /\ asker' = [asker EXCEPT ![t] = "stale"]
    /\ UNCHANGED <<breaker, running, made, granted, late, ended, paused, resets>>

MarksHour(t) ==
    /\ asker[t] = "stale"
    /\ asker' = [asker EXCEPT ![t] = "marked"]
    /\ breaker' = [breaker EXCEPT !.stale = FALSE]
    /\ UNCHANGED <<running, made, granted, late, ended, paused, resets>>

ZeroesCount(t) ==
    /\ asker[t] = "marked"
    /\ asker' = [asker EXCEPT ![t] = "out"]
    /\ breaker' = [breaker EXCEPT !.spent = 0]
    /\ late' = IF granted > 0 THEN late + 1 ELSE late
    /\ UNCHANGED <<running, made, granted, ended, paused, resets>>

Pause ==
    /\ breaker' = Paused(breaker)
    /\ paused' = TRUE
    /\ UNCHANGED <<asker, running, made, granted, late, ended, resets>>

ResetBreaker ==
    /\ resets < MaxResets /\ resets' = resets + 1
    /\ breaker' = Reset
    /\ granted' = 0 /\ late' = 0
    /\ ended' = <<>>
    /\ paused' = FALSE
    /\ UNCHANGED <<asker, running, made>>

Next ==
    \/ \E i \in Incidents :
          \/ Start(i)
          \/ \E mutating \in BOOLEAN : Call(i, mutating)
          \/ \E out \in Outcome : Finish(i, out)
    \/ HourPasses \/ Pause \/ ResetBreaker
    \/ \E t \in Askers : FindsStale(t) \/ MarksHour(t) \/ ZeroesCount(t)

Spec == Init /\ [][Next]_vars

-----------------------------------------------------------------------------
(* The breaker never counts more runs than there are, so that it refuses an   *)
(* incident only if MaxConcurrent of them are really running.                 *)
NeverOvercounts == breaker.active <= Cardinality(running)

(* The breaker is open if and only if an operator paused it or Threshold runs *)
(* failed, with any number of designed outcomes but no success between them,  *)
(* since the last reset.                                                      *)
Failed(n) == ~ended[n][1] /\ ended[n][2] \notin Designed
OpenForCause ==
    breaker.tripped <=>
        \/ paused
        \/ \E a, z \in DOMAIN ended :
              /\ \A n \in a .. z : ~ended[n][1]
              /\ Cardinality({n \in a .. z : Failed(n)}) >= Threshold

(* No more mutating calls are granted in an hour than the quota, though the   *)
(* window rolls only when the breaker is asked; each time that a thread rolls  *)
(* it after calls of the new hour were granted gives the quota once more.      *)
QuotaKept == granted <= MaxMutations * (1 + late)

(* The limits of one server process hold between resets. *)
LimitsHold ==
    resets = 0 =>
        /\ Cardinality(running) <= MaxConcurrent
        /\ \A i \in running : made[i] <= MaxCalls

=============================================================================
