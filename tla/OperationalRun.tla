---------------------------- MODULE OperationalRun ----------------------------
(***************************************************************************)
(* The runs of handle_incident in operational mode (agents/coordinator.py,  *)
(* with the remediation role of call_agent and agents/action_execution.py): *)
(* one server process runs several incidents, each a coroutine that runs    *)
(* from one await to the next in one step, except where a thread may come   *)
(* in between: the endpoint that pauses the breaker is run by a thread, so   *)
(* that the start of a mutation is three steps.  All may act on one          *)
(* Kubernetes object, whose resourceVersion is version.                     *)
(*                                                                         *)
(* It composes the breaker of module Breaker with what the other components *)
(* promise: the journal's record of one process (ExecutionJournal) and the  *)
(* gate's answer to the one request a run waits for (ApprovalGate).         *)
(***************************************************************************)
EXTENDS Breaker, FiniteSets

CONSTANTS Actions,     \* identities of mutating calls a model can make
          MaxTurns,    \* bound: mutating calls of a run
          MaxFaults,   \* bound: journal, audit log or thread failures
          MaxCancels,  \* bound: cancelled runs
          MaxCrashes,  \* bound: deaths of the process
          MaxPauses,   \* bound: pauses by an operator
          MaxResets    \* bound: resets by an operator

ASSUME RunAssumption ==
    /\ MaxTurns \in Nat /\ MaxFaults \in Nat /\ MaxCancels \in Nat /\ MaxCrashes \in Nat
    /\ MaxPauses \in Nat /\ MaxResets \in Nat
    /\ IsFiniteSet(Incidents)

VARIABLES
    up,        \* whether the process runs
    breaker,   \* its circuit breaker
    pc,        \* run -> where it is, mostly the await it is in
    record,    \* run -> phase and state in the journal
    turns,     \* run -> mutating calls its model has made
    plan,      \* run -> the action it prepared and the version it displays
    decision,  \* run -> approval_record["decision"] of its last action
    barred,    \* run -> actions that ended in a terminal error
    thread,    \* run -> its last mutation: none, flying, or how it returned
    seen,      \* run -> what was observed after its last mutation
    outcome,   \* run -> how its remediation ended
    verdict,   \* run -> what the final verification said
    version,   \* the version of the object
    landed,    \* version -> mutations prepared from it that were applied
    slipped,   \* mutations started under an open breaker since it opened
    budget     \* what is left of the bounds

process == <<up, breaker, budget>>
remediation == <<turns, plan, decision, barred, thread, seen>>
world == <<version, landed, slipped>>
vars == <<process, pc, record, remediation, outcome, verdict, world>>

Awaits == {"agents", "deciding", "preparing", "waiting", "applying", "observing",
           "verifying", "reporting", "scoring"}
(* Between two awaits, with the event loop still in its hands: the breaker     *)
(* was found closed; the start of the mutation is journaled.                   *)
Held == {"cleared", "starting"}
Inside == Awaits \cup Held
Bounds == [faults : 0 .. MaxFaults, cancels : 0 .. MaxCancels, crashes : 0 .. MaxCrashes,
           pauses : 0 .. MaxPauses, resets : 0 .. MaxResets]
MaxVersion == MaxTurns * Cardinality(Incidents)

Unbegun == [phase |-> "none", state |-> "none"]
Working == [phase |-> "working", state |-> "running"]
Applying == [phase |-> "applying", state |-> "running"]
Over(s) == [phase |-> "finished", state |-> s]
Records == {Unbegun, Working, Applying} \cup
           {Over(s) : s \in {"completed", "failed", "cancelled", "interrupted", "uncertain"}}
Plan(a, v) == [action |-> a, version |-> v]
NoPlan == Plan("none", 0)
Plans == [action : Actions \cup {"none"}, version : Nat]

TypeOK ==
    /\ up \in BOOLEAN /\ breaker \in Breaker /\ budget \in Bounds
    /\ pc \in [Incidents -> Inside \cup {"idle", "queued", "over"}]
    /\ record \in [Incidents -> Records]
    /\ turns \in [Incidents -> 0 .. MaxTurns]
    /\ plan \in [Incidents -> Plans]
    /\ decision \in [Incidents -> {"none", "pending", "approved", "rejected", "timeout",
                                   "permit_invalid"}]
    /\ barred \in [Incidents -> SUBSET Actions]
    /\ thread \in [Incidents -> {"none", "flying", "applied", "conflict", "unknown"}]
    /\ seen \in [Incidents -> {"none", "passed", "failed", "unknown"}]
    /\ outcome \in [Incidents -> {"open", "manual", "target_mismatch", "unprepared",
                                  "no_action", "rejected", "timeout", "permit_invalid", "done"}]
    /\ verdict \in [Incidents -> {"none", "passed", "failed", "inconclusive"}]
    /\ version \in Nat /\ landed \in [0 .. MaxVersion -> Nat]
    /\ slipped \in Nat

Init ==
    /\ up = TRUE /\ breaker = Closed
    /\ budget = [faults |-> MaxFaults, cancels |-> MaxCancels, crashes |-> MaxCrashes,
                 pauses |-> MaxPauses, resets |-> MaxResets]
    /\ pc = [r \in Incidents |-> "idle"]
    /\ record = [r \in Incidents |-> Unbegun]
    /\ turns = [r \in Incidents |-> 0]
    /\ plan = [r \in Incidents |-> NoPlan]
    /\ decision = [r \in Incidents |-> "none"]
    /\ barred = [r \in Incidents |-> {}]
    /\ thread = [r \in Incidents |-> "none"]
    /\ seen = [r \in Incidents |-> "none"]
    /\ outcome = [r \in Incidents |-> "open"]
    /\ verdict = [r \in Incidents |-> "none"]
    /\ version = 0
    /\ landed = [v \in 0 .. MaxVersion |-> 0]
    /\ slipped = 0

-----------------------------------------------------------------------------
(* No other run has the event loop.  Threads do not ask for it. *)
HasLoop(r) == \A q \in Incidents \ {r} : pc[q] \notin Held
At(r, here) == up /\ pc[r] = here /\ HasLoop(r)
Goes(r, there) == pc' = [pc EXCEPT ![r] = there]
Notes(r, what) == record' = [record EXCEPT ![r] = what]
Spends(what) == budget[what] > 0 /\ budget' = [budget EXCEPT ![what] = @ - 1]

(* A terminal note, which may fail and leave the record as it was. *)
Settles(r, s) ==
    \/ Notes(r, Over(s)) /\ UNCHANGED budget
    \/ Spends("faults") /\ UNCHANGED record

(* The journal begins the execution when its dispatch is admitted. *)
Admit(r) ==
    /\ At(r, "idle") /\ Goes(r, "queued") /\ Notes(r, Working)
    /\ UNCHANGED <<process, remediation, outcome, verdict, world>>

(* handle_incident up to its first await: the breaker admits it or refuses. *)
Enters(r) ==
    /\ At(r, "queued") /\ Admits(breaker)
    /\ breaker' = Entered(breaker) /\ Goes(r, "agents")
    /\ UNCHANGED <<up, budget, record, remediation, outcome, verdict, world>>

IsRefused(r) ==
    /\ At(r, "queued") /\ ~Admits(breaker)
    /\ Settles(r, "failed") /\ Goes(r, "over")
    /\ UNCHANGED <<up, breaker, remediation, outcome, verdict, world>>

(* Triage and diagnosis are done: P0 is left to an operator, a target the     *)
(* alert does not support is not acted upon.                                  *)
Diagnosed(r) ==
    /\ At(r, "agents")
    /\ \/ Goes(r, "deciding") /\ UNCHANGED outcome
       \/ \E o \in {"manual", "target_mismatch"} :
             outcome' = [outcome EXCEPT ![r] = o] /\ Goes(r, "verifying")
    /\ UNCHANGED <<process, record, remediation, verdict, world>>

-----------------------------------------------------------------------------
(* The remediation role: its model makes a mutating call or concludes.        *)
TurnsLeft(r) == turns[r] < MaxTurns

(* A call without the evidence it needs, or against the policy, is barred for  *)
(* good; one the breaker refuses, or that repeats too often, comes to nothing. *)
IsBarred(r, a) ==
    /\ At(r, "deciding") /\ TurnsLeft(r) /\ a \notin barred[r]
    /\ turns' = [turns EXCEPT ![r] = @ + 1]
    /\ barred' = [barred EXCEPT ![r] = @ \cup {a}]
    /\ UNCHANGED <<process, pc, record, plan, decision, thread, seen, outcome, verdict, world>>

Proposes(r, a) ==
    /\ At(r, "deciding") /\ TurnsLeft(r) /\ a \notin barred[r]
    /\ turns' = [turns EXCEPT ![r] = @ + 1]
    /\ breaker' = Checked(breaker, r, TRUE)
    /\ \/ /\ Grants(breaker, r, TRUE)
          /\ plan' = [plan EXCEPT ![r] = Plan(a, 0)]
          /\ Goes(r, "preparing")
       \/ UNCHANGED <<plan, pc>>
    /\ UNCHANGED <<up, budget, record, decision, barred, thread, seen, outcome, verdict, world>>

(* The exact patch is prepared and its approval requested, or it cannot be.   *)
Prepared(r) ==
    /\ At(r, "preparing")
    /\ plan' = [plan EXCEPT ![r] = Plan(@.action, version)]
    /\ decision' = [decision EXCEPT ![r] = "pending"]
    /\ Goes(r, "waiting") /\ Notes(r, Working)
    /\ UNCHANGED <<process, turns, barred, thread, seen, outcome, verdict, world>>

Unprepared(r) ==
    /\ At(r, "preparing")
    /\ outcome' = [outcome EXCEPT ![r] = "unprepared"] /\ Goes(r, "verifying")
    /\ UNCHANGED <<process, record, remediation, verdict, world>>

Answers(r, d) ==
    /\ At(r, "waiting") /\ decision[r] = "pending"
    /\ decision' = [decision EXCEPT ![r] = d]
    /\ UNCHANGED <<process, pc, record, turns, plan, barred, thread, seen, outcome, verdict, world>>

(* The wait for the decision ends; what was pending has timed out, and what    *)
(* was approved may have expired before its permit is consumed.               *)
X_IsDenied(r) ==
    LET d == IF decision[r] = "approved" THEN "permit_invalid" ELSE decision[r]
    IN  /\ At(r, "waiting") /\ d # "pending"
        /\ decision' = [decision EXCEPT ![r] = d]
        /\ outcome' = [outcome EXCEPT ![r] = d] /\ Goes(r, "verifying")
        /\ UNCHANGED <<process, record, turns, plan, barred, thread, seen, verdict, world>>
Denial(d) ==
    CASE d = "pending"  -> "timeout"
      [] d = "approved" -> "permit_invalid"
      [] OTHER          -> d
IsDenied(r) ==
    /\ At(r, "waiting")
    /\ decision' = [decision EXCEPT ![r] = Denial(@)]
    /\ outcome' = [outcome EXCEPT ![r] = Denial(decision[r])] /\ Goes(r, "verifying")
    /\ UNCHANGED <<process, record, turns, plan, barred, thread, seen, verdict, world>>

(* An approved action is applied, unless the breaker opened meanwhile, by a   *)
(* thread that outlives its run: the breaker is asked, the start is journaled  *)
(* and the thread started, without an await, but not without a pause.          *)
X_MayStart(r) == decision[r] = "approved"
MayStart(r) == decision[r] = "approved" /\ ~breaker.tripped

IsCleared(r) ==
    /\ At(r, "waiting") /\ MayStart(r) /\ Goes(r, "cleared")
    /\ UNCHANGED <<process, record, remediation, outcome, verdict, world>>

NotesStart(r) ==
    /\ At(r, "cleared") /\ Notes(r, Applying) /\ Goes(r, "starting")
    /\ UNCHANGED <<process, remediation, outcome, verdict, world>>

StartsMutation(r) ==
    /\ At(r, "starting") /\ Goes(r, "applying")
    /\ thread' = [thread EXCEPT ![r] = "flying"]
    /\ seen' = [seen EXCEPT ![r] = "none"]
    /\ slipped' = IF breaker.tripped THEN slipped + 1 ELSE slipped
    /\ UNCHANGED <<process, record, turns, plan, decision, barred, outcome, verdict>>
    /\ UNCHANGED <<version, landed>>

(* The API server applies the patch only to the version it was prepared from. *)
(* A reply may be lost, or the request may never arrive.                      *)
X_Matches(r) == TRUE
Matches(r) == version = plan[r].version

Lands(r) ==
    /\ thread[r] = "flying"
    /\ \/ /\ Matches(r)
          /\ version' = version + 1
          /\ landed' = [landed EXCEPT ![plan[r].version] = @ + 1]
          /\ \E t \in {"applied", "unknown"} : thread' = [thread EXCEPT ![r] = t]
       \/ /\ \E t \in {"unknown"} \cup (IF Matches(r) THEN {} ELSE {"conflict"}) :
                thread' = [thread EXCEPT ![r] = t]
          /\ UNCHANGED <<version, landed>>
    /\ UNCHANGED <<process, pc, record, turns, plan, decision, barred, seen, outcome, verdict>>
    /\ UNCHANGED slipped

Returned(r) ==
    /\ At(r, "applying") /\ thread[r] \in {"applied", "conflict"}
    /\ Notes(r, Working)
    /\ barred' = IF thread[r] = "conflict" THEN [barred EXCEPT ![r] = @ \cup {plan[r].action}]
                 ELSE barred
    /\ Goes(r, "observing")
    /\ UNCHANGED <<process, turns, plan, decision, thread, seen, outcome, verdict, world>>

(* Only an observation that the incident persists lets the model act again.   *)
X_Continues(o) == o # "passed"
Continues(o) == o = "failed"

Observes(r, o) ==
    /\ At(r, "observing")
    /\ seen' = [seen EXCEPT ![r] = o]
    /\ IF Continues(o) THEN Goes(r, "deciding") /\ UNCHANGED outcome
       ELSE Goes(r, "verifying") /\ outcome' = [outcome EXCEPT ![r] = "done"]
    /\ UNCHANGED <<process, record, turns, plan, decision, barred, thread, verdict, world>>

Concludes(r) ==
    /\ At(r, "deciding")
    /\ outcome' = [outcome EXCEPT ![r] = IF decision[r] = "approved" THEN "done" ELSE "no_action"]
    /\ Goes(r, "verifying")
    /\ UNCHANGED <<process, record, remediation, verdict, world>>

-----------------------------------------------------------------------------
(* approval_blocked or remediation_blocked; what the run reports; the reason. *)
X_Blocked(r) == outcome[r] \in {"target_mismatch", "unprepared", "no_action"}
Blocked(r) == outcome[r] \in {"target_mismatch", "unprepared", "no_action", "rejected", "timeout",
                               "permit_invalid"}
Resolved(r) == verdict[r] = "passed" /\ ~Blocked(r)
Reason(r) ==
    CASE outcome[r] = "rejected"        -> "approval_rejected"
      [] outcome[r] = "timeout"         -> "approval_timeout"
      [] outcome[r] = "target_mismatch" -> "escalation"
      [] outcome[r] = "manual"          -> "manual_runbook"
      [] OTHER                          -> "unresolved"

Verified(r, v) ==
    /\ At(r, "verifying")
    /\ verdict' = [verdict EXCEPT ![r] = v] /\ Goes(r, "reporting")
    /\ UNCHANGED <<process, record, remediation, outcome, world>>

(* Comms have published; the record is persisted and the execution completed. *)
Completes(r) ==
    /\ At(r, "reporting") /\ Goes(r, "scoring") /\ Notes(r, Over("completed"))
    /\ UNCHANGED <<process, remediation, outcome, verdict, world>>

Finishes(r) ==
    /\ At(r, "scoring") /\ Goes(r, "over")
    /\ breaker' = Left(breaker, r, Resolved(r), Reason(r))
    /\ UNCHANGED <<up, budget, record, remediation, outcome, verdict, world>>

(* A model or a publication fails, a mutation returns without a certain       *)
(* outcome, the breaker is found open, or, as a fault, anything else raises.  *)
Breaks(r) ==
    \/ At(r, "agents") \/ At(r, "deciding") \/ At(r, "reporting")
    \/ At(r, "applying") /\ thread[r] = "unknown"
    \/ At(r, "waiting") /\ decision[r] = "approved" /\ breaker.tripped

MayFault(r) ==
    /\ up /\ pc[r] \in Inside /\ HasLoop(r)
    /\ pc[r] = "applying" => thread[r] # "flying"

X_Ending(r, s) == s
Ending(r, s) == IF record[r].phase = "applying" THEN "uncertain" ELSE s

Fails(r) ==
    /\ Breaks(r) /\ Settles(r, Ending(r, "failed")) /\ Goes(r, "over")
    /\ breaker' = Left(breaker, r, FALSE, "system_error")
    /\ UNCHANGED <<up, remediation, outcome, verdict, world>>

(* What raises after the run was found resolved leaves it so for the breaker.   *)
Faults(r) ==
    /\ MayFault(r) /\ Spends("faults")
    /\ \/ record[r].state = "running" /\ Notes(r, Over(Ending(r, "failed")))
       \/ UNCHANGED record
    /\ \E resolved \in {FALSE, pc[r] = "scoring" /\ Resolved(r)} :
          breaker' = Left(breaker, r, resolved, "system_error")
    /\ Goes(r, "over")
    /\ UNCHANGED <<up, remediation, outcome, verdict, world>>

(* A worker cancelled before its first step leaves no run to settle anything; *)
(* a run whose execution is terminal raises when it notes its cancellation,   *)
(* and any other note may fail.                                               *)
X_IsCancelled(r) ==
    /\ up /\ pc[r] \in Awaits /\ Spends("cancels") /\ Goes(r, "over") /\ HasLoop(r)
    /\ pc[r] # "scoring" /\ Notes(r, Over(Ending(r, "cancelled")))
    /\ UNCHANGED <<up, breaker, remediation, outcome, verdict, world>>
IsCancelled(r) ==
    /\ up /\ pc[r] \in Awaits \cup {"queued"} /\ Spends("cancels") /\ Goes(r, "over") /\ HasLoop(r)
    /\ \/ pc[r] \notin {"queued", "scoring"} /\ Notes(r, Over(Ending(r, "cancelled")))
       \/ (pc[r] \in {"queued", "scoring"} \/ budget.faults > 0) /\ UNCHANGED record
    /\ breaker' = IF pc[r] = "queued" THEN breaker ELSE Left(breaker, r, FALSE, "")
    /\ UNCHANGED <<up, remediation, outcome, verdict, world>>

-----------------------------------------------------------------------------
(* The process dies; a flying mutation may still land.  Restart reconciles    *)
(* the journal and begins with a closed breaker.                              *)
Crash ==
    /\ up /\ Spends("crashes") /\ up' = FALSE
    /\ pc' = [r \in Incidents |-> IF pc[r] = "idle" THEN "idle" ELSE "over"]
    /\ UNCHANGED <<breaker, record, remediation, outcome, verdict, world>>

X_Reconciled(rec) == IF rec.phase = "applying" THEN Over("uncertain") ELSE rec
Reconciled(rec) ==
    IF rec.state # "running" THEN rec
    ELSE Over(IF rec.phase = "applying" THEN "uncertain" ELSE "interrupted")

Restart ==
    /\ ~up /\ up' = TRUE
    /\ breaker' = Closed /\ slipped' = 0
    /\ record' = [r \in Incidents |-> Reconciled(record[r])]
    /\ UNCHANGED <<budget, pc, remediation, outcome, verdict, version, landed>>

(* A thread of the server pauses the breaker, whoever has the loop; it is in   *)
(* the loop that it is reset.                                                  *)
OperatorPauses ==
    /\ up /\ Spends("pauses") /\ breaker' = Paused(breaker)
    /\ UNCHANGED <<up, pc, record, remediation, outcome, verdict, world>>

OperatorResets ==
    /\ up /\ \A r \in Incidents : pc[r] \notin Held
    /\ Spends("resets") /\ breaker' = Reset /\ slipped' = 0
    /\ UNCHANGED <<up, pc, record, remediation, outcome, verdict, version, landed>>

(* What a run does of itself. *)
Step(r) ==
    \/ Enters(r) \/ IsRefused(r) \/ Diagnosed(r) \/ Concludes(r)
    \/ \E a \in Actions : Proposes(r, a) \/ IsBarred(r, a)
    \/ Prepared(r) \/ Unprepared(r) \/ IsDenied(r) \/ IsCleared(r) \/ NotesStart(r)
    \/ StartsMutation(r) \/ Returned(r)
    \/ \E o \in {"passed", "failed", "unknown"} : Observes(r, o)
    \/ \E v \in {"passed", "failed", "inconclusive"} : Verified(r, v)
    \/ Completes(r) \/ Finishes(r) \/ Fails(r)

Next ==
    \/ \E r \in Incidents :
          \/ Step(r) \/ Lands(r) \/ Admit(r) \/ Faults(r) \/ IsCancelled(r)
          \/ \E d \in {"approved", "rejected"} : Answers(r, d)
    \/ Crash \/ Restart \/ OperatorPauses \/ OperatorResets

Spec == Init /\ [][Next]_vars

(* The event loop schedules every coroutine that can go on, threads return    *)
(* within their request timeouts, and a dead process is started again.  An    *)
(* operator need not answer.                                                  *)
FairSpec ==
    /\ Spec
    /\ \A r \in Incidents : WF_vars(Step(r)) /\ WF_vars(Lands(r))
    /\ WF_vars(Restart)

-----------------------------------------------------------------------------
(* A mutation whose outcome is not known was journaled before it started, and *)
(* its execution says so for good: it is applying or it ended uncertain.      *)
UnknownIsSaid ==
    \A r \in Incidents :
        thread[r] \in {"flying", "unknown"} =>
            record[r].phase = "applying" \/ record[r].state = "uncertain"

(* Two mutations approved on the same displayed version are not both applied. *)
NoOverwrite == \A v \in DOMAIN landed : landed[v] <= 1

(* A run that was denied its last action, or never had one to approve, is not *)
(* reported resolved, whatever the verifier says of the environment.          *)
ResolvedIsEarned ==
    \A r \in Incidents :
        Resolved(r) => outcome[r] = "manual" \/ (decision[r] = "approved" /\ thread[r] # "none")

(* However runs end, the breaker counts exactly those in flight, so that its  *)
(* places are neither lost nor given twice; a reset forgets them.             *)
ActiveIsExact ==
    up /\ budget.resets = MaxResets =>
        breaker.active = Cardinality({r \in Incidents : pc[r] \in Inside})

(* What was approved before the breaker opened is not applied after: of all    *)
(* runs at most one may still start a mutation, the one that had the loop when *)
(* an operator paused the breaker, and none if it opened by itself.            *)
OpenBreakerHolds ==
    /\ slipped <= 1
    /\ budget.pauses = MaxPauses => slipped = 0

(* A mutation starts after another of its run only if that returned, was      *)
(* observed, and left the incident as it was.                                 *)
StartsAreInformed ==
    [][\A r \in Incidents :
          thread'[r] = "flying" /\ thread[r] \notin {"none", "flying"} =>
              thread[r] # "unknown" /\ seen[r] = "failed"]_vars

(* Every admitted run ends, whether or not an operator answers.               *)
EveryRunEnds == \A r \in Incidents : (pc[r] = "queued") ~> (pc[r] = "over")

(* Every execution that was begun is settled, if need be by a restart.        *)
EveryExecutionSettles ==
    \A r \in Incidents : (record[r].state = "running") ~> (record[r].state # "running")

(* No run and no execution stays open (handle_incident, reconcile_restart).   *)
EveryRunSettles == EveryRunEnds /\ EveryExecutionSettles
=============================================================================
