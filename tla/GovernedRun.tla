---------------------------- MODULE GovernedRun ----------------------------
(***************************************************************************)
(* The governed fault experiments of scripts/run_stage4_golden_incident.py *)
(* (_run_experiment_impl): runner processes that reserve an attempt under  *)
(* a budget, inject one fault into the cluster, let the agents respond,    *)
(* freeze a verdict and take the fault back.                               *)
(*                                                                         *)
(* A step is what one file or cluster call changes; an exception, a        *)
(* KeyboardInterrupt or a timeout is Interrupt, which enters the except    *)
(* clause of the runner, and the death of a process is Kill.               *)
(***************************************************************************)
EXTENDS Naturals, FiniteSets

CONSTANTS
    Runners,       \* runner processes on one checkout
    Experiments,   \* experiment identifiers
    Limit,         \* attempts of one protocol fingerprint
    MaxTries,      \* MAX_POSTFLIGHT_CLEANUP_ATTEMPTS
    MaxInterrupts, MaxKills   \* bounds of the model

VARIABLES
    pc, exp,       \* where each runner is, and its EXPERIMENT_ID
    bound,         \* the runners that know the uid of their fault
    handler,       \* the runners that are in the except clause
    tries,         \* attempts of the cleanup under way
    lock,          \* .reservation.lock: "free", its holder, or "stale"
    marker,        \* state and token of each <experiment>.attempt.json
    primary,       \* <experiment>.json
    files,         \* the other evidence of each experiment
    poisoned,      \* the poisoned-environment record exists
    fault,         \* whose TARGET_CHAOS_NAME object is in the cluster
    foreign,       \* somebody else's Chaos object is in the cluster
    injected,      \* experiments whose fault ever was in the cluster
    lost,          \* experiments whose runner died or fell out of its handler
    budget

process == <<pc, exp, bound, handler, tries>>
disk    == <<lock, marker, primary, files, poisoned>>
cluster == <<fault, foreign, injected>>
governedVars == <<process, disk, cluster, lost, budget>>

NoMarker == [state |-> "absent", token |-> "none"]

\* Where a runner has no reservation, an unused one, and a crossed T0.
Unreserved == {"gating", "ready", "counting", "marking", "unlocking"}
Reserved   == {"reserved", "preflighted", "clear", "consumed", "releasing", "noting"}
Crossed    == {"crossed", "applied", "failed", "observing", "running", "completing",
               "cleaning", "looking", "poisoning", "recording", "reporting", "accepting"}

Spent == {x \in Experiments : marker[x].state \in {"CONSUMED", "COMPLETED"}}

(* Where each runner is, and what the files and the cluster can hold.      *)
GovernedTypeOK ==
    /\ pc \in [Runners -> {"off", "handling"} \cup Unreserved \cup Reserved \cup Crossed]
    /\ exp \in [Runners -> Experiments \cup {"none"}]
    /\ bound \subseteq Runners /\ handler \subseteq Runners
    /\ tries \in [Runners -> 0 .. MaxTries]
    /\ lock \in Runners \cup {"free", "stale"}
    /\ marker \in [Experiments -> [state : {"absent", "RESERVED", "CONSUMED", "COMPLETED"},
                                   token : Runners \cup {"none"}]]
    /\ primary \in [Experiments -> {"absent", "failed", "invalid", "judged"}]
    /\ files \in [Experiments -> SUBSET {"preflight", "prefault", "frozen", "inconclusive",
                                         "clean", "dirty", "acceptance"}]
    /\ poisoned \in BOOLEAN /\ foreign \in BOOLEAN
    /\ fault \in Experiments \cup {"none"}
    /\ injected \subseteq Experiments /\ lost \subseteq Experiments

GovernedInit ==
    /\ pc = [p \in Runners |-> "off"] /\ exp = [p \in Runners |-> "none"]
    /\ bound = {} /\ handler = {} /\ tries = [p \in Runners |-> 0]
    /\ lock = "free" /\ marker = [x \in Experiments |-> NoMarker]
    /\ primary = [x \in Experiments |-> "absent"]
    /\ files = [x \in Experiments |-> {}]
    /\ poisoned = FALSE /\ fault = "none" /\ foreign = FALSE
    /\ injected = {} /\ lost = {}
    /\ budget = [interrupts |-> MaxInterrupts, kills |-> MaxKills]

At(p, where) == pc[p] = where

Goes(p, where) ==
    /\ pc' = [pc EXCEPT ![p] = where]
    /\ UNCHANGED <<exp, bound, handler, tries>>

Ends(p) ==
    /\ pc' = [pc EXCEPT ![p] = "off"] /\ exp' = [exp EXCEPT ![p] = "none"]
    /\ bound' = bound \ {p} /\ handler' = handler \ {p}
    /\ tries' = [tries EXCEPT ![p] = 0]

Files(x, file) == files' = [files EXCEPT ![x] = @ \cup {file}]

Marks(x, state, p) == marker' = [marker EXCEPT ![x] = [state |-> state, token |-> p]]

\* The list of Chaos objects, read cluster-wide, is empty. A read may always fail.
ZeroChaos == fault = "none" /\ ~foreign

-----------------------------------------------------------------------------
(* Before T0. *)

\* An identifier that no file names, in an environment that is not poisoned.
Begin(p) ==
    /\ At(p, "off") /\ ~poisoned
    /\ \E x \in Experiments :
        /\ marker[x] = NoMarker /\ primary[x] = "absent" /\ files[x] = {}
        /\ exp' = [exp EXCEPT ![p] = x]
    /\ pc' = [pc EXCEPT ![p] = "gating"]
    /\ UNCHANGED <<bound, handler, tries, disk, cluster, lost, budget>>

\* Telemetry, baseline and the first look at the cluster, before any reservation.
Gates(p) ==
    /\ At(p, "gating")
    /\ \/ ZeroChaos /\ Goes(p, "ready")
       \/ Ends(p)
    /\ UNCHANGED <<disk, cluster, lost, budget>>

Locks(p) ==
    /\ At(p, "ready") /\ ~poisoned /\ lock = "free"
    /\ lock' = p /\ Goes(p, "counting")
    /\ UNCHANGED <<marker, primary, files, poisoned, cluster, lost, budget>>

IsRefused(p) ==
    /\ At(p, "ready") /\ (poisoned \/ lock # "free")
    /\ Ends(p) /\ UNCHANGED <<disk, cluster, lost, budget>>

\* Mutant: an unused reservation does not occupy a slot.
X_HasSlot(p) == ~poisoned /\ marker[exp[p]] = NoMarker /\ Cardinality(Spent) < Limit

HasSlot(p) ==
    /\ ~poisoned /\ marker[exp[p]] = NoMarker
    /\ Cardinality({x \in Experiments : marker[x] # NoMarker}) < Limit

Counts(p) ==
    /\ At(p, "counting")
    /\ \/ HasSlot(p) /\ Goes(p, "marking") /\ UNCHANGED lock
       \/ ~HasSlot(p) /\ Ends(p) /\ lock' = "free"
    /\ UNCHANGED <<marker, primary, files, poisoned, cluster, lost, budget>>

Reserves(p) ==
    /\ At(p, "marking")
    /\ Marks(exp[p], "RESERVED", p) /\ Goes(p, "unlocking")
    /\ UNCHANGED <<lock, primary, files, poisoned, cluster, lost, budget>>

Unlocks(p) ==
    /\ At(p, "unlocking")
    /\ lock' = "free" /\ Goes(p, "reserved")
    /\ UNCHANGED <<marker, primary, files, poisoned, cluster, lost, budget>>

\* The second and third look, the frozen preflight, and abort_before_fault.
Preflights(p) ==
    /\ At(p, "reserved") /\ ZeroChaos
    /\ Files(exp[p], "preflight") /\ Goes(p, "preflighted")
    /\ UNCHANGED <<lock, marker, primary, poisoned, cluster, lost, budget>>

Clears(p) ==
    /\ At(p, "preflighted") /\ ZeroChaos /\ Goes(p, "clear")
    /\ UNCHANGED <<disk, cluster, lost, budget>>

Aborts(p) ==
    /\ pc[p] \in {"reserved", "preflighted"} /\ Goes(p, "releasing")
    /\ UNCHANGED <<disk, cluster, lost, budget>>

Releasable(p) == marker[exp[p]] = [state |-> "RESERVED", token |-> p]

Releases(p) ==
    /\ At(p, "releasing") /\ Goes(p, "noting")
    /\ IF Releasable(p) THEN marker' = [marker EXCEPT ![exp[p]] = NoMarker]
                        ELSE UNCHANGED marker
    /\ UNCHANGED <<lock, primary, files, poisoned, cluster, lost, budget>>

NotesPrefault(p) ==
    /\ At(p, "noting") /\ Files(exp[p], "prefault") /\ Ends(p)
    /\ UNCHANGED <<lock, marker, primary, poisoned, cluster, lost, budget>>

\* A marker that is not this runner's RESERVED one raises.
Consumes(p) ==
    /\ At(p, "clear")
    /\ \/ /\ Releasable(p)
          /\ Marks(exp[p], "CONSUMED", p) /\ Goes(p, "consumed")
       \/ /\ ~Releasable(p) /\ UNCHANGED marker
          /\ handler' = handler \cup {p} /\ pc' = [pc EXCEPT ![p] = "releasing"]
          /\ UNCHANGED <<exp, bound, tries>>
    /\ UNCHANGED <<lock, primary, files, poisoned, cluster, lost, budget>>

-----------------------------------------------------------------------------
(* From T0 to the verdict. *)

Crosses(p) ==
    /\ At(p, "consumed") /\ Goes(p, "crossed")
    /\ UNCHANGED <<disk, cluster, lost, budget>>

\* kubectl create: refused if the name is taken; a failed reply tells nothing.
Applies(p) ==
    /\ At(p, "crossed")
    /\ \/ /\ fault = "none" /\ fault' = exp[p] /\ injected' = injected \cup {exp[p]}
          /\ \E reply \in {"applied", "failed"} : Goes(p, reply)
       \/ Goes(p, "failed") /\ UNCHANGED <<fault, injected>>
    /\ UNCHANGED <<disk, foreign, lost, budget>>

Binds(p) ==
    /\ At(p, "applied")
    /\ bound' = bound \cup {p} /\ pc' = [pc EXCEPT ![p] = "observing"]
    /\ UNCHANGED <<exp, handler, tries, disk, cluster, lost, budget>>

Proves(p) ==
    /\ At(p, "observing") /\ Goes(p, "running")
    /\ UNCHANGED <<disk, cluster, lost, budget>>

\* The remediation of handle_incident may delete the fault of its own run.
Remediates(p) ==
    /\ At(p, "running") /\ fault = exp[p]
    /\ fault' = "none"
    /\ UNCHANGED <<process, disk, foreign, injected, lost, budget>>

Verdict(where) == CASE where = "failed"    -> "failed"
                    [] where = "observing" -> "invalid"
                    [] where = "running"   -> "judged"

\* The three places that freeze the primary evidence; one that exists is kept.
Freezes(p) ==
    /\ pc[p] \in {"failed", "observing", "running"}
    /\ primary[exp[p]] = "absent"
    /\ primary' = [primary EXCEPT ![exp[p]] = Verdict(pc[p])]
    /\ Goes(p, "completing")
    /\ UNCHANGED <<lock, marker, files, poisoned, cluster, lost, budget>>

Completes(p) ==
    /\ At(p, "completing") /\ marker[exp[p]] = [state |-> "CONSUMED", token |-> p]
    /\ Marks(exp[p], "COMPLETED", p) /\ Goes(p, "cleaning")
    /\ UNCHANGED <<lock, primary, files, poisoned, cluster, lost, budget>>

-----------------------------------------------------------------------------
(* reconcile_stage4_postflight_cleanup *)

\* Only an object whose uid this run knows is deleted, and the call may fail.
Deletes(p) ==
    /\ At(p, "cleaning")
    /\ \/ fault = exp[p] /\ p \in bound /\ fault' = "none"
       \/ UNCHANGED fault
    /\ pc' = [pc EXCEPT ![p] = "looking"] /\ tries' = [tries EXCEPT ![p] = @ + 1]
    /\ UNCHANGED <<exp, bound, handler, disk, foreign, injected, lost, budget>>

Looks(p) ==
    /\ At(p, "looking")
    /\ \/ ZeroChaos /\ Goes(p, "recording")
       \/ tries[p] < MaxTries /\ Goes(p, "cleaning")
       \/ tries[p] = MaxTries /\ Goes(p, "poisoning")
    /\ UNCHANGED <<disk, cluster, lost, budget>>

Poisons(p) ==
    /\ At(p, "poisoning")
    /\ poisoned' = TRUE /\ Goes(p, "reporting")
    /\ UNCHANGED <<lock, marker, primary, files, cluster, lost, budget>>

\* cleanup.json; then a judged run that was not interrupted goes on to acceptance.
Records(p) ==
    /\ pc[p] \in {"recording", "reporting"}
    /\ Files(exp[p], IF At(p, "recording") THEN "clean" ELSE "dirty")
    /\ IF p \notin handler /\ primary[exp[p]] = "judged" THEN Goes(p, "accepting") ELSE Ends(p)
    /\ UNCHANGED <<lock, marker, primary, poisoned, cluster, lost, budget>>

Accepts(p) ==
    /\ At(p, "accepting") /\ Files(exp[p], "acceptance") /\ Ends(p)
    /\ UNCHANGED <<lock, marker, primary, poisoned, cluster, lost, budget>>

-----------------------------------------------------------------------------
(* The except clause of the runner. *)

\* Mutant: T0 counts as crossed only once kubectl create has returned.
X_Handler(p) ==
    CASE pc[p] \in Crossed \ {"crossed", "applied", "failed"} -> "handling"
      [] marker[exp[p]].state = "CONSUMED" -> "noting"
      [] OTHER -> "releasing"

Handler(p) ==
    CASE pc[p] \in Crossed -> "handling"
      [] pc[p] \in Reserved /\ marker[exp[p]].state = "CONSUMED" -> "noting"
      [] OTHER -> "releasing"

Interrupt(p) ==
    /\ pc[p] # "off" /\ budget.interrupts > 0
    /\ budget' = [budget EXCEPT !.interrupts = @ - 1]
    /\ IF pc[p] \in Unreserved \/ p \in handler
       THEN /\ Ends(p)
            /\ lock' = IF lock = p THEN "free" ELSE lock
            /\ lost' = IF p \in handler THEN lost \cup {exp[p]} ELSE lost
       ELSE /\ pc' = [pc EXCEPT ![p] = Handler(p)]
            /\ handler' = handler \cup {p} /\ tries' = [tries EXCEPT ![p] = 0]
            /\ UNCHANGED <<exp, bound, lock, lost>>
    /\ UNCHANGED <<marker, primary, files, poisoned, cluster>>

\* Only a primary record that has the key "gate_g4_pass" counts as a verdict.
Classification(x) == IF primary[x] \in {"failed", "judged"} THEN "frozen" ELSE "inconclusive"

\* Mutant: the handler cleans up without leaving an interruption record.
X_Handles(p) ==
    /\ At(p, "handling") /\ Goes(p, "cleaning")
    /\ UNCHANGED <<disk, cluster, lost, budget>>

\* The interruption record, then the cleanup, which refuses to run a second time.
Handles(p) ==
    /\ At(p, "handling")
    /\ IF files[exp[p]] \cap {"frozen", "inconclusive"} = {}
       THEN Files(exp[p], Classification(exp[p])) ELSE UNCHANGED files
    /\ IF files[exp[p]] \cap {"clean", "dirty"} = {} THEN Goes(p, "cleaning") ELSE Ends(p)
    /\ UNCHANGED <<lock, marker, primary, poisoned, cluster, lost, budget>>

Kill(p) ==
    /\ pc[p] # "off" /\ budget.kills > 0
    /\ budget' = [budget EXCEPT !.kills = @ - 1]
    /\ Ends(p) /\ lock' = IF lock = p THEN "stale" ELSE lock
    /\ lost' = lost \cup {exp[p]}
    /\ UNCHANGED <<marker, primary, files, poisoned, cluster>>

-----------------------------------------------------------------------------
(* Other users of the cluster, and the operator who verifies a poisoned one. *)

ForeignChaos ==
    /\ foreign' = ~foreign
    /\ UNCHANGED <<process, disk, fault, injected, lost, budget>>

OperatorVerifies ==
    /\ poisoned \/ lock = "stale" \/ fault \in lost
    /\ \A p \in Runners : At(p, "off")
    /\ poisoned' = FALSE /\ lock' = "free" /\ fault' = "none" /\ foreign' = FALSE
    /\ UNCHANGED <<process, marker, primary, files, injected, lost, budget>>

GovernedNext ==
    \/ \E p \in Runners :
        \/ Begin(p) \/ Gates(p) \/ Locks(p) \/ IsRefused(p) \/ Counts(p) \/ Reserves(p)
        \/ Unlocks(p) \/ Preflights(p) \/ Clears(p) \/ Aborts(p) \/ Releases(p)
        \/ NotesPrefault(p) \/ Consumes(p) \/ Crosses(p) \/ Applies(p) \/ Binds(p)
        \/ Proves(p) \/ Remediates(p) \/ Freezes(p) \/ Completes(p) \/ Deletes(p)
        \/ Looks(p) \/ Poisons(p) \/ Records(p) \/ Accepts(p) \/ Handles(p)
        \/ Interrupt(p) \/ Kill(p)
    \/ ForeignChaos \/ OperatorVerifies

GovernedSpec == GovernedInit /\ [][GovernedNext]_governedVars

-----------------------------------------------------------------------------
(* A fault that is in the cluster always has somebody to answer for it:    *)
(* the run that injected it and has yet to take it back, the poison record *)
(* that stops every other run, or a runner that died or was interrupted in *)
(* its own handler (the except clause and the two cleanups of the runner). *)
FaultIsAccounted ==
    fault \in Experiments =>
        \/ poisoned \/ fault \in lost
        \/ \E p \in Runners : exp[p] = fault /\ pc[p] \in Crossed \cup {"handling"}

(* Attempts stay within the budget of their protocol whatever is released, *)
(* interrupted or killed, and no attempt whose fault reached the cluster   *)
(* is ever given back (reserve_ and release_experiment_attempt).           *)
BudgetHolds ==
    /\ Cardinality({x \in Experiments : marker[x] # NoMarker}) =< Limit
    /\ injected \subseteq Spent

(* An attempt that was spent leaves a record that says how it ended, and   *)
(* a fault that was injected one that says so: the verdict, or the note of *)
(* the interruption; pre-fault evidence only speaks of faults never made.  *)
SpentIsRecorded ==
    \A x \in Spent \ lost : (\A p \in Runners : exp[p] # x) =>
        \/ primary[x] # "absent"
        \/ files[x] \cap {"frozen", "inconclusive"} # {}
        \/ "prefault" \in files[x] /\ x \notin injected

(* "Check if a durable primary evidence file already exists on disk": what *)
(* an interruption record calls inconclusive has no verdict beside it.     *)
VerdictIsKnown ==
    \A x \in Experiments : "inconclusive" \in files[x] => primary[x] = "absent"
=============================================================================
