-------------------------- MODULE BugLabEngineProofs -------------------------
(***************************************************************************)
(* That the Bug Lab changes its store only by approved changes, takes back *)
(* what is not verified, resolves only what is sound, and that no task     *)
(* outlives a reset, for any contents, incidents, monitors and failures.   *)
(* The argument: one pipeline at most is alive, that of the open incident, *)
(* so nobody else writes to the store while it verifies a change or waits  *)
(* at the gate; and a reset first ends the pipeline and then the monitor,  *)
(* while the incident that is still open keeps a new one from opening.     *)
(***************************************************************************)
EXTENDS BugLabEngine, FiniteSetTheorems, TLAPS

(* One reset at a time. Two of them each start a monitor (run lab_resets). *)
OneReset == \A q, r \in Requests : q = r

(* The monitor that was started last is the only one that may be alive. *)
OneMonitor ==
    \A m \in Monitors : /\ mon[m].at # "off" => m = monTask
                        /\ mon[m].at = "off" => ~mon[m].cancel

(* A pipeline is alive only for the open incident. *)
OnePipeline ==
    \A n \in Incidents :
        /\ pipe[n].at # "off" => status[n] = "open" /\ n = incident /\ n = pipeTask
        /\ pipe[n].at = "off" => ~pipe[n].cancel

(* What a reset waits for, and what cannot happen meanwhile. *)
Resetting ==
    \A q \in Requests :
        /\ req[q].at # "off" => /\ budget.monitors > 0 /\ req[q].mon = monTask
                                /\ monTask # 0
        /\ req[q].at = "pipe" =>
               /\ req[q].pipe \in Incidents /\ (Active \/ ~avail)
               /\ \A n \in Incidents : pipe[n].at # "off" => n = req[q].pipe /\ pipe[n].cancel
        /\ req[q].at = "mon" =>
               /\ \A n \in Incidents : pipe[n].at = "off"
               /\ \A m \in Monitors : mon[m].at # "off" => mon[m].cancel

(* An approval is one of the change that waits at the gate, and is recorded. *)
Approving ==
    /\ approval.decision = "approved" =>
           approval.inc # 0 /\ approval.change \in granted[approval.inc]
    /\ \A n \in Incidents :
           pipe[n].at = "gate" =>
               \/ approval = NoApproval
               \/ approval.inc = n /\ approval.change = pipe[n].change

(* What a verification has found out so far. *)
Verification ==
    /\ \A n \in Incidents : Verifying(n) /\ avail => site = pipe[n].change.to
    /\ \A n \in Incidents :
           pipe[n].at = "browser" /\ pipe[n].ok => pipe[n].change.to \in Sound \cup Blind
    /\ \A c \in Blind : report[c] # "good"

IInv ==
    /\ TypeOK /\ OneMonitor /\ OnePipeline /\ Resetting /\ Approving /\ Verification

-----------------------------------------------------------------------------
(* Facts about the types.                                                    *)

LEMMA ConstantFacts ==
    /\ Release \in Contents /\ None \notin Contents
    /\ Plans \in Nat /\ MaxIncidents \in Nat /\ MaxMonitors \in Nat /\ MaxFaults \in Nat
    /\ MaxReports \in Nat /\ MaxMonitors > 0
BY LabAssumption DEF LabAssumption

LEMMA PipeFields ==
    ASSUME NEW x \in Pipe
    PROVE  /\ x.at \in Places /\ x.cancel \in BOOLEAN /\ x.plans \in 0 .. Plans
           /\ x.change \in Change /\ x.mode \in {"patch", "rollback", "nochange"}
           /\ x.ok \in BOOLEAN
BY DEF Pipe

LEMMA NoPipeFields ==
    /\ NoPipe \in Pipe /\ NoPipe.at = "off" /\ NoPipe.cancel = FALSE /\ NoPipe.plans = Plans
    /\ NoPipe.mode = "patch" /\ NoPipe.ok = FALSE /\ NoPipe.change = NoChange
    /\ NoChange \in Change
<1>1. NoChange \in Change
  BY ConstantFacts DEF NoChange, Change
<1>2. /\ NoPipe.at = "off" /\ NoPipe.cancel = FALSE /\ NoPipe.plans = Plans
      /\ NoPipe.mode = "patch" /\ NoPipe.ok = FALSE /\ NoPipe.change = NoChange
  BY DEF NoPipe
<1>3. Plans \in 0 .. Plans
  BY ConstantFacts
<1>4. NoPipe \in Pipe
  BY <1>1, <1>3 DEF NoPipe, Pipe, Places
<1> QED
  BY <1>1, <1>2, <1>4

LEMMA FromTo ==
    ASSUME NEW x \in Change
    PROVE  x.from \in Contents /\ x.to \in Contents
BY DEF Change

(* The ways in which a step changes the task of one pipeline. *)
LEMMA EndsFacts ==
    ASSUME pipe \in [Incidents -> Pipe], NEW n \in Incidents, Ends(n)
    PROVE  /\ pipe' \in [Incidents -> Pipe] /\ pipe'[n] = NoPipe
           /\ \A k \in Incidents \ {n} : pipe'[k] = pipe[k]
BY NoPipeFields DEF Ends

(* One field of the task of one pipeline. *)
LEMMA AtFacts ==
    ASSUME NEW g \in [Incidents -> Pipe], NEW n \in Incidents, NEW v \in Places,
           NEW h, h = [g EXCEPT ![n].at = v]
    PROVE  /\ h \in [Incidents -> Pipe] /\ h[n].at = v
           /\ h[n].cancel = g[n].cancel /\ h[n].change = g[n].change
           /\ h[n].mode = g[n].mode /\ h[n].ok = g[n].ok
           /\ h[n].plans = g[n].plans
           /\ \A k \in Incidents \ {n} : h[k] = g[k]
<1> DEFINE x == [g[n] EXCEPT !.at = v]
<1>1. x \in Pipe
  BY DEF Pipe
<1>2. /\ x.at = v /\ x.cancel = g[n].cancel /\ x.change = g[n].change
      /\ x.mode = g[n].mode /\ x.ok = g[n].ok /\ x.plans = g[n].plans
  BY DEF Pipe
<1>3. h = [g EXCEPT ![n] = x]
  OBVIOUS
<1> HIDE DEF x
<1> QED
  BY <1>1, <1>2, <1>3

LEMMA ChangeFacts ==
    ASSUME NEW g \in [Incidents -> Pipe], NEW n \in Incidents, NEW v \in Change,
           NEW h, h = [g EXCEPT ![n].change = v]
    PROVE  /\ h \in [Incidents -> Pipe] /\ h[n].change = v
           /\ h[n].at = g[n].at /\ h[n].cancel = g[n].cancel
           /\ h[n].mode = g[n].mode /\ h[n].ok = g[n].ok
           /\ h[n].plans = g[n].plans
           /\ \A k \in Incidents \ {n} : h[k] = g[k]
<1> DEFINE x == [g[n] EXCEPT !.change = v]
<1>1. x \in Pipe
  BY DEF Pipe
<1>2. /\ x.change = v /\ x.at = g[n].at /\ x.cancel = g[n].cancel
      /\ x.mode = g[n].mode /\ x.ok = g[n].ok /\ x.plans = g[n].plans
  BY DEF Pipe
<1>3. h = [g EXCEPT ![n] = x]
  OBVIOUS
<1> HIDE DEF x
<1> QED
  BY <1>1, <1>2, <1>3

LEMMA ModeFacts ==
    ASSUME NEW g \in [Incidents -> Pipe], NEW n \in Incidents, NEW v \in {"patch", "rollback", "nochange"},
           NEW h, h = [g EXCEPT ![n].mode = v]
    PROVE  /\ h \in [Incidents -> Pipe] /\ h[n].mode = v
           /\ h[n].at = g[n].at /\ h[n].cancel = g[n].cancel
           /\ h[n].change = g[n].change /\ h[n].ok = g[n].ok
           /\ h[n].plans = g[n].plans
           /\ \A k \in Incidents \ {n} : h[k] = g[k]
<1> DEFINE x == [g[n] EXCEPT !.mode = v]
<1>1. x \in Pipe
  BY DEF Pipe
<1>2. /\ x.mode = v /\ x.at = g[n].at /\ x.cancel = g[n].cancel
      /\ x.change = g[n].change /\ x.ok = g[n].ok /\ x.plans = g[n].plans
  BY DEF Pipe
<1>3. h = [g EXCEPT ![n] = x]
  OBVIOUS
<1> HIDE DEF x
<1> QED
  BY <1>1, <1>2, <1>3

LEMMA OkFacts ==
    ASSUME NEW g \in [Incidents -> Pipe], NEW n \in Incidents, NEW v \in BOOLEAN,
           NEW h, h = [g EXCEPT ![n].ok = v]
    PROVE  /\ h \in [Incidents -> Pipe] /\ h[n].ok = v
           /\ h[n].at = g[n].at /\ h[n].cancel = g[n].cancel
           /\ h[n].change = g[n].change /\ h[n].mode = g[n].mode
           /\ h[n].plans = g[n].plans
           /\ \A k \in Incidents \ {n} : h[k] = g[k]
<1> DEFINE x == [g[n] EXCEPT !.ok = v]
<1>1. x \in Pipe
  BY DEF Pipe
<1>2. /\ x.ok = v /\ x.at = g[n].at /\ x.cancel = g[n].cancel
      /\ x.change = g[n].change /\ x.mode = g[n].mode /\ x.plans = g[n].plans
  BY DEF Pipe
<1>3. h = [g EXCEPT ![n] = x]
  OBVIOUS
<1> HIDE DEF x
<1> QED
  BY <1>1, <1>2, <1>3

LEMMA GoesFacts ==
    ASSUME pipe \in [Incidents -> Pipe], NEW n \in Incidents, NEW place \in Places,
           Goes(n, place)
    PROVE  /\ pipe' \in [Incidents -> Pipe] /\ pipe'[n].at = place
           /\ pipe'[n].cancel = pipe[n].cancel /\ pipe'[n].change = pipe[n].change
           /\ pipe'[n].mode = pipe[n].mode /\ pipe'[n].ok = pipe[n].ok
           /\ pipe'[n].plans = pipe[n].plans
           /\ \A k \in Incidents \ {n} : pipe'[k] = pipe[k]
<1>1. pipe' = [pipe EXCEPT ![n].at = place]
  BY DEF Goes
<1> QED
  BY <1>1, AtFacts

(* The pipeline of n goes to a place with a change of some mode. *)
PlansWith(n, place, mode, change) ==
    pipe' = [pipe EXCEPT ![n].at = place, ![n].mode = mode, ![n].change = change]

LEMMA PlannedFacts ==
    ASSUME pipe \in [Incidents -> Pipe], NEW n \in Incidents, NEW place \in Places,
           NEW mode \in {"patch", "rollback", "nochange"}, NEW change \in Change,
           PlansWith(n, place, mode, change)
    PROVE  /\ pipe' \in [Incidents -> Pipe] /\ pipe'[n].at = place
           /\ pipe'[n].cancel = pipe[n].cancel /\ pipe'[n].change = change
           /\ pipe'[n].mode = mode /\ pipe'[n].ok = pipe[n].ok
           /\ \A k \in Incidents \ {n} : pipe'[k] = pipe[k]
<1>0. pipe' = [pipe EXCEPT ![n].at = place, ![n].mode = mode, ![n].change = change]
  BY DEF PlansWith
<1>1. PICK first : first = [pipe EXCEPT ![n].at = place]
  OBVIOUS
<1>2. PICK second : second = [first EXCEPT ![n].mode = mode]
  OBVIOUS
<1>3. pipe' = [second EXCEPT ![n].change = change]
  BY <1>0, <1>1, <1>2
<1>4. /\ first \in [Incidents -> Pipe] /\ first[n].at = place
      /\ first[n].cancel = pipe[n].cancel /\ first[n].ok = pipe[n].ok
      /\ \A k \in Incidents \ {n} : first[k] = pipe[k]
  BY <1>1, AtFacts
<1>5. /\ second \in [Incidents -> Pipe] /\ second[n].at = place /\ second[n].mode = mode
      /\ second[n].cancel = pipe[n].cancel /\ second[n].ok = pipe[n].ok
      /\ \A k \in Incidents \ {n} : second[k] = pipe[k]
  BY <1>4, <1>2, ModeFacts
<1> QED
  BY <1>3, <1>5, ChangeFacts DEF Pipe

LEMMA CheckedFacts ==
    ASSUME pipe \in [Incidents -> Pipe], NEW n \in Incidents, NEW ok \in BOOLEAN
    PROVE  pipe' = [pipe EXCEPT ![n].at = "browser", ![n].ok = ok] =>
           /\ pipe' \in [Incidents -> Pipe] /\ pipe'[n].at = "browser"
           /\ pipe'[n].cancel = pipe[n].cancel /\ pipe'[n].change = pipe[n].change
           /\ pipe'[n].mode = pipe[n].mode /\ pipe'[n].ok = ok
           /\ \A k \in Incidents \ {n} : pipe'[k] = pipe[k]
<1>0. SUFFICES
        ASSUME pipe' = [pipe EXCEPT ![n].at = "browser", ![n].ok = ok]
        PROVE  /\ pipe' \in [Incidents -> Pipe] /\ pipe'[n].at = "browser"
               /\ pipe'[n].cancel = pipe[n].cancel /\ pipe'[n].change = pipe[n].change
               /\ pipe'[n].mode = pipe[n].mode /\ pipe'[n].ok = ok
               /\ \A k \in Incidents \ {n} : pipe'[k] = pipe[k]
  OBVIOUS
<1>1. PICK first : first = [pipe EXCEPT ![n].at = "browser"]
  OBVIOUS
<1>2. pipe' = [first EXCEPT ![n].ok = ok]
  BY <1>0, <1>1
<1>3. "browser" \in Places
  BY DEF Places
<1>4. /\ first \in [Incidents -> Pipe] /\ first[n].at = "browser"
      /\ first[n].cancel = pipe[n].cancel /\ first[n].change = pipe[n].change
      /\ first[n].mode = pipe[n].mode
      /\ \A k \in Incidents \ {n} : first[k] = pipe[k]
  BY <1>1, <1>3, AtFacts
<1>5. /\ pipe' \in [Incidents -> Pipe] /\ pipe'[n].ok = ok
      /\ pipe'[n].at = first[n].at /\ pipe'[n].cancel = first[n].cancel
      /\ pipe'[n].change = first[n].change /\ pipe'[n].mode = first[n].mode
      /\ \A k \in Incidents \ {n} : pipe'[k] = first[k]
  BY <1>2, <1>4, OkFacts DEF Pipe
<1> QED
  BY <1>4, <1>5

(* The task that waits at the gate, or goes round again, is a new record. *)
LEMMA GatedFacts ==
    ASSUME NEW place \in Places, NEW change \in Change, NEW left \in 0 .. Plans,
           NEW mode \in {"patch", "rollback", "nochange"},
           NEW x, x = [NoPipe EXCEPT !.at = place, !.change = change, !.mode = mode,
                                     !.plans = left]
    PROVE  /\ x \in Pipe /\ x.at = place /\ ~x.cancel /\ x.change = change /\ x.mode = mode
<1> DEFINE first == [NoPipe EXCEPT !.at = place]
           second == [first EXCEPT !.change = change]
           third == [second EXCEPT !.mode = mode]
<1>1. first \in Pipe /\ first.at = place /\ first.cancel = FALSE
  BY NoPipeFields DEF Pipe
<1>2. x = [third EXCEPT !.plans = left]
  OBVIOUS
<1> HIDE DEF first
<1>3. second \in Pipe /\ second.at = place /\ second.cancel = FALSE /\ second.change = change
  BY <1>1 DEF Pipe
<1> HIDE DEF second
<1>4. /\ third \in Pipe /\ third.at = place /\ third.cancel = FALSE /\ third.change = change
      /\ third.mode = mode
  BY <1>3 DEF Pipe
<1> HIDE DEF third
<1> QED
  BY <1>2, <1>4 DEF Pipe

LEMMA AgainFacts ==
    ASSUME NEW left \in 0 .. Plans,
           NEW x, x = [NoPipe EXCEPT !.at = "current", !.plans = left]
    PROVE  /\ x \in Pipe /\ x.at = "current" /\ ~x.cancel
<1> DEFINE first == [NoPipe EXCEPT !.at = "current"]
<1>1. first \in Pipe /\ first.at = "current" /\ first.cancel = FALSE
  BY NoPipeFields DEF Pipe, Places
<1>2. x = [first EXCEPT !.plans = left]
  OBVIOUS
<1> HIDE DEF first
<1> QED
  BY <1>1, <1>2 DEF Pipe

-----------------------------------------------------------------------------
(* What a step of the task of incident n does to the rest, and to its own      *)
(* incident; the conjuncts of the invariant follow from these.                 *)
Stays(n) ==
    /\ pipe' \in [Incidents -> Pipe] /\ status' \in [Incidents -> Statuses]
    /\ \A k \in Incidents \ {n} : pipe'[k] = pipe[k] /\ status'[k] = status[k]
    /\ \/ pipe'[n] = NoPipe
       \/ ~pipe[n].cancel /\ ~pipe'[n].cancel /\ pipe'[n].at # "off" /\ status'[n] = status[n]
    /\ pipe[n].cancel => pipe'[n] = NoPipe /\ status' = status
    /\ avail' \in BOOLEAN /\ (avail' => avail)
    /\ UNCHANGED <<incident, pipeTask, mon, monTask, req, injected, report>>
    /\ budget'.monitors = budget.monitors

Settles(n) ==
    /\ site' \in Contents /\ suppressed' \in Contents \cup {None}
    /\ approval' \in [inc : 0 .. MaxIncidents, change : Change,
                      decision : {"none", "approved", "rejected"}]
    /\ seen' \in [Incidents -> SUBSET Contents]
    /\ pend' \in 0 .. MaxIncidents /\ filed' \in 0 .. MaxIncidents
    /\ granted' \in [Incidents -> SUBSET Change]
    /\ budget' \in [monitors : 0 .. MaxMonitors, faults : 0 .. MaxFaults,
                    reports : 0 .. MaxReports]

Asks(n) ==
    \/ approval' = approval /\ granted' = granted /\ pipe'[n].at # "gate"
    \/ approval' = NoApproval /\ pipe'[n].at # "gate"
    \/ approval' = [inc |-> n, change |-> pipe'[n].change, decision |-> "none"]

Checks(n) ==
    /\ pipe'[n].at \in {"verify", "browser"} /\ pipe'[n].mode # "nochange" /\ avail' =>
           site' = pipe'[n].change.to
    /\ pipe'[n].at = "browser" /\ pipe'[n].ok => pipe'[n].change.to \in Sound \cup Blind

(* What the three action properties say of the incident of the step. *)
Approved(n) ==
    pipe[n].at = "gate" /\ pipe'[n].at = "verify" => pipe[n].change \in granted[n]

Resolved(n) ==
    status[n] = "open" /\ status'[n] = "resolved" => site \in Sound /\ site \in seen[n]

Reverts(n) ==
    Verifying(n) /\ ~(pipe'[n].at \in {"verify", "browser"} /\ pipe'[n].mode # "nochange")
      /\ avail' =>
        status'[n] \in {"resolved", "unverified"} \/ site' = pipe[n].change.from

Whole(n) ==
    Stays(n) /\ Settles(n) /\ Asks(n) /\ Checks(n) /\ Approved(n) /\ Resolved(n) /\ Reverts(n)

(* Evidence goes to the pending file of the incident, or the workspace is lost. *)
LEMMA CheckpointFacts ==
    ASSUME TypeOK, NEW n \in Incidents, Checkpoints(n)
    PROVE  /\ pend' \in 0 .. MaxIncidents /\ filed' \in 0 .. MaxIncidents
           /\ avail' \in BOOLEAN /\ (avail' => avail)
<1>1. /\ pend \in 0 .. MaxIncidents /\ filed \in 0 .. MaxIncidents /\ avail \in BOOLEAN
      /\ n \in 0 .. MaxIncidents
  BY ConstantFacts DEF TypeOK, Incidents
<1>2. CASE n # incident
  BY <1>1, <1>2 DEF Checkpoints, store
<1>3. CASE n = incident /\ avail' = FALSE
  BY <1>1, <1>3 DEF Checkpoints, store
<1>4. CASE n = incident /\ avail' # FALSE
  <2>1. pend' = n /\ UNCHANGED <<filed, avail>>
    BY <1>4 DEF Checkpoints
  <2> QED
    BY <1>1, <2>1
<1> QED
  BY <1>2, <1>3, <1>4

LEMMA CloseFacts ==
    ASSUME TypeOK, NEW n \in Incidents, NEW s \in Statuses, Closes(n, s)
    PROVE  /\ pend' \in 0 .. MaxIncidents /\ filed' \in 0 .. MaxIncidents
           /\ avail' \in BOOLEAN /\ (avail' => avail)
           /\ status' \in [Incidents -> Statuses]
           /\ \A k \in Incidents \ {n} : status'[k] = status[k]
           /\ status' = status \/ (status'[n] = s /\ status[n] = "open")
           /\ status[n] = "open" /\ avail' => status'[n] = s
<1>1. /\ pend \in 0 .. MaxIncidents /\ filed \in 0 .. MaxIncidents /\ avail \in BOOLEAN
      /\ n \in 0 .. MaxIncidents /\ 0 \in 0 .. MaxIncidents
      /\ status \in [Incidents -> Statuses]
  BY ConstantFacts DEF TypeOK, Incidents
<1>2. CASE status[n] # "open"
  BY <1>1, <1>2 DEF Closes, store
<1>3. CASE status[n] = "open" /\ avail' = FALSE /\ UNCHANGED <<status, store>>
  BY <1>1, <1>3 DEF Closes, store
<1>4. CASE /\ status[n] = "open" /\ status' = [status EXCEPT ![n] = s]
           /\ pend' = 0 /\ filed' = n /\ UNCHANGED avail
  BY <1>1, <1>4
<1> QED
  BY <1>2, <1>3, <1>4 DEF Closes

(* A task that goes on is alive and not cancelled; the incident is open.       *)
LEMMA ResumesFacts ==
    ASSUME IInv, NEW n \in Incidents, NEW place \in Places \ {"off"}, Resumes(n, place)
    PROVE  /\ pipe[n].at = place /\ ~pipe[n].cancel /\ avail
           /\ status[n] = "open" /\ n = incident /\ n = pipeTask
           /\ pipe \in [Incidents -> Pipe] /\ pipe[n] \in Pipe
           /\ pipe[n].change \in Change /\ pipe[n].plans \in 0 .. Plans
           /\ pipe[n].mode \in {"patch", "rollback", "nochange"}
           /\ pipe[n].ok \in BOOLEAN /\ site \in Contents
           /\ pipe[n].change.from \in Contents /\ pipe[n].change.to \in Contents
<1>1. pipe[n].at = place /\ ~pipe[n].cancel /\ avail
  BY DEF Resumes
<1>2. pipe \in [Incidents -> Pipe] /\ pipe[n] \in Pipe /\ site \in Contents
  BY DEF IInv, TypeOK
<1>3. status[n] = "open" /\ n = incident /\ n = pipeTask
  BY <1>1 DEF IInv, OnePipeline
<1> QED
  BY <1>1, <1>2, <1>3, PipeFields, FromTo

(* What a step that only goes on in the pipeline leaves as it was.             *)
LEMMA FrameFacts ==
    ASSUME TypeOK
    PROVE  /\ site \in Contents /\ suppressed \in Contents \cup {None}
           /\ approval \in [inc : 0 .. MaxIncidents, change : Change,
                            decision : {"none", "approved", "rejected"}]
           /\ seen \in [Incidents -> SUBSET Contents]
           /\ status \in [Incidents -> Statuses]
           /\ granted \in [Incidents -> SUBSET Change]
           /\ budget \in [monitors : 0 .. MaxMonitors, faults : 0 .. MaxFaults,
                          reports : 0 .. MaxReports]
BY DEF TypeOK

LEMMA TriageStep ==
    ASSUME IInv, NEW n \in Incidents, Triage(n)
    PROVE  Whole(n)
<1>1. /\ Resumes(n, "triage") /\ Checkpoints(n) /\ Goes(n, "current")
      /\ UNCHANGED <<injected, mon, pipeTask, monTask, req, budget>>
      /\ UNCHANGED <<granted, site, incident, status, suppressed, approval, report, seen>>
  BY DEF Triage, Frame
<1>2. "triage" \in Places \ {"off"} /\ "current" \in Places
  BY DEF Places
<1>3. pipe[n].at = "triage" /\ ~pipe[n].cancel /\ avail /\ pipe \in [Incidents -> Pipe]
  BY <1>1, <1>2, ResumesFacts
<1>4. /\ pipe' \in [Incidents -> Pipe] /\ pipe'[n].at = "current"
      /\ pipe'[n].cancel = pipe[n].cancel
      /\ \A k \in Incidents \ {n} : pipe'[k] = pipe[k]
  BY <1>1, <1>2, <1>3, GoesFacts
<1>5. /\ pend' \in 0 .. MaxIncidents /\ filed' \in 0 .. MaxIncidents
      /\ avail' \in BOOLEAN /\ (avail' => avail)
  BY <1>1, CheckpointFacts DEF IInv
<1>6. Stays(n)
  BY <1>1, <1>3, <1>4, <1>5, FrameFacts DEF Stays, IInv
<1>7. Settles(n)
  BY <1>1, <1>5, FrameFacts DEF Settles, IInv
<1>8. Asks(n) /\ Checks(n) /\ Approved(n) /\ Resolved(n) /\ Reverts(n)
  BY <1>1, <1>3, <1>4 DEF Asks, Checks, Approved, Resolved, Reverts, Verifying
<1> QED
  BY <1>6, <1>7, <1>8 DEF Whole

(* The parts of which the longer steps are made. *)
Moved(n) ==
    /\ pipe' \in [Incidents -> Pipe] /\ status' \in [Incidents -> Statuses]
    /\ \A k \in Incidents \ {n} : pipe'[k] = pipe[k] /\ status'[k] = status[k]
    /\ \/ pipe'[n] = NoPipe
       \/ ~pipe'[n].cancel /\ pipe'[n].at # "off" /\ status'[n] = status[n]
    /\ avail' \in BOOLEAN /\ (avail' => avail)
    /\ pend' \in 0 .. MaxIncidents /\ filed' \in 0 .. MaxIncidents

Offers(n) ==
    /\ approval' \in [inc : 0 .. MaxIncidents, change : Change,
                      decision : {"none", "approved", "rejected"}]
    /\ \/ approval' = approval /\ pipe'[n].at # "gate"
       \/ approval' = [inc |-> n, change |-> pipe'[n].change, decision |-> "none"]

LEMMA ClosedFacts ==
    ASSUME IInv, NEW n \in Incidents, NEW s \in Statuses, Closes(n, s), Ends(n)
    PROVE  Moved(n) /\ pipe'[n].at = "off"
<1>1. pipe \in [Incidents -> Pipe]
  BY DEF IInv, TypeOK
<1>2. /\ pipe' \in [Incidents -> Pipe] /\ pipe'[n] = NoPipe
      /\ \A k \in Incidents \ {n} : pipe'[k] = pipe[k]
  BY <1>1, EndsFacts
<1>3. /\ pend' \in 0 .. MaxIncidents /\ filed' \in 0 .. MaxIncidents
      /\ avail' \in BOOLEAN /\ (avail' => avail)
      /\ status' \in [Incidents -> Statuses]
      /\ \A k \in Incidents \ {n} : status'[k] = status[k]
  BY CloseFacts DEF IInv
<1> QED
  BY <1>2, <1>3, NoPipeFields DEF Moved

LEMMA GatesFacts ==
    ASSUME IInv, NEW n \in Incidents, NEW change \in Change, NEW left \in 0 .. Plans,
           NEW mode \in {"patch", "rollback", "nochange"},
           Gates(n, change, mode, left)
    PROVE  /\ Moved(n) /\ Offers(n) /\ status' = status
           /\ pipe'[n].at \in {"gate", "auto"} /\ pipe'[n].change = change
<1>1. PICK ask \in BOOLEAN :
          /\ pipe' = [pipe EXCEPT ![n] = [NoPipe EXCEPT !.at = IF ask THEN "gate" ELSE "auto",
                                             !.change = change, !.mode = mode, !.plans = left]]
          /\ approval' = IF ask THEN [inc |-> n, change |-> change, decision |-> "none"]
                         ELSE approval
          /\ Checkpoints(n)
          /\ UNCHANGED status
  BY DEF Gates
<1>2. PICK place : place = IF ask THEN "gate" ELSE "auto"
  OBVIOUS
<1>3. PICK x : x = [NoPipe EXCEPT !.at = place, !.change = change, !.mode = mode, !.plans = left]
  OBVIOUS
<1>4. place \in Places /\ place \in {"gate", "auto"}
  BY <1>2 DEF Places
<1>5. x \in Pipe /\ x.at = place /\ ~x.cancel /\ x.change = change
  BY <1>3, <1>4, GatedFacts, NoPipeFields DEF Pipe
<1>6. pipe' = [pipe EXCEPT ![n] = x]
  BY <1>1, <1>2, <1>3
<1>7. pipe \in [Incidents -> Pipe]
  BY DEF IInv, TypeOK
<1>8. /\ pipe' \in [Incidents -> Pipe] /\ pipe'[n] = x
      /\ \A k \in Incidents \ {n} : pipe'[k] = pipe[k]
  BY <1>5, <1>6, <1>7
<1>9. /\ pend' \in 0 .. MaxIncidents /\ filed' \in 0 .. MaxIncidents
      /\ avail' \in BOOLEAN /\ (avail' => avail)
  BY <1>1, CheckpointFacts DEF IInv
<1>10. Moved(n)
  BY <1>1, <1>4, <1>5, <1>8, <1>9, FrameFacts DEF Moved, IInv
<1>11. n \in 0 .. MaxIncidents
  BY ConstantFacts DEF Incidents
<1>12. Offers(n)
  <2>1. CASE ask
    <3>1. approval' = [inc |-> n, change |-> pipe'[n].change, decision |-> "none"]
      BY <1>1, <1>5, <1>8, <2>1
    <3> QED
      BY <3>1, <1>5, <1>8, <1>11 DEF Offers
  <2>2. CASE ~ask
    <3>1. approval' = approval /\ pipe'[n].at # "gate"
      BY <1>1, <1>2, <1>5, <1>8, <2>2
    <3> QED
      BY <3>1, FrameFacts DEF Offers, IInv
  <2> QED
    BY <2>1, <2>2
<1> QED
  BY <1>1, <1>4, <1>5, <1>8, <1>10, <1>12

LEMMA NextPlanFacts ==
    ASSUME IInv, NEW n \in Incidents, NEW content \in Contents, NextPlan(n, content)
    PROVE  /\ Moved(n) /\ Offers(n)
           /\ pipe'[n].at \in {"off", "current", "gate", "auto"}
           /\ status'[n] # "resolved" \/ status'[n] = status[n]
<1>0. pipe \in [Incidents -> Pipe] /\ pipe[n].plans \in 0 .. Plans
  BY PipeFields DEF IInv, TypeOK
<1>1. CASE pipe[n].plans > 1
  <2>1. /\ pipe' = [pipe EXCEPT ![n] = [NoPipe EXCEPT !.at = "current", !.plans = pipe[n].plans - 1]]
        /\ Checkpoints(n) /\ UNCHANGED <<status, approval>>
    BY <1>1 DEF NextPlan
  <2>2. PICK left : left = pipe[n].plans - 1
    OBVIOUS
  <2>3. left \in 0 .. Plans
    BY <1>0, <1>1, <2>2, ConstantFacts
  <2>4. PICK x : x = [NoPipe EXCEPT !.at = "current", !.plans = left]
    OBVIOUS
  <2>5. x \in Pipe /\ x.at = "current" /\ ~x.cancel
    BY <2>3, <2>4, AgainFacts
  <2>6. pipe' = [pipe EXCEPT ![n] = x]
    BY <2>1, <2>2, <2>4
  <2>7. /\ pipe' \in [Incidents -> Pipe] /\ pipe'[n] = x
        /\ \A k \in Incidents \ {n} : pipe'[k] = pipe[k]
    BY <1>0, <2>5, <2>6
  <2>8. /\ pend' \in 0 .. MaxIncidents /\ filed' \in 0 .. MaxIncidents
        /\ avail' \in BOOLEAN /\ (avail' => avail)
    BY <2>1, CheckpointFacts DEF IInv
  <2>9. Moved(n) /\ Offers(n)
    BY <2>1, <2>5, <2>7, <2>8, FrameFacts DEF Moved, Offers, IInv
  <2> QED
    BY <2>1, <2>5, <2>7, <2>9
<1>2. CASE ~(pipe[n].plans > 1)
  <2>1. RollsBack(n, content)
    BY <1>2 DEF NextPlan
  <2>2. CASE content = Release
    <3>1. Closes(n, "escalated") /\ Ends(n) /\ UNCHANGED approval
      BY <2>1, <2>2 DEF RollsBack
    <3>2. "escalated" \in Statuses
      BY DEF Statuses
    <3>3. Moved(n) /\ pipe'[n].at = "off"
      BY <3>1, <3>2, ClosedFacts
    <3>4. status' = status \/ status'[n] = "escalated"
      BY <3>1, <3>2, CloseFacts DEF IInv
    <3>5. Offers(n)
      BY <3>1, <3>3, FrameFacts DEF Offers, IInv
    <3> QED
      BY <3>3, <3>4, <3>5
  <2>3. CASE content # Release
    <3>1. Gates(n, [from |-> content, to |-> Release], "rollback", 0)
      BY <2>1, <2>3 DEF RollsBack
    <3>2. [from |-> content, to |-> Release] \in Change /\ 0 \in 0 .. Plans
      BY ConstantFacts DEF Change
    <3> QED
      BY <3>1, <3>2, GatesFacts
  <2> QED
    BY <2>2, <2>3
<1> QED
  BY <1>1, <1>2

(* From the parts to the whole, for a task that is not cancelled. *)
LEMMA MovedFacts ==
    ASSUME IInv, NEW n \in Incidents, Moved(n), ~pipe[n].cancel,
           UNCHANGED <<injected, mon, pipeTask, monTask, req, budget>>,
           UNCHANGED <<incident, report>>,
           site' \in Contents, suppressed' \in Contents \cup {None},
           approval' \in [inc : 0 .. MaxIncidents, change : Change,
                          decision : {"none", "approved", "rejected"}],
           seen' \in [Incidents -> SUBSET Contents],
           granted' \in [Incidents -> SUBSET Change]
    PROVE  Stays(n) /\ Settles(n)
<1>1. Stays(n)
  BY DEF Stays, Moved
<1>2. Settles(n)
  BY FrameFacts DEF Settles, Moved, IInv
<1> QED
  BY <1>1, <1>2

-----------------------------------------------------------------------------
(* The steps of a pipeline.                                                  *)

LEMMA CurrentStep ==
    ASSUME IInv, NEW n \in Incidents, Current(n)
    PROVE  Whole(n)
<1>1. /\ Resumes(n, "current") /\ Checkpoints(n)
      /\ UNCHANGED <<injected, mon, pipeTask, monTask, req, budget>>
      /\ UNCHANGED <<granted, site, incident, status, suppressed, approval, report, seen>>
  BY DEF Current, Frame
<1>2. "current" \in Places \ {"off"} /\ "plan" \in Places /\ "verify" \in Places
  BY DEF Places
<1>3. /\ pipe[n].at = "current" /\ ~pipe[n].cancel /\ avail /\ pipe \in [Incidents -> Pipe]
      /\ site \in Contents
  BY <1>1, <1>2, ResumesFacts
<1>4. /\ pipe' \in [Incidents -> Pipe] /\ pipe'[n].cancel = pipe[n].cancel
      /\ \/ pipe'[n].at = "plan"
         \/ pipe'[n].at = "verify" /\ pipe'[n].mode = "nochange"
      /\ \A k \in Incidents \ {n} : pipe'[k] = pipe[k]
  <2>1. CASE Goes(n, "plan")
    BY <1>2, <1>3, <2>1, GoesFacts
  <2>2. CASE pipe' = [pipe EXCEPT ![n].at = "verify", ![n].mode = "nochange",
                                  ![n].change = [from |-> site, to |-> site]]
    <3>1. [from |-> site, to |-> site] \in Change /\ "nochange" \in {"patch", "rollback", "nochange"}
      BY <1>3 DEF Change
    <3>2. PICK change : change = [from |-> site, to |-> site]
      OBVIOUS
    <3>3. PICK mode : mode = "nochange"
      OBVIOUS
    <3>4. PICK place : place = "verify"
      OBVIOUS
    <3>5. PlansWith(n, place, mode, change)
      BY <2>2, <3>2, <3>3, <3>4 DEF PlansWith
    <3>6. change \in Change /\ mode \in {"patch", "rollback", "nochange"} /\ place \in Places
      BY <1>2, <3>1, <3>2, <3>3, <3>4
    <3>7. /\ pipe' \in [Incidents -> Pipe] /\ pipe'[n].at = place
          /\ pipe'[n].cancel = pipe[n].cancel /\ pipe'[n].mode = mode
          /\ \A k \in Incidents \ {n} : pipe'[k] = pipe[k]
      BY <1>3, <3>5, <3>6, PlannedFacts
    <3> QED
      BY <3>3, <3>4, <3>7
  <2> QED
    BY <2>1, <2>2 DEF Current
<1>5. /\ pend' \in 0 .. MaxIncidents /\ filed' \in 0 .. MaxIncidents
      /\ avail' \in BOOLEAN /\ (avail' => avail)
  BY <1>1, CheckpointFacts DEF IInv
<1>6. Moved(n)
  BY <1>1, <1>3, <1>4, <1>5, FrameFacts DEF Moved, IInv
<1>7. Stays(n) /\ Settles(n)
  BY <1>1, <1>3, <1>6, FrameFacts, MovedFacts DEF IInv
<1>8. Asks(n) /\ Checks(n) /\ Approved(n) /\ Resolved(n) /\ Reverts(n)
  BY <1>1, <1>3, <1>4 DEF Asks, Checks, Approved, Resolved, Reverts, Verifying
<1> QED
  BY <1>7, <1>8 DEF Whole

LEMMA PlanStep ==
    ASSUME IInv, NEW n \in Incidents, Plan(n)
    PROVE  Whole(n)
<1>1. /\ Resumes(n, "plan")
      /\ UNCHANGED <<injected, mon, pipeTask, monTask, req, budget>>
      /\ UNCHANGED <<granted, site, incident, suppressed, report, seen>>
  BY DEF Plan, Frame
<1>2. "plan" \in Places \ {"off"} /\ "planned" \in Places
  BY DEF Places
<1>3. /\ pipe[n].at = "plan" /\ ~pipe[n].cancel /\ avail /\ pipe \in [Incidents -> Pipe]
      /\ site \in Contents /\ status[n] = "open"
  BY <1>1, <1>2, ResumesFacts
<1>4. /\ Moved(n) /\ Offers(n)
      /\ pipe'[n].at \in {"off", "current", "planned", "gate", "auto"}
      /\ status'[n] # "resolved" \/ status'[n] = status[n]
  <2>1. ASSUME NEW c \in Contents \ {site},
               pipe' = [pipe EXCEPT ![n].at = "planned", ![n].mode = "patch",
                                    ![n].change = [from |-> site, to |-> c]],
               Checkpoints(n), UNCHANGED <<status, approval>>
        PROVE  /\ Moved(n) /\ Offers(n) /\ pipe'[n].at = "planned" /\ status' = status
    <3>1. [from |-> site, to |-> c] \in Change /\ "patch" \in {"patch", "rollback", "nochange"}
      BY <1>3 DEF Change
    <3>2. PICK change : change = [from |-> site, to |-> c]
      OBVIOUS
    <3>3. PICK mode : mode = "patch"
      OBVIOUS
    <3>4. PICK place : place = "planned"
      OBVIOUS
    <3>5. PlansWith(n, place, mode, change)
      BY <2>1, <3>2, <3>3, <3>4 DEF PlansWith
    <3>6. /\ pipe' \in [Incidents -> Pipe] /\ pipe'[n].at = "planned"
          /\ pipe'[n].cancel = pipe[n].cancel
          /\ \A k \in Incidents \ {n} : pipe'[k] = pipe[k]
      <4>1. change \in Change /\ mode \in {"patch", "rollback", "nochange"} /\ place \in Places
        BY <1>2, <3>1, <3>2, <3>3, <3>4
      <4>2. /\ pipe' \in [Incidents -> Pipe] /\ pipe'[n].at = place
            /\ pipe'[n].cancel = pipe[n].cancel
            /\ \A k \in Incidents \ {n} : pipe'[k] = pipe[k]
        BY <1>3, <3>5, <4>1, PlannedFacts
      <4> QED
        BY <3>4, <4>2
    <3>7. /\ pend' \in 0 .. MaxIncidents /\ filed' \in 0 .. MaxIncidents
          /\ avail' \in BOOLEAN /\ (avail' => avail)
      BY <2>1, CheckpointFacts DEF IInv
    <3>8. UNCHANGED <<status, approval>>
      BY <2>1
    <3> QED
      BY <1>3, <3>6, <3>7, <3>8, FrameFacts DEF Moved, Offers, IInv
  <2>2. CASE NextPlan(n, site)
    BY <1>3, <2>2, NextPlanFacts
  <2> QED
    BY <2>1, <2>2 DEF Plan
<1>5. Stays(n) /\ Settles(n)
  BY <1>1, <1>3, <1>4, FrameFacts, MovedFacts DEF Offers, IInv
<1>6. Asks(n)
  BY <1>1, <1>4 DEF Asks, Offers
<1>7. Checks(n) /\ Approved(n) /\ Resolved(n) /\ Reverts(n)
  BY <1>1, <1>3, <1>4 DEF Checks, Approved, Resolved, Reverts, Verifying
<1> QED
  BY <1>5, <1>6, <1>7 DEF Whole

LEMMA GateStep ==
    ASSUME IInv, NEW n \in Incidents, Gate(n)
    PROVE  Whole(n)
<1>1. /\ Resumes(n, "planned") /\ Gates(n, pipe[n].change, "patch", pipe[n].plans)
      /\ UNCHANGED <<injected, mon, pipeTask, monTask, req, budget>>
      /\ UNCHANGED <<granted, site, incident, suppressed, report, seen>>
  BY DEF Gate, Frame
<1>2. "planned" \in Places \ {"off"}
  BY DEF Places
<1>3. /\ pipe[n].at = "planned" /\ ~pipe[n].cancel /\ avail
      /\ pipe[n].change \in Change /\ pipe[n].plans \in 0 .. Plans
  BY <1>1, <1>2, ResumesFacts
<1>4. /\ Moved(n) /\ Offers(n) /\ status' = status
      /\ pipe'[n].at \in {"gate", "auto"}
  BY <1>1, <1>3, GatesFacts
<1>5. Stays(n) /\ Settles(n)
  BY <1>1, <1>3, <1>4, FrameFacts, MovedFacts DEF Offers, IInv
<1>6. Asks(n)
  BY <1>1, <1>4 DEF Asks, Offers
<1>7. Checks(n) /\ Approved(n) /\ Resolved(n) /\ Reverts(n)
  BY <1>1, <1>3, <1>4 DEF Checks, Approved, Resolved, Reverts, Verifying
<1> QED
  BY <1>5, <1>6, <1>7 DEF Whole

(* A change is applied to the version it was made for, or not at all. *)
LEMMA AppliesFacts ==
    ASSUME IInv, NEW n \in Incidents, Applies(n), ~pipe[n].cancel,
           pipe[n].at \in {"gate", "auto"}, status[n] = "open"
    PROVE  /\ Moved(n) /\ site' \in Contents /\ seen' \in [Incidents -> SUBSET Contents]
           /\ pipe'[n].at \in {"off", "verify"}
           /\ pipe'[n].at = "verify" /\ avail' => site' = pipe'[n].change.to
           /\ status'[n] # "resolved"
<1>1. /\ pipe \in [Incidents -> Pipe] /\ site \in Contents /\ pipe[n].change.to \in Contents
      /\ seen \in [Incidents -> SUBSET Contents] /\ status \in [Incidents -> Statuses]
  BY PipeFields, FromTo DEF IInv, TypeOK
<1>2. CASE site # pipe[n].change.from
  <2>1. Closes(n, "escalated") /\ Ends(n) /\ UNCHANGED <<site, seen>> /\ "escalated" \in Statuses
    BY <1>2 DEF Applies, Statuses
  <2>2. Moved(n) /\ pipe'[n].at = "off"
    BY <2>1, ClosedFacts
  <2>3. status' = status \/ status'[n] = "escalated"
    BY <2>1, CloseFacts DEF IInv
  <2> QED
    BY <1>1, <2>1, <2>2, <2>3
<1>3. CASE ~(site # pipe[n].change.from)
  <2>1. /\ Checkpoints(n) /\ UNCHANGED status
        /\ site' = IF avail' THEN pipe[n].change.to ELSE site
        /\ seen' = [seen EXCEPT ![n] = {}]
        /\ Goes(n, "verify")
    BY <1>3 DEF Applies
  <2>2. "verify" \in Places
    BY DEF Places
  <2>3. /\ pipe' \in [Incidents -> Pipe] /\ pipe'[n].at = "verify"
        /\ pipe'[n].cancel = pipe[n].cancel /\ pipe'[n].change = pipe[n].change
        /\ \A k \in Incidents \ {n} : pipe'[k] = pipe[k]
    BY <1>1, <2>1, <2>2, GoesFacts
  <2>4. /\ pend' \in 0 .. MaxIncidents /\ filed' \in 0 .. MaxIncidents
        /\ avail' \in BOOLEAN /\ (avail' => avail)
    BY <2>1, CheckpointFacts DEF IInv
  <2>5. Moved(n)
    BY <1>1, <2>1, <2>3, <2>4 DEF Moved
  <2> QED
    BY <1>1, <2>1, <2>3, <2>5
<1> QED
  BY <1>2, <1>3

LEMMA ApplyAutomaticStep ==
    ASSUME IInv, NEW n \in Incidents, ApplyAutomatic(n)
    PROVE  Whole(n)
<1>1. /\ Resumes(n, "auto") /\ Applies(n)
      /\ UNCHANGED <<injected, mon, pipeTask, monTask, req, budget>>
      /\ UNCHANGED <<granted, incident, suppressed, approval, report>>
  BY DEF ApplyAutomatic, Frame
<1>2. "auto" \in Places \ {"off"}
  BY DEF Places
<1>3. pipe[n].at = "auto" /\ ~pipe[n].cancel /\ avail /\ status[n] = "open"
  BY <1>1, <1>2, ResumesFacts
<1>4. /\ Moved(n) /\ site' \in Contents /\ seen' \in [Incidents -> SUBSET Contents]
      /\ pipe'[n].at \in {"off", "verify"}
      /\ pipe'[n].at = "verify" /\ avail' => site' = pipe'[n].change.to
      /\ status'[n] # "resolved"
  BY <1>1, <1>3, AppliesFacts
<1>5. Stays(n) /\ Settles(n)
  BY <1>1, <1>3, <1>4, FrameFacts, MovedFacts DEF IInv
<1>6. Asks(n) /\ Checks(n) /\ Approved(n) /\ Resolved(n) /\ Reverts(n)
  BY <1>1, <1>3, <1>4 DEF Asks, Checks, Approved, Resolved, Reverts, Verifying
<1> QED
  BY <1>5, <1>6 DEF Whole

(* The decision that is read is the one on the change that waits. *)
LEMMA GateEndsStep ==
    ASSUME IInv, NEW n \in Incidents, GateEnds(n)
    PROVE  Whole(n)
<1>1. /\ Resumes(n, "gate")
      /\ approval' = NoApproval /\ granted' = [granted EXCEPT ![n] = {}]
      /\ UNCHANGED <<injected, mon, pipeTask, monTask, req, budget>>
      /\ UNCHANGED <<incident, report>>
  BY DEF GateEnds, Frame
<1>2. "gate" \in Places \ {"off"} /\ "escalated" \in Statuses
  BY DEF Places, Statuses
<1>3. pipe[n].at = "gate" /\ ~pipe[n].cancel /\ avail /\ status[n] = "open" /\ site \in Contents
  BY <1>1, <1>2, ResumesFacts
<1>4. /\ approval' \in [inc : 0 .. MaxIncidents, change : Change,
                        decision : {"none", "approved", "rejected"}]
      /\ granted' \in [Incidents -> SUBSET Change]
  BY <1>1, NoPipeFields, ConstantFacts, FrameFacts DEF NoApproval, IInv
<1>5. CASE approval.decision = "approved"
  <2>1. Applies(n) /\ UNCHANGED suppressed
    BY <1>5 DEF GateEnds
  <2>2. /\ Moved(n) /\ site' \in Contents /\ seen' \in [Incidents -> SUBSET Contents]
        /\ pipe'[n].at \in {"off", "verify"}
        /\ pipe'[n].at = "verify" /\ avail' => site' = pipe'[n].change.to
        /\ status'[n] # "resolved"
    BY <1>3, <2>1, AppliesFacts
  <2>3. Stays(n) /\ Settles(n)
    BY <1>1, <1>3, <1>4, <2>1, <2>2, FrameFacts, MovedFacts DEF IInv
  <2>4. approval.inc = n /\ approval.change = pipe[n].change
    <3>1. approval # NoApproval
      BY <1>5 DEF NoApproval
    <3> QED
      BY <1>3, <3>1 DEF IInv, Approving
  <2>5. pipe[n].change \in granted[n]
    BY <1>5, <2>4 DEF IInv, Approving
  <2>6. Asks(n) /\ Checks(n) /\ Approved(n) /\ Resolved(n) /\ Reverts(n)
    BY <1>1, <1>3, <2>2, <2>5 DEF Asks, Checks, Approved, Resolved, Reverts, Verifying
  <2> QED
    BY <2>3, <2>6 DEF Whole
<1>6. CASE approval.decision # "approved"
  <2>1. /\ Closes(n, "escalated") /\ Ends(n)
        /\ suppressed' = IF approval = NoApproval THEN suppressed ELSE site
        /\ UNCHANGED <<site, seen>>
    BY <1>6 DEF GateEnds
  <2>2. Moved(n) /\ pipe'[n].at = "off"
    BY <1>2, <2>1, ClosedFacts
  <2>3. status' = status \/ status'[n] = "escalated"
    BY <1>2, <2>1, CloseFacts DEF IInv
  <2>4. suppressed' \in Contents \cup {None}
    BY <1>3, <2>1, FrameFacts DEF IInv
  <2>5. Stays(n) /\ Settles(n)
    BY <1>1, <1>3, <1>4, <2>1, <2>2, <2>4, FrameFacts, MovedFacts DEF IInv
  <2>6. Asks(n) /\ Checks(n) /\ Approved(n) /\ Resolved(n) /\ Reverts(n)
    BY <1>1, <1>3, <2>2, <2>3 DEF Asks, Checks, Approved, Resolved, Reverts, Verifying
  <2> QED
    BY <2>5, <2>6 DEF Whole
<1> QED
  BY <1>5, <1>6

(* A change that is not verified is taken back by the step that says so.      *)
LEMMA NotVerifiedFacts ==
    ASSUME IInv, NEW n \in Incidents, NEW v \in {"failed", "no_browser"}, NotVerified(n, v),
           ~pipe[n].cancel, avail, pipe[n].at \in {"verify", "browser"}, status[n] = "open"
    PROVE  /\ Moved(n) /\ Offers(n) /\ site' \in Contents
           /\ suppressed' \in Contents \cup {None}
           /\ pipe'[n].at \in {"off", "plan", "current", "gate", "auto"}
           /\ status'[n] # "resolved" /\ Reverts(n)
<1>1. /\ pipe \in [Incidents -> Pipe] /\ site \in Contents /\ pipe[n].change.to \in Contents
      /\ pipe[n].change.from \in Contents
      /\ pipe[n].mode \in {"patch", "rollback", "nochange"}
  BY PipeFields, FromTo DEF IInv, TypeOK
<1>2. "unverified" \in Statuses /\ "escalated" \in Statuses /\ "plan" \in Places
  BY DEF Statuses, Places
<1>3. pipe[n].mode # "nochange" => Reverted(n) = pipe[n].change.from
  BY DEF IInv, Verification, Verifying, Reverted
<1>4. CASE pipe[n].mode = "nochange"
  <2>1. /\ IF v = "failed" /\ site = pipe[n].change.to /\ Fails(n)
           THEN Goes(n, "plan") /\ Checkpoints(n) /\ UNCHANGED status
           ELSE Closes(n, "unverified") /\ Ends(n)
        /\ UNCHANGED <<site, suppressed, approval>>
    BY <1>4 DEF NotVerified
  <2>2. CASE Goes(n, "plan") /\ Checkpoints(n) /\ UNCHANGED status
    <3>1. /\ pipe' \in [Incidents -> Pipe] /\ pipe'[n].at = "plan"
          /\ pipe'[n].cancel = pipe[n].cancel
          /\ \A k \in Incidents \ {n} : pipe'[k] = pipe[k]
      BY <1>1, <1>2, <2>2, GoesFacts
    <3>2. /\ pend' \in 0 .. MaxIncidents /\ filed' \in 0 .. MaxIncidents
          /\ avail' \in BOOLEAN /\ (avail' => avail)
      BY <2>2, CheckpointFacts DEF IInv
    <3>3. Moved(n) /\ Offers(n)
      BY <2>1, <2>2, <3>1, <3>2, FrameFacts DEF Moved, Offers, IInv
    <3> QED
      BY <1>4, <2>1, <2>2, <3>1, <3>3, FrameFacts DEF Reverts, Verifying, IInv
  <2>3. CASE Closes(n, "unverified") /\ Ends(n)
    <3>1. Moved(n) /\ pipe'[n].at = "off"
      BY <1>2, <2>3, ClosedFacts
    <3>2. status' = status \/ status'[n] = "unverified"
      BY <1>2, <2>3, CloseFacts DEF IInv
    <3>3. Offers(n)
      BY <2>1, <3>1, FrameFacts DEF Offers, IInv
    <3> QED
      BY <1>4, <2>1, <3>1, <3>2, <3>3, FrameFacts DEF Reverts, Verifying, IInv
  <2> QED
    BY <2>1, <2>2, <2>3
<1>5. CASE pipe[n].mode = "patch" /\ v = "no_browser"
  <2>1. Closes(n, "unverified") /\ Ends(n) /\ UNCHANGED <<site, suppressed, approval>>
    BY <1>5 DEF NotVerified
  <2>2. Moved(n) /\ pipe'[n].at = "off"
    BY <1>2, <2>1, ClosedFacts
  <2>3. /\ status' = status \/ status'[n] = "unverified"
        /\ avail' => status'[n] = "unverified"
    BY <1>2, <2>1, CloseFacts DEF IInv
  <2>4. Offers(n)
    BY <2>1, <2>2, FrameFacts DEF Offers, IInv
  <2> QED
    BY <2>1, <2>2, <2>3, <2>4, FrameFacts DEF Reverts, IInv
<1>6. CASE pipe[n].mode = "patch" /\ v = "failed"
  <2>1. site' = Reverted(n) /\ NextPlan(n, Reverted(n)) /\ UNCHANGED suppressed
    BY <1>6 DEF NotVerified
  <2>2. PICK content : content = pipe[n].change.from
    OBVIOUS
  <2>3. site' = content /\ NextPlan(n, content) /\ content \in Contents
    BY <1>1, <1>3, <1>6, <2>1, <2>2
  <2>4. /\ Moved(n) /\ Offers(n)
        /\ pipe'[n].at \in {"off", "current", "gate", "auto"}
        /\ status'[n] # "resolved" \/ status'[n] = status[n]
    BY <2>3, NextPlanFacts
  <2> QED
    BY <2>1, <2>2, <2>3, <2>4, FrameFacts DEF Reverts, IInv
<1>7. CASE pipe[n].mode = "rollback"
  <2>1. /\ site' = Reverted(n) /\ suppressed' = Reverted(n)
        /\ Closes(n, "escalated") /\ Ends(n) /\ UNCHANGED approval
    BY <1>7 DEF NotVerified
  <2>2. Moved(n) /\ pipe'[n].at = "off"
    BY <1>2, <2>1, ClosedFacts
  <2>3. status' = status \/ status'[n] = "escalated"
    BY <1>2, <2>1, CloseFacts DEF IInv
  <2>4. Offers(n)
    BY <2>1, <2>2, FrameFacts DEF Offers, IInv
  <2> QED
    BY <1>1, <1>3, <1>7, <2>1, <2>2, <2>3, <2>4 DEF Reverts
<1> QED
  BY <1>1, <1>4, <1>5, <1>6, <1>7

LEMMA VerifyServerStep ==
    ASSUME IInv, NEW n \in Incidents, VerifyServer(n)
    PROVE  Whole(n)
<1>1. /\ Resumes(n, "verify")
      /\ UNCHANGED <<injected, mon, pipeTask, monTask, req, budget>>
      /\ UNCHANGED <<granted, incident, report, seen>>
  BY DEF VerifyServer, Frame
<1>2. "verify" \in Places \ {"off"}
  BY DEF Places
<1>3. /\ pipe[n].at = "verify" /\ ~pipe[n].cancel /\ avail /\ status[n] = "open"
      /\ site \in Contents /\ pipe \in [Incidents -> Pipe]
  BY <1>1, <1>2, ResumesFacts
<1>4. CASE site # pipe[n].change.to
  <2>1. NotVerified(n, "failed")
    BY <1>4 DEF VerifyServer
  <2>2. /\ Moved(n) /\ Offers(n) /\ site' \in Contents
        /\ suppressed' \in Contents \cup {None}
        /\ pipe'[n].at \in {"off", "plan", "current", "gate", "auto"}
        /\ status'[n] # "resolved" /\ Reverts(n)
    BY <1>3, <2>1, NotVerifiedFacts
  <2>3. Stays(n) /\ Settles(n)
    BY <1>1, <1>3, <2>2, FrameFacts, MovedFacts DEF Offers, IInv
  <2>4. Asks(n)
    BY <1>1, <2>2 DEF Asks, Offers
  <2>5. Checks(n) /\ Approved(n) /\ Resolved(n)
    BY <1>1, <1>3, <2>2 DEF Checks, Approved, Resolved
  <2> QED
    BY <2>2, <2>3, <2>4, <2>5 DEF Whole
<1>5. CASE site = pipe[n].change.to
  <2>1. PICK ok \in ServerOutcomes(site) :
            /\ pipe' = [pipe EXCEPT ![n].at = "browser", ![n].ok = ok]
            /\ Checkpoints(n) /\ UNCHANGED <<site, status, suppressed, approval>>
    BY <1>5 DEF VerifyServer
  <2>2. ok \in BOOLEAN /\ (ok => site \in Sound \cup Blind)
    BY DEF ServerOutcomes
  <2>3. /\ pipe' \in [Incidents -> Pipe] /\ pipe'[n].at = "browser"
        /\ pipe'[n].cancel = pipe[n].cancel /\ pipe'[n].change = pipe[n].change
        /\ pipe'[n].mode = pipe[n].mode /\ pipe'[n].ok = ok
        /\ \A k \in Incidents \ {n} : pipe'[k] = pipe[k]
    BY <1>3, <2>1, <2>2, CheckedFacts
  <2>4. /\ pend' \in 0 .. MaxIncidents /\ filed' \in 0 .. MaxIncidents
        /\ avail' \in BOOLEAN /\ (avail' => avail)
    BY <2>1, CheckpointFacts DEF IInv
  <2>5. UNCHANGED <<site, status, suppressed, approval>>
    BY <2>1
  <2>6. Moved(n)
    BY <1>3, <2>3, <2>4, <2>5, FrameFacts DEF Moved, IInv
  <2>7. Stays(n) /\ Settles(n)
    BY <1>1, <1>3, <2>5, <2>6, FrameFacts, MovedFacts DEF IInv
  <2>8. Asks(n) /\ Approved(n) /\ Resolved(n) /\ Reverts(n)
    BY <1>1, <1>3, <2>3, <2>5 DEF Asks, Approved, Resolved, Reverts, Verifying
  <2>9. Checks(n)
    BY <1>5, <2>2, <2>3, <2>5 DEF Checks
  <2> QED
    BY <2>7, <2>8, <2>9 DEF Whole
<1> QED
  BY <1>4, <1>5

(* An incident is resolved by what the server and a browser both pass. *)
LEMMA VerifyBrowserStep ==
    ASSUME IInv, NEW n \in Incidents, VerifyBrowser(n)
    PROVE  Whole(n)
<1>1. /\ Resumes(n, "browser")
      /\ UNCHANGED <<injected, mon, pipeTask, monTask, req, budget>>
      /\ UNCHANGED <<granted, incident, report, seen>>
  BY DEF VerifyBrowser, Frame
<1>2. "browser" \in Places \ {"off"} /\ "resolved" \in Statuses
  BY DEF Places, Statuses
<1>3. /\ pipe[n].at = "browser" /\ ~pipe[n].cancel /\ avail /\ status[n] = "open"
      /\ site \in Contents /\ pipe \in [Incidents -> Pipe]
  BY <1>1, <1>2, ResumesFacts
<1>4. Verdict(n) \in {"verified", "failed", "no_browser"}
  <2>1. CASE site # pipe[n].change.to
    BY <2>1 DEF Verdict
  <2>2. CASE site = pipe[n].change.to /\ Heard(n)
    BY <2>2 DEF Verdict
  <2>3. CASE site = pipe[n].change.to /\ ~Heard(n)
    BY <2>3 DEF Verdict
  <2> QED
    BY <2>1, <2>2, <2>3
<1>5. CASE Verdict(n) = "verified"
  <2>1. Closes(n, "resolved") /\ Ends(n) /\ UNCHANGED <<site, suppressed, approval>>
    BY <1>5 DEF VerifyBrowser, Verified
  <2>2. Moved(n) /\ pipe'[n].at = "off"
    BY <1>2, <2>1, ClosedFacts
  <2>3. avail' => status'[n] = "resolved"
    BY <1>2, <1>3, <2>1, CloseFacts DEF IInv
  <2>4. Stays(n) /\ Settles(n)
    BY <1>1, <1>3, <2>1, <2>2, FrameFacts, MovedFacts DEF IInv
  <2>5. Asks(n) /\ Checks(n) /\ Approved(n) /\ Reverts(n)
    BY <1>1, <1>3, <2>1, <2>2, <2>3 DEF Asks, Checks, Approved, Reverts
  <2>6. site = pipe[n].change.to /\ Heard(n) /\ pipe[n].ok /\ report[site] = "good"
    <3>1. CASE site # pipe[n].change.to
      BY <1>5, <3>1 DEF Verdict
    <3>2. CASE site = pipe[n].change.to /\ Heard(n)
      BY <1>5, <3>2 DEF Verdict
    <3>3. CASE site = pipe[n].change.to /\ ~Heard(n)
      BY <1>5, <3>3 DEF Verdict
    <3> QED
      BY <3>1, <3>2, <3>3
  <2>7. site \in seen[n]
    BY <2>6 DEF Heard
  <2>8. site \in Sound
    BY <1>3, <2>6 DEF IInv, Verification
  <2> QED
    BY <2>4, <2>5, <2>7, <2>8 DEF Whole, Resolved
<1>6. CASE Verdict(n) # "verified"
  <2>1. PICK v : v = Verdict(n)
    OBVIOUS
  <2>2. v \in {"failed", "no_browser"} /\ NotVerified(n, v)
    BY <1>4, <1>6, <2>1 DEF VerifyBrowser
  <2>3. /\ Moved(n) /\ Offers(n) /\ site' \in Contents
        /\ suppressed' \in Contents \cup {None}
        /\ pipe'[n].at \in {"off", "plan", "current", "gate", "auto"}
        /\ status'[n] # "resolved" /\ Reverts(n)
    BY <1>3, <2>2, NotVerifiedFacts
  <2>4. Stays(n) /\ Settles(n)
    BY <1>1, <1>3, <2>3, FrameFacts, MovedFacts DEF Offers, IInv
  <2>5. Asks(n)
    BY <1>1, <2>3 DEF Asks, Offers
  <2>6. Checks(n) /\ Approved(n) /\ Resolved(n)
    BY <1>1, <1>3, <2>3 DEF Checks, Approved, Resolved
  <2> QED
    BY <2>3, <2>4, <2>5, <2>6 DEF Whole
<1> QED
  BY <1>5, <1>6

(* A cancelled task takes its change back before it is gone. *)
LEMMA PipelineCancelledStep ==
    ASSUME IInv, NEW n \in Incidents, PipelineCancelled(n)
    PROVE  Whole(n)
<1>1. /\ pipe[n].at # "off" /\ pipe[n].cancel /\ Ends(n)
      /\ site' = IF avail /\ pipe[n].at \in {"verify", "browser"} /\ pipe[n].mode # "nochange"
                 THEN Reverted(n) ELSE site
      /\ UNCHANGED <<injected, mon, pipeTask, monTask, req, budget>>
      /\ UNCHANGED <<granted, incident, status, suppressed, approval, report, seen,
                     avail, store>>
  BY DEF PipelineCancelled, Frame
<1>2. /\ pipe \in [Incidents -> Pipe] /\ site \in Contents /\ pipe[n].change.to \in Contents
      /\ pipe[n].change.from \in Contents /\ avail \in BOOLEAN
      /\ pend \in 0 .. MaxIncidents /\ filed \in 0 .. MaxIncidents
  BY PipeFields, FromTo DEF IInv, TypeOK
<1>3. /\ pipe' \in [Incidents -> Pipe] /\ pipe'[n] = NoPipe
      /\ \A k \in Incidents \ {n} : pipe'[k] = pipe[k]
  BY <1>1, <1>2, EndsFacts
<1>4. Verifying(n) /\ avail => Reverted(n) = pipe[n].change.from
  BY DEF IInv, Verification, Reverted
<1>5. site' \in Contents
  BY <1>1, <1>2, <1>4 DEF Verifying
<1>6. Stays(n)
  BY <1>1, <1>2, <1>3, FrameFacts DEF Stays, IInv
<1>7. Settles(n)
  BY <1>1, <1>2, <1>5, FrameFacts DEF Settles, IInv, store
<1>8. Asks(n) /\ Checks(n) /\ Approved(n) /\ Resolved(n)
  BY <1>1, <1>3, NoPipeFields DEF Asks, Checks, Approved, Resolved
<1>9. Reverts(n)
  BY <1>1, <1>4 DEF Reverts, Verifying
<1> QED
  BY <1>6, <1>7, <1>8, <1>9 DEF Whole

LEMMA PipelineDiesStep ==
    ASSUME IInv, NEW n \in Incidents, PipelineDies(n)
    PROVE  Whole(n)
<1>1. /\ ~pipe[n].cancel /\ ~avail /\ Ends(n)
      /\ UNCHANGED <<injected, mon, pipeTask, monTask, req, budget>>
      /\ UNCHANGED <<granted, site, incident, status, suppressed, approval, report, seen,
                     avail, store>>
  BY DEF PipelineDies, Frame
<1>2. /\ pipe \in [Incidents -> Pipe] /\ avail \in BOOLEAN
      /\ pend \in 0 .. MaxIncidents /\ filed \in 0 .. MaxIncidents
  BY DEF IInv, TypeOK
<1>3. /\ pipe' \in [Incidents -> Pipe] /\ pipe'[n] = NoPipe
      /\ \A k \in Incidents \ {n} : pipe'[k] = pipe[k]
  BY <1>1, <1>2, EndsFacts
<1>4. Stays(n)
  BY <1>1, <1>2, <1>3, FrameFacts DEF Stays, IInv
<1>5. Settles(n)
  BY <1>1, <1>2, FrameFacts DEF Settles, IInv, store
<1>6. Asks(n) /\ Checks(n) /\ Approved(n) /\ Resolved(n) /\ Reverts(n)
  BY <1>1, <1>3, NoPipeFields DEF Asks, Checks, Approved, Resolved, Reverts
<1> QED
  BY <1>4, <1>5, <1>6 DEF Whole

(* Evidence that cannot be kept ends everything; the properties then say no    *)
(* more of the store.                                                          *)
LEMMA BreaksFacts ==
    ASSUME TypeOK, Breaks
    PROVE  /\ avail' = FALSE /\ budget'.monitors = budget.monitors
           /\ budget' \in [monitors : 0 .. MaxMonitors, faults : 0 .. MaxFaults,
                           reports : 0 .. MaxReports]
<1>1. PICK x \in 0 .. MaxMonitors, y \in 0 .. MaxFaults, z \in 0 .. MaxReports :
          budget = [monitors |-> x, faults |-> y, reports |-> z]
  BY DEF TypeOK
<1>2. y > 0 /\ budget' = [monitors |-> x, faults |-> y - 1, reports |-> z] /\ avail' = FALSE
  BY <1>1 DEF Breaks
<1>3. y - 1 \in 0 .. MaxFaults
  BY <1>2, ConstantFacts
<1> QED
  BY <1>1, <1>2, <1>3

LEMMA EvidenceFailsStep ==
    ASSUME IInv, NEW n \in Incidents, EvidenceFails(n)
    PROVE  Whole(n)
<1>1. /\ pipe[n].at # "off" /\ Breaks /\ Ends(n) /\ site' \in Written(n)
      /\ UNCHANGED <<incident, status, injected, suppressed, approval, report,
                     seen, pipeTask, mon, monTask, req, store, granted>>
  BY DEF EvidenceFails
<1>2. /\ pipe \in [Incidents -> Pipe] /\ site \in Contents /\ pipe[n].change.to \in Contents
      /\ pipe[n].change.from \in Contents
      /\ pend \in 0 .. MaxIncidents /\ filed \in 0 .. MaxIncidents
  BY PipeFields, FromTo DEF IInv, TypeOK
<1>3. /\ pipe' \in [Incidents -> Pipe] /\ pipe'[n] = NoPipe
      /\ \A k \in Incidents \ {n} : pipe'[k] = pipe[k]
  BY <1>1, <1>2, EndsFacts
<1>4. Written(n) \subseteq Contents
  <2>1. Reverted(n) \in Contents
    BY <1>2 DEF Reverted
  <2>2. CASE pipe[n].at = "auto" \/ (pipe[n].at = "gate" /\ approval.decision = "approved")
    BY <1>2, <2>2 DEF Written
  <2>3. CASE /\ ~(pipe[n].at = "auto" \/ (pipe[n].at = "gate" /\ approval.decision = "approved"))
             /\ pipe[n].at \in {"verify", "browser"}
    BY <1>2, <2>1, <2>3 DEF Written
  <2>4. CASE /\ ~(pipe[n].at = "auto" \/ (pipe[n].at = "gate" /\ approval.decision = "approved"))
             /\ ~(pipe[n].at \in {"verify", "browser"})
    BY <1>2, <2>4 DEF Written
  <2> QED
    BY <2>2, <2>3, <2>4
<1>5. /\ avail' = FALSE /\ budget'.monitors = budget.monitors
      /\ budget' \in [monitors : 0 .. MaxMonitors, faults : 0 .. MaxFaults,
                      reports : 0 .. MaxReports]
  BY <1>1, BreaksFacts DEF IInv
<1>6. Stays(n)
  BY <1>1, <1>3, <1>5, FrameFacts DEF Stays, IInv
<1>7. Settles(n)
  BY <1>1, <1>2, <1>4, <1>5, FrameFacts DEF Settles, IInv, store
<1>8. Asks(n) /\ Checks(n) /\ Approved(n) /\ Resolved(n) /\ Reverts(n)
  BY <1>1, <1>3, <1>5, NoPipeFields DEF Asks, Checks, Approved, Resolved, Reverts
<1> QED
  BY <1>6, <1>7, <1>8 DEF Whole

-----------------------------------------------------------------------------
(* What follows from a step of a pipeline.                                   *)

LEMMA PipelineAlive ==
    ASSUME IInv, NEW n \in Incidents, Pipeline(n) \/ EvidenceFails(n)
    PROVE  pipe[n].at # "off"
BY DEF Pipeline, EvidenceFails, Triage, Current, Plan, Gate, GateEnds, ApplyAutomatic,
       VerifyServer, VerifyBrowser, PipelineCancelled, PipelineDies, Resumes

LEMMA PipelineWhole ==
    ASSUME IInv, NEW n \in Incidents, Pipeline(n) \/ EvidenceFails(n)
    PROVE  Whole(n)
BY TriageStep, CurrentStep, PlanStep, GateStep, GateEndsStep, ApplyAutomaticStep,
   VerifyServerStep, VerifyBrowserStep, PipelineCancelledStep, PipelineDiesStep,
   EvidenceFailsStep
   DEF Pipeline

LEMMA OnlyAlive ==
    ASSUME IInv, NEW n \in Incidents, pipe[n].at # "off"
    PROVE  /\ n = incident /\ n = pipeTask /\ status[n] = "open" /\ Active
           /\ \A k \in Incidents \ {n} : pipe[k].at = "off"
<1>1. n = incident /\ n = pipeTask /\ status[n] = "open"
  BY DEF IInv, OnePipeline
<1>2. n # 0
  BY ConstantFacts DEF Incidents
<1>3. \A k \in Incidents \ {n} : pipe[k].at = "off"
  BY <1>1 DEF IInv, OnePipeline
<1> QED
  BY <1>1, <1>2, <1>3 DEF Active

LEMMA PipelineInv ==
    ASSUME IInv, NEW n \in Incidents, Pipeline(n) \/ EvidenceFails(n)
    PROVE  IInv'
<1>1. pipe[n].at # "off" /\ Whole(n)
  BY PipelineAlive, PipelineWhole
<1>2. /\ n = incident /\ n = pipeTask /\ status[n] = "open" /\ Active
      /\ \A k \in Incidents \ {n} : pipe[k].at = "off"
  BY <1>1, OnlyAlive
<1>3. /\ pipe' \in [Incidents -> Pipe] /\ status' \in [Incidents -> Statuses]
      /\ \A k \in Incidents \ {n} : pipe'[k] = pipe[k] /\ status'[k] = status[k]
      /\ avail' \in BOOLEAN /\ (avail' => avail)
      /\ UNCHANGED <<incident, pipeTask, mon, monTask, req, injected, report>>
      /\ budget'.monitors = budget.monitors
  BY <1>1 DEF Whole, Stays
<1>4. \/ pipe'[n] = NoPipe
      \/ ~pipe[n].cancel /\ ~pipe'[n].cancel /\ pipe'[n].at # "off" /\ status'[n] = status[n]
  BY <1>1 DEF Whole, Stays
<1>5. pipe[n].cancel => pipe'[n] = NoPipe /\ status' = status
  BY <1>1 DEF Whole, Stays
<1>6. \A k \in Incidents \ {n} : pipe'[k].at = "off" /\ ~pipe'[k].cancel
  BY <1>2, <1>3 DEF IInv, OnePipeline
<1>7. TypeOK'
  <2>1. /\ incident \in 0 .. MaxIncidents /\ injected \in BOOLEAN
        /\ report \in [Contents -> {"none", "good", "bad", "partial"}]
        /\ pipeTask \in 0 .. MaxIncidents
        /\ mon \in [Monitors -> [at : {"off", "wait", "check"}, cancel : BOOLEAN,
                                 version : Contents]]
        /\ monTask \in 0 .. MaxMonitors
        /\ req \in [Requests -> [at : {"off", "pipe", "mon"}, pipe : 0 .. MaxIncidents,
                                 mon : 0 .. MaxMonitors]]
    BY DEF IInv, TypeOK
  <2>2. Settles(n)
    BY <1>1 DEF Whole
  <2> QED
    BY <1>3, <2>1, <2>2 DEF TypeOK, Settles
<1>8. OneMonitor'
  BY <1>3 DEF IInv, OneMonitor
<1>9. OnePipeline'
  <2>1. \A k \in Incidents \ {n} :
            /\ pipe'[k].at # "off" => status'[k] = "open" /\ k = incident' /\ k = pipeTask'
            /\ pipe'[k].at = "off" => ~pipe'[k].cancel
    BY <1>6
  <2>2. pipe'[n].at # "off" => status'[n] = "open" /\ n = incident' /\ n = pipeTask'
    BY <1>2, <1>3, <1>4, NoPipeFields
  <2>3. pipe'[n].at = "off" => ~pipe'[n].cancel
    BY <1>4, NoPipeFields
  <2> QED
    BY <2>1, <2>2, <2>3 DEF OnePipeline
<1>10. Resetting'
  <2>1. ASSUME NEW q \in Requests, req[q].at # "off"
        PROVE  /\ budget'.monitors > 0 /\ req'[q].mon = monTask' /\ monTask' # 0
    BY <1>3, <2>1 DEF IInv, Resetting
  <2>2. ASSUME NEW q \in Requests, req[q].at = "pipe"
        PROVE  /\ req'[q].pipe \in Incidents /\ (Active' \/ ~avail')
               /\ \A k \in Incidents : pipe'[k].at # "off" => k = req'[q].pipe /\ pipe'[k].cancel
    <3>1. pipe[n].cancel /\ req[q].pipe \in Incidents
      BY <1>1, <2>2 DEF IInv, Resetting
    <3>2. pipe'[n] = NoPipe /\ status' = status
      BY <1>5, <3>1
    <3>3. Active'
      BY <1>2, <1>3, <3>2 DEF Active
    <3> QED
      BY <1>3, <1>6, <3>1, <3>2, <3>3, NoPipeFields
  <2>3. ASSUME NEW q \in Requests, req[q].at = "mon"
        PROVE  FALSE
    BY <1>1, <2>3 DEF IInv, Resetting
  <2> QED
    BY <1>3, <2>1, <2>2, <2>3 DEF Resetting
<1>11. Approving'
  <2>1. Asks(n)
    BY <1>1 DEF Whole
  <2>2. CASE approval' = approval /\ granted' = granted /\ pipe'[n].at # "gate"
    BY <1>6, <2>2 DEF IInv, Approving
  <2>3. CASE approval' = NoApproval /\ pipe'[n].at # "gate"
    BY <1>6, <2>3 DEF Approving, NoApproval
  <2>4. CASE approval' = [inc |-> n, change |-> pipe'[n].change, decision |-> "none"]
    BY <1>6, <2>4 DEF Approving
  <2> QED
    BY <2>1, <2>2, <2>3, <2>4 DEF Asks
<1>12. Verification'
  <2>1. Checks(n)
    BY <1>1 DEF Whole
  <2>2. \A k \in Incidents : Verifying(k)' /\ avail' => site' = pipe'[k].change.to
    BY <1>6, <2>1 DEF Verifying, Checks
  <2>3. \A k \in Incidents :
            pipe'[k].at = "browser" /\ pipe'[k].ok => pipe'[k].change.to \in Sound \cup Blind
    BY <1>6, <2>1 DEF Checks
  <2>4. \A c \in Blind : report'[c] # "good"
    BY <1>3 DEF IInv, Verification
  <2> QED
    BY <2>2, <2>3, <2>4 DEF Verification
<1> QED
  BY <1>7, <1>8, <1>9, <1>10, <1>11, <1>12 DEF IInv

(* The three action properties, of one step. *)
Honest == \A n \in Incidents : Approved(n) /\ Resolved(n) /\ Reverts(n)

LEMMA PipelineHonest ==
    ASSUME IInv, NEW n \in Incidents, Pipeline(n) \/ EvidenceFails(n)
    PROVE  Honest
<1>1. pipe[n].at # "off" /\ Whole(n)
  BY PipelineAlive, PipelineWhole
<1>2. \A k \in Incidents \ {n} : pipe[k].at = "off" /\ status'[k] = status[k]
  BY <1>1, OnlyAlive DEF Whole, Stays
<1>3. \A k \in Incidents \ {n} : Approved(k) /\ Resolved(k) /\ Reverts(k)
  BY <1>2 DEF Approved, Resolved, Reverts, Verifying
<1> QED
  BY <1>1, <1>3 DEF Honest, Whole

(* A step that leaves the pipelines where they are, and resolves nothing. *)
LEMMA OthersHonest ==
    ASSUME \A n \in Incidents : pipe'[n].at = pipe[n].at /\ pipe'[n].mode = pipe[n].mode,
           \A n \in Incidents : status'[n] = "resolved" => status[n] = "resolved"
    PROVE  Honest
BY DEF Honest, Approved, Resolved, Reverts, Verifying

-----------------------------------------------------------------------------
(* The steps of the control room, of the resets and of the monitor.          *)

LEMMA Dormant ==
    ASSUME IInv, ~Active
    PROVE  \A n \in Incidents : pipe[n].at = "off"
BY OnlyAlive

LEMMA TypeFacts ==
    ASSUME TypeOK
    PROVE  /\ incident \in 0 .. MaxIncidents /\ injected \in BOOLEAN /\ avail \in BOOLEAN
           /\ report \in [Contents -> {"none", "good", "bad", "partial"}]
           /\ pipe \in [Incidents -> Pipe] /\ pipeTask \in 0 .. MaxIncidents
           /\ mon \in [Monitors -> [at : {"off", "wait", "check"}, cancel : BOOLEAN,
                                    version : Contents]]
           /\ monTask \in 0 .. MaxMonitors
           /\ req \in [Requests -> [at : {"off", "pipe", "mon"}, pipe : 0 .. MaxIncidents,
                                    mon : 0 .. MaxMonitors]]
           /\ pend \in 0 .. MaxIncidents /\ filed \in 0 .. MaxIncidents
BY DEF TypeOK

LEMMA InjectStep ==
    ASSUME IInv, NEW c \in Contents, Inject(c)
    PROVE  IInv' /\ Honest
<1>1. /\ avail /\ ~Active /\ site' = c /\ incident' = 0 /\ injected' = TRUE
      /\ suppressed' = None
      /\ UNCHANGED <<status, approval, report, seen, pipe, pipeTask, mon, monTask, req,
                     avail, pend, filed, granted, budget>>
  BY DEF Inject, Ready, tasks, store
<1>2. \A n \in Incidents : pipe[n].at = "off"
  BY <1>1, Dormant
<1>3. TypeOK'
  <2>1. 0 \in 0 .. MaxIncidents
    BY ConstantFacts
  <2> QED
    BY <1>1, <2>1 DEF IInv, TypeOK
<1>4. OneMonitor'
  BY <1>1 DEF IInv, OneMonitor
<1>5. OnePipeline'
  BY <1>1, <1>2 DEF IInv, OnePipeline
<1>6. Resetting'
  BY <1>1 DEF IInv, Resetting
<1>7. Approving'
  BY <1>1 DEF IInv, Approving
<1>8. Verification'
  BY <1>1, <1>2 DEF IInv, Verification, Verifying
<1>9. Honest
  BY <1>1, OthersHonest
<1> QED
  BY <1>3, <1>4, <1>5, <1>6, <1>7, <1>8, <1>9 DEF IInv

LEMMA DecideStep ==
    ASSUME IInv, NEW d \in {"approved", "rejected"}, Decide(d)
    PROVE  IInv' /\ Honest
<1>1. /\ avail /\ approval.inc # 0 /\ approval.decision = "none" /\ incident # 0
      /\ Checkpoints(incident)
      /\ UNCHANGED <<site, incident, status, injected, suppressed, report,
                     seen, pipe, pipeTask, mon, monTask, req, budget>>
  BY DEF Decide, Ready
<1>2. incident \in Incidents
  BY <1>1, TypeFacts, ConstantFacts DEF IInv, Incidents
<1>3. /\ pend' \in 0 .. MaxIncidents /\ filed' \in 0 .. MaxIncidents
      /\ avail' \in BOOLEAN /\ (avail' => avail)
  BY <1>1, <1>2, CheckpointFacts DEF IInv
<1>4. PICK i \in 0 .. MaxIncidents, change \in Change, old \in {"none", "approved", "rejected"} :
          approval = [inc |-> i, change |-> change, decision |-> old]
  BY DEF IInv, TypeOK
<1>5. /\ approval.inc = i /\ approval.change = change /\ i \in Incidents
      /\ approval # NoApproval
  BY <1>1, <1>4, ConstantFacts DEF Incidents, NoApproval
<1>6. \/ UNCHANGED <<approval, granted>>
      \/ /\ approval' = [inc |-> i, change |-> change, decision |-> d]
         /\ \/ d = "rejected" /\ granted' = granted
            \/ granted' = [granted EXCEPT ![i] = {change}]
  BY <1>4, <1>5 DEF Decide
<1>7. granted \in [Incidents -> SUBSET Change]
  BY DEF IInv, TypeOK
<1>8. /\ approval' \in [inc : 0 .. MaxIncidents, change : Change,
                        decision : {"none", "approved", "rejected"}]
      /\ granted' \in [Incidents -> SUBSET Change]
  BY <1>4, <1>5, <1>6, <1>7 DEF IInv, TypeOK
<1>9. TypeOK'
  BY <1>1, <1>3, <1>8 DEF IInv, TypeOK
<1>10. OneMonitor'
  BY <1>1 DEF IInv, OneMonitor
<1>11. OnePipeline'
  BY <1>1 DEF IInv, OnePipeline
<1>12. Resetting'
  <2>1. UNCHANGED <<Active, pipe, mon, monTask, req, budget>> /\ (avail' => avail)
    BY <1>1, <1>3 DEF Active
  <2> QED
    BY <1>1, <1>3, <2>1 DEF IInv, Resetting
<1>13. Approving'
  <2>1. \A n \in Incidents : pipe[n].at = "gate" => i = n /\ change = pipe[n].change
    BY <1>5 DEF IInv, Approving
  <2>2. CASE UNCHANGED <<approval, granted>>
    BY <1>1, <2>2 DEF IInv, Approving
  <2>3. CASE approval' = [inc |-> i, change |-> change, decision |-> d] /\ d = "rejected"
    BY <1>1, <2>1, <2>3 DEF Approving
  <2>4. CASE /\ approval' = [inc |-> i, change |-> change, decision |-> d]
             /\ granted' = [granted EXCEPT ![i] = {change}]
    <3>1. approval'.inc = i /\ approval'.change = change /\ i # 0 /\ change \in granted'[i]
      BY <1>5, <1>7, <2>4, ConstantFacts DEF Incidents
    <3> QED
      BY <1>1, <2>1, <3>1 DEF Approving
  <2> QED
    BY <1>6, <2>2, <2>3, <2>4
<1>14. Verification'
  BY <1>1, <1>3 DEF IInv, Verification, Verifying
<1>15. Honest
  BY <1>1, OthersHonest
<1> QED
  BY <1>9, <1>10, <1>11, <1>12, <1>13, <1>14, <1>15 DEF IInv

LEMMA ReportStep ==
    ASSUME IInv, NEW c \in Contents, Report(c) \/ Expire(c)
    PROVE  IInv' /\ Honest
<1>1. /\ UNCHANGED <<site, incident, status, injected, suppressed, approval,
                     pipe, pipeTask, mon, monTask, req, avail, pend, filed, granted>>
      /\ seen' \in [Incidents -> SUBSET Contents]
      /\ budget'.monitors = budget.monitors
      /\ budget' \in [monitors : 0 .. MaxMonitors, faults : 0 .. MaxFaults,
                      reports : 0 .. MaxReports]
  <2>1. CASE Report(c)
    <3>1. PICK x \in 0 .. MaxMonitors, y \in 0 .. MaxFaults, z \in 0 .. MaxReports :
              budget = [monitors |-> x, faults |-> y, reports |-> z]
      BY DEF IInv, TypeOK
    <3>2. z > 0 /\ budget' = [monitors |-> x, faults |-> y, reports |-> z - 1]
      BY <2>1, <3>1 DEF Report
    <3>3. z - 1 \in 0 .. MaxReports
      BY <3>2, ConstantFacts
    <3>4. seen' \in [Incidents -> SUBSET Contents]
      BY <2>1 DEF Report, IInv, TypeOK
    <3> QED
      BY <2>1, <3>1, <3>2, <3>3, <3>4 DEF Report, tasks, store
  <2>2. CASE Expire(c)
    BY <2>2 DEF Expire, tasks, store, IInv, TypeOK
  <2> QED
    BY <2>1, <2>2
<1>2. PICK word \in {"none", "good", "bad", "partial"} :
          report' = [report EXCEPT ![c] = word] /\ (c \in Blind => word # "good")
  <2>1. CASE Report(c)
    <3>1. PICK word \in Words(c) : report' = [report EXCEPT ![c] = word]
      BY <2>1 DEF Report
    <3> QED
      BY <3>1 DEF Words
  <2>2. CASE Expire(c)
    BY <2>2 DEF Expire
  <2> QED
    BY <2>1, <2>2
<1>3. TypeOK'
  BY <1>1, <1>2 DEF IInv, TypeOK
<1>4. OneMonitor'
  BY <1>1 DEF IInv, OneMonitor
<1>5. OnePipeline'
  BY <1>1 DEF IInv, OnePipeline
<1>6. Resetting'
  <2>1. UNCHANGED <<Active, pipe, mon, monTask, req, avail>>
    BY <1>1 DEF Active
  <2> QED
    BY <1>1, <2>1 DEF IInv, Resetting
<1>7. Approving'
  BY <1>1 DEF IInv, Approving
<1>8. Verification'
  <2>1. \A b \in Blind : report'[b] # "good"
    BY <1>2, LabAssumption DEF IInv, Verification, TypeOK, LabAssumption
  <2> QED
    BY <1>1, <2>1 DEF IInv, Verification, Verifying
<1>9. Honest
  BY <1>1, OthersHonest
<1> QED
  BY <1>3, <1>4, <1>5, <1>6, <1>7, <1>8, <1>9 DEF IInv

(* The tasks of monitors that a reset cancels. *)
LEMMA CancelsFacts ==
    ASSUME IInv, NEW M, CancelsMonitors(M)
    PROVE  /\ mon' \in [Monitors -> [at : {"off", "wait", "check"}, cancel : BOOLEAN,
                                     version : Contents]]
           /\ \A m \in Monitors : mon'[m].at = mon[m].at
           /\ \A m \in Monitors : mon[m].at = "off" => mon'[m] = mon[m]
           /\ \A m \in Monitors : m \in M /\ mon[m].at # "off" => mon'[m].cancel
<1> DEFINE Task == [at : {"off", "wait", "check"}, cancel : BOOLEAN, version : Contents]
<1>1. mon \in [Monitors -> Task]
  BY DEF IInv, TypeOK
<1>2. mon' = [m \in Monitors |-> IF m \in M /\ mon[m].at # "off"
                                THEN [mon[m] EXCEPT !.cancel = TRUE] ELSE mon[m]]
  BY DEF CancelsMonitors
<1>3. ASSUME NEW x \in Task
      PROVE  /\ [x EXCEPT !.cancel = TRUE] \in Task
             /\ [x EXCEPT !.cancel = TRUE].at = x.at
             /\ [x EXCEPT !.cancel = TRUE].cancel
  OBVIOUS
<1>4. \A m \in Monitors : mon[m] \in Task
  BY <1>1
<1> HIDE DEF Task
<1>5. ASSUME NEW m \in Monitors
      PROVE  /\ mon'[m] \in Task /\ mon'[m].at = mon[m].at
             /\ mon[m].at = "off" => mon'[m] = mon[m]
             /\ m \in M /\ mon[m].at # "off" => mon'[m].cancel
  BY <1>2, <1>3, <1>4
<1>6. mon' \in [Monitors -> Task]
  BY <1>2, <1>5
<1> QED
  BY <1>5, <1>6 DEF Task

Cancels(n) == pipe' = [pipe EXCEPT ![n].cancel = TRUE]

LEMMA CancelsPipe ==
    ASSUME pipe \in [Incidents -> Pipe], NEW n \in Incidents, Cancels(n)
    PROVE  /\ pipe' \in [Incidents -> Pipe] /\ pipe'[n].cancel = TRUE
           /\ pipe'[n].at = pipe[n].at /\ pipe'[n].change = pipe[n].change
           /\ pipe'[n].mode = pipe[n].mode /\ pipe'[n].ok = pipe[n].ok
           /\ \A k \in Incidents \ {n} : pipe'[k] = pipe[k]
<1> DEFINE x == [pipe[n] EXCEPT !.cancel = TRUE]
<1>1. x \in Pipe
  BY DEF Pipe
<1>2. /\ x.cancel = TRUE /\ x.at = pipe[n].at /\ x.change = pipe[n].change
      /\ x.mode = pipe[n].mode /\ x.ok = pipe[n].ok
  BY DEF Pipe
<1>3. pipe' = [pipe EXCEPT ![n] = x]
  BY DEF Cancels
<1> HIDE DEF x
<1> QED
  BY <1>1, <1>2, <1>3

LEMMA Alone ==
    ASSUME OneReset, NEW q \in Requests
    PROVE  Requests = {q}
BY DEF OneReset

LEMMA ResetBeginsStep ==
    ASSUME IInv, OneReset, NEW q \in Requests, ResetBegins(q)
    PROVE  IInv' /\ Honest
<1> DEFINE idle == pipeTask = 0 \/ pipe[pipeTask].at = "off"
<1>1. /\ avail /\ monTask # 0 /\ req[q].at = "off"
      /\ Cardinality({s \in Requests : req[s].at # "off"}) < budget.monitors
      /\ req' = [req EXCEPT ![q] = [at |-> IF idle THEN "mon" ELSE "pipe",
                                    pipe |-> pipeTask, mon |-> monTask]]
      /\ UNCHANGED <<site, incident, status, injected, suppressed, approval, report,
                     seen, pipeTask, monTask, avail, pend, filed, granted, budget>>
  BY DEF ResetBegins, Ready, MonitorRuns, store
<1>2. /\ idle => CancelsMonitors({monTask}) /\ UNCHANGED pipe
      /\ ~idle => pipe' = [pipe EXCEPT ![pipeTask].cancel = TRUE] /\ UNCHANGED mon
  BY DEF ResetBegins
<1>3. Requests = {q}
  BY Alone
<1>4. /\ incident \in 0 .. MaxIncidents /\ pipe \in [Incidents -> Pipe]
      /\ pipeTask \in 0 .. MaxIncidents /\ monTask \in 0 .. MaxMonitors
      /\ req \in [Requests -> [at : {"off", "pipe", "mon"}, pipe : 0 .. MaxIncidents,
                               mon : 0 .. MaxMonitors]]
      /\ mon \in [Monitors -> [at : {"off", "wait", "check"}, cancel : BOOLEAN,
                               version : Contents]]
  BY TypeFacts DEF IInv
<1>5. budget.monitors > 0
  <2>1. {s \in Requests : req[s].at # "off"} = {}
    BY <1>1, <1>3
  <2>2. Cardinality({s \in Requests : req[s].at # "off"}) = 0
    BY <2>1, FS_EmptySet
  <2> QED
    BY <1>1, <2>2
<1>6. /\ req' \in [Requests -> [at : {"off", "pipe", "mon"}, pipe : 0 .. MaxIncidents,
                                mon : 0 .. MaxMonitors]]
      /\ req'[q].pipe = pipeTask /\ req'[q].mon = monTask
      /\ req'[q].at = IF idle THEN "mon" ELSE "pipe"
  <2> HIDE DEF idle
  <2> QED
    BY <1>1, <1>4
<1>7. CASE idle
  <2>1. CancelsMonitors({monTask}) /\ pipe' = pipe
    BY <1>2, <1>7
  <2>2. \A n \in Incidents : pipe[n].at = "off"
    BY <1>7, OnlyAlive, ConstantFacts DEF Incidents
  <2>3. /\ mon' \in [Monitors -> [at : {"off", "wait", "check"}, cancel : BOOLEAN,
                                  version : Contents]]
        /\ \A m \in Monitors : mon'[m].at = mon[m].at
        /\ \A m \in Monitors : mon[m].at = "off" => mon'[m] = mon[m]
        /\ \A m \in Monitors : m \in {monTask} /\ mon[m].at # "off" => mon'[m].cancel
    BY <2>1, CancelsFacts
  <2>4. req'[q].at = "mon"
    BY <1>6, <1>7
  <2> HIDE DEF idle
  <2>5. TypeOK'
    BY <1>1, <1>6, <2>1, <2>3 DEF IInv, TypeOK
  <2>6. OneMonitor'
    BY <1>1, <2>3 DEF IInv, OneMonitor
  <2>7. OnePipeline'
    BY <1>1, <2>1 DEF IInv, OnePipeline
  <2>8. Resetting'
    <3>1. \A m \in Monitors : mon'[m].at # "off" => mon'[m].cancel
      BY <2>3 DEF IInv, OneMonitor
    <3> QED
      BY <1>1, <1>3, <1>5, <1>6, <2>1, <2>2, <2>4, <3>1 DEF Resetting
  <2>9. Approving'
    BY <1>1, <2>1 DEF IInv, Approving
  <2>10. Verification'
    BY <1>1, <2>1 DEF IInv, Verification, Verifying
  <2>11. Honest
    BY <1>1, <2>1, OthersHonest
  <2> QED
    BY <2>5, <2>6, <2>7, <2>8, <2>9, <2>10, <2>11 DEF IInv
<1>8. CASE ~idle
  <2>1. /\ pipe' = [pipe EXCEPT ![pipeTask].cancel = TRUE] /\ mon' = mon
        /\ pipeTask # 0 /\ pipe[pipeTask].at # "off"
    BY <1>2, <1>8
  <2>2. req'[q].at = "pipe"
    BY <1>6, <1>8
  <2> HIDE DEF idle
  <2>3. PICK n : n = pipeTask
    OBVIOUS
  <2>4. n \in Incidents
    BY <1>4, <2>1, <2>3, ConstantFacts DEF Incidents
  <2>5. /\ pipe' \in [Incidents -> Pipe] /\ pipe'[n].cancel = TRUE
        /\ pipe'[n].at = pipe[n].at /\ pipe'[n].change = pipe[n].change
        /\ pipe'[n].mode = pipe[n].mode /\ pipe'[n].ok = pipe[n].ok
        /\ \A k \in Incidents \ {n} : pipe'[k] = pipe[k]
    <3>1. Cancels(n)
      BY <2>1, <2>3 DEF Cancels
    <3> QED
      BY <1>4, <2>4, <3>1, CancelsPipe
  <2>6. /\ n = incident /\ status[n] = "open" /\ Active
        /\ \A k \in Incidents \ {n} : pipe[k].at = "off"
    BY <2>1, <2>3, <2>4, OnlyAlive
  <2>7. TypeOK'
    BY <1>1, <1>6, <2>1, <2>5 DEF IInv, TypeOK
  <2>8. OneMonitor'
    BY <1>1, <2>1 DEF IInv, OneMonitor
  <2>9. OnePipeline'
    BY <1>1, <2>1, <2>3, <2>5, <2>6 DEF IInv, OnePipeline
  <2>10. Resetting'
    <3>1. Active'
      BY <1>1, <2>6 DEF Active
    <3>2. \A k \in Incidents : pipe'[k].at # "off" => k = n /\ pipe'[k].cancel
      BY <2>5, <2>6
    <3> QED
      BY <1>1, <1>3, <1>5, <1>6, <2>2, <2>3, <2>4, <3>1, <3>2 DEF Resetting
  <2>11. Approving'
    BY <1>1, <2>5, <2>6 DEF IInv, Approving
  <2>12. Verification'
    <3>1. \A k \in Incidents : Verifying(k)' /\ avail' => site' = pipe'[k].change.to
      BY <1>1, <2>5, <2>6 DEF IInv, Verification, Verifying
    <3>2. \A k \in Incidents :
              pipe'[k].at = "browser" /\ pipe'[k].ok => pipe'[k].change.to \in Sound \cup Blind
      BY <2>5, <2>6 DEF IInv, Verification
    <3> QED
      BY <1>1, <3>1, <3>2 DEF IInv, Verification
  <2>13. Honest
    BY <1>1, <2>5, OthersHonest
  <2> QED
    BY <2>7, <2>8, <2>9, <2>10, <2>11, <2>12, <2>13 DEF IInv
<1> QED
  BY <1>7, <1>8

(* When the pipeline is gone the reset cancels the monitor. *)
LEMMA ResetsStopMonitorStep ==
    ASSUME IInv, OneReset, NEW p \in Incidents, ResetsStopMonitor(p)
    PROVE  IInv' /\ Honest
<1>1. /\ pipe[p].at = "off"
      /\ UNCHANGED <<site, incident, status, injected, suppressed, approval, report,
                     seen, pipe, pipeTask, monTask, avail, pend, filed, granted, budget>>
  BY DEF ResetsStopMonitor, store
<1>2. PICK q \in Requests : req[q].at = "pipe" /\ req[q].pipe = p
  BY DEF ResetsStopMonitor, Awaiting
<1>3. Requests = {q}
  BY Alone
<1>4. Awaiting("pipe", "pipe", p) = {q}
  BY <1>2, <1>3 DEF Awaiting
<1>5. /\ req \in [Requests -> [at : {"off", "pipe", "mon"}, pipe : 0 .. MaxIncidents,
                               mon : 0 .. MaxMonitors]]
  BY TypeFacts DEF IInv
<1>6. /\ req' = [r \in Requests |-> IF r \in {q} THEN [req[r] EXCEPT !.at = "mon"] ELSE req[r]]
      /\ CancelsMonitors({req[r].mon : r \in {q}})
  BY <1>4 DEF ResetsStopMonitor
<1>7. /\ req' \in [Requests -> [at : {"off", "pipe", "mon"}, pipe : 0 .. MaxIncidents,
                                mon : 0 .. MaxMonitors]]
      /\ req'[q].at = "mon" /\ req'[q].mon = req[q].mon
  BY <1>3, <1>5, <1>6
<1>8. /\ \A n \in Incidents : pipe[n].at = "off"
      /\ budget.monitors > 0 /\ req[q].mon = monTask /\ monTask # 0
  BY <1>1, <1>2 DEF IInv, Resetting
<1>9. PICK M : M = {req[r].mon : r \in {q}}
  OBVIOUS
<1>10. CancelsMonitors(M) /\ M = {monTask}
  BY <1>6, <1>8, <1>9
<1>11. /\ mon' \in [Monitors -> [at : {"off", "wait", "check"}, cancel : BOOLEAN,
                                 version : Contents]]
       /\ \A m \in Monitors : mon'[m].at = mon[m].at
       /\ \A m \in Monitors : mon[m].at = "off" => mon'[m] = mon[m]
       /\ \A m \in Monitors : m \in M /\ mon[m].at # "off" => mon'[m].cancel
  BY <1>10, CancelsFacts
<1>12. TypeOK'
  BY <1>1, <1>7, <1>11 DEF IInv, TypeOK
<1>13. OneMonitor'
  BY <1>1, <1>11 DEF IInv, OneMonitor
<1>14. OnePipeline'
  BY <1>1 DEF IInv, OnePipeline
<1>15. Resetting'
  <2>1. \A m \in Monitors : mon'[m].at # "off" => mon'[m].cancel
    BY <1>10, <1>11 DEF IInv, OneMonitor
  <2> QED
    BY <1>1, <1>3, <1>7, <1>8, <2>1 DEF Resetting
<1>16. Approving'
  BY <1>1 DEF IInv, Approving
<1>17. Verification'
  BY <1>1 DEF IInv, Verification, Verifying
<1>18. Honest
  BY <1>1, OthersHonest
<1> QED
  BY <1>12, <1>13, <1>14, <1>15, <1>16, <1>17, <1>18 DEF IInv

LEMMA NoRequestFacts ==
    /\ NoRequest \in [at : {"off", "pipe", "mon"}, pipe : 0 .. MaxIncidents,
                      mon : 0 .. MaxMonitors]
    /\ NoRequest.at = "off"
BY ConstantFacts DEF NoRequest

(* A reset ends when the pipeline and the monitor are gone. *)
LEMMA AllStopped ==
    ASSUME IInv, OneReset, NEW m \in Monitors, Awaiting("mon", "mon", m) # {}, mon[m].at = "off"
    PROVE  /\ \A n \in Incidents : pipe[n].at = "off"
           /\ \A k \in Monitors : mon[k].at = "off" /\ ~mon[k].cancel
           /\ Cardinality(Awaiting("mon", "mon", m)) = 1
           /\ Awaiting("mon", "mon", m) = Requests
           /\ budget.monitors > 0
<1>1. PICK q \in Requests : req[q].at = "mon" /\ req[q].mon = m
  BY DEF Awaiting
<1>2. Requests = {q}
  BY Alone
<1>3. Awaiting("mon", "mon", m) = {q}
  BY <1>1, <1>2 DEF Awaiting
<1>4. Cardinality({q}) = 1
  BY FS_Singleton
<1>5. /\ \A n \in Incidents : pipe[n].at = "off"
      /\ \A k \in Monitors : mon[k].at # "off" => mon[k].cancel
      /\ m = monTask /\ budget.monitors > 0
  BY <1>1 DEF IInv, Resetting
<1>6. \A k \in Monitors : mon[k].at = "off" /\ ~mon[k].cancel
  BY <1>5 DEF IInv, OneMonitor
<1> QED
  BY <1>2, <1>3, <1>4, <1>5, <1>6

LEMMA RequestsOff ==
    ASSUME NEW Q, Q = Requests,
           req' = [q \in Requests |-> IF q \in Q THEN NoRequest ELSE req[q]]
    PROVE  /\ req' \in [Requests -> [at : {"off", "pipe", "mon"}, pipe : 0 .. MaxIncidents,
                                     mon : 0 .. MaxMonitors]]
           /\ \A q \in Requests : req'[q].at = "off"
BY NoRequestFacts

LEMMA ResetsEndStep ==
    ASSUME IInv, OneReset, NEW m \in Monitors, ResetsEnd(m)
    PROVE  IInv' /\ Honest
<1>1. PICK Q : Q = Awaiting("mon", "mon", m)
  OBVIOUS
<1>2. PICK last : last = MaxMonitors - budget.monitors + Cardinality(Q)
  OBVIOUS
<1>3. /\ Q # {} /\ mon[m].at = "off"
      /\ req' = [q \in Requests |-> IF q \in Q THEN NoRequest ELSE req[q]]
      /\ approval' = NoApproval
      /\ UNCHANGED <<report, seen, pipe, pipeTask, granted>>
  BY <1>1 DEF ResetsEnd
<1>4. /\ Active /\ avail => Closes(incident, "cancelled")
      /\ ~(Active /\ avail) => UNCHANGED <<status, store, avail>>
  BY DEF ResetsEnd
<1>5. IF ~avail' THEN UNCHANGED <<site, incident, injected, suppressed, mon, monTask, budget>>
      ELSE /\ site' = Release /\ incident' = 0 /\ injected' = FALSE
           /\ suppressed' = None
           /\ budget' = [budget EXCEPT !.monitors = @ - Cardinality(Q)]
           /\ mon' = [k \in Monitors |-> IF k \in last - Cardinality(Q) + 1 .. last
                                         THEN [mon[k] EXCEPT !.at = "wait"] ELSE mon[k]]
           /\ monTask' = last
  BY <1>1, <1>2 DEF ResetsEnd
<1>6. /\ \A n \in Incidents : pipe[n].at = "off"
      /\ \A k \in Monitors : mon[k].at = "off" /\ ~mon[k].cancel
      /\ Cardinality(Q) = 1 /\ Q = Requests /\ budget.monitors > 0
  BY <1>1, <1>3, AllStopped
<1>7. /\ req' \in [Requests -> [at : {"off", "pipe", "mon"}, pipe : 0 .. MaxIncidents,
                                mon : 0 .. MaxMonitors]]
      /\ \A q \in Requests : req'[q].at = "off"
  BY <1>3, <1>6, RequestsOff
<1>8. /\ pend' \in 0 .. MaxIncidents /\ filed' \in 0 .. MaxIncidents
      /\ avail' \in BOOLEAN /\ status' \in [Incidents -> Statuses]
      /\ \A n \in Incidents : status'[n] = "resolved" => status[n] = "resolved"
  <2>1. CASE Active /\ avail
    <3>1. incident \in Incidents
      BY <2>1, TypeFacts, ConstantFacts DEF Active, Incidents, IInv
    <3>2. "cancelled" \in Statuses
      BY DEF Statuses
    <3>3. Closes(incident, "cancelled")
      BY <1>4, <2>1
    <3> QED
      BY <3>1, <3>2, <3>3, CloseFacts DEF IInv
  <2>2. CASE ~(Active /\ avail)
    BY <1>4, <2>2, TypeFacts, FrameFacts DEF IInv, store
  <2> QED
    BY <2>1, <2>2
<1>9. approval' \in [inc : 0 .. MaxIncidents, change : Change,
                     decision : {"none", "approved", "rejected"}]
  BY <1>3, NoPipeFields, ConstantFacts DEF NoApproval
<1>10. Honest
  BY <1>3, <1>8, OthersHonest
<1>11. OnePipeline'
  BY <1>3, <1>6 DEF IInv, OnePipeline
<1>12. Resetting'
  BY <1>7 DEF Resetting
<1>13. Approving'
  BY <1>3 DEF Approving, NoApproval
<1>14. Verification'
  BY <1>3, <1>6 DEF IInv, Verification, Verifying
<1>15. CASE ~avail'
  <2>1. UNCHANGED <<site, incident, injected, suppressed, mon, monTask, budget>>
    BY <1>5, <1>15
  <2>2. TypeOK'
    BY <1>3, <1>7, <1>8, <1>9, <2>1 DEF IInv, TypeOK
  <2>3. OneMonitor'
    BY <2>1 DEF IInv, OneMonitor
  <2> QED
    BY <1>10, <1>11, <1>12, <1>13, <1>14, <2>2, <2>3 DEF IInv
<1>16. CASE avail'
  <2>1. PICK x \in 0 .. MaxMonitors, y \in 0 .. MaxFaults, z \in 0 .. MaxReports :
            budget = [monitors |-> x, faults |-> y, reports |-> z]
    BY DEF IInv, TypeOK
  <2>2. /\ site' = Release /\ incident' = 0 /\ injected' = FALSE /\ suppressed' = None
        /\ budget' = [monitors |-> x - 1, faults |-> y, reports |-> z]
        /\ mon' = [k \in Monitors |-> IF k \in last .. last
                                      THEN [mon[k] EXCEPT !.at = "wait"] ELSE mon[k]]
        /\ monTask' = last /\ last = MaxMonitors - x + 1 /\ x > 0
    <3>1. x > 0 /\ last = MaxMonitors - x + 1
      BY <1>2, <1>6, <2>1
    <3>2. last - 1 + 1 = last
      BY <3>1, ConstantFacts
    <3> QED
      BY <1>5, <1>6, <1>16, <2>1, <3>1, <3>2
  <2>3. last \in Monitors /\ last \in 0 .. MaxMonitors /\ x - 1 \in 0 .. MaxMonitors
    BY <2>2, ConstantFacts DEF Monitors
  <2>4. \A k \in Monitors : k \in last .. last <=> k = last
    BY <2>3 DEF Monitors
  <2>5. /\ mon' \in [Monitors -> [at : {"off", "wait", "check"}, cancel : BOOLEAN,
                                  version : Contents]]
        /\ \A k \in Monitors : mon'[k].at # "off" => k = last
        /\ \A k \in Monitors : ~mon'[k].cancel
    <3> DEFINE Task == [at : {"off", "wait", "check"}, cancel : BOOLEAN, version : Contents]
    <3>1. mon \in [Monitors -> Task]
      BY TypeFacts DEF IInv
    <3>2. ASSUME NEW t \in Task
          PROVE  /\ [t EXCEPT !.at = "wait"] \in Task
                 /\ [t EXCEPT !.at = "wait"].cancel = t.cancel
      OBVIOUS
    <3>3. \A k \in Monitors : mon[k] \in Task
      BY <3>1
    <3> HIDE DEF Task
    <3>4. ASSUME NEW k \in Monitors
          PROVE  /\ mon'[k] \in Task /\ ~mon'[k].cancel
                 /\ mon'[k].at # "off" => k = last
      BY <1>6, <2>2, <2>4, <3>2, <3>3
    <3>5. mon' \in [Monitors -> Task]
      BY <2>2, <3>4
    <3> QED
      BY <3>4, <3>5 DEF Task
  <2>6. TypeOK'
    <3>1. 0 \in 0 .. MaxIncidents /\ Release \in Contents
      BY ConstantFacts
    <3> QED
      BY <1>3, <1>7, <1>8, <1>9, <2>2, <2>3, <2>5, <3>1 DEF IInv, TypeOK
  <2>7. OneMonitor'
    BY <2>2, <2>5 DEF OneMonitor
  <2> QED
    BY <1>10, <1>11, <1>12, <1>13, <1>14, <2>6, <2>7 DEF IInv
<1> QED
  BY <1>15, <1>16

(* A reset that fails half way leaves the workspace unavailable. *)
LEMMA ResetsFailStep ==
    ASSUME IInv, OneReset, NEW m \in Monitors, ResetsFail(m)
    PROVE  IInv' /\ Honest
<1>1. PICK Q : Q = Awaiting("mon", "mon", m)
  OBVIOUS
<1>2. /\ Q # {} /\ mon[m].at = "off" /\ Breaks
      /\ req' = [q \in Requests |-> IF q \in Q THEN NoRequest ELSE req[q]]
      /\ approval' = NoApproval
      /\ UNCHANGED <<incident, injected, suppressed, report, seen, pipe, pipeTask,
                     mon, monTask, granted>>
  BY <1>1 DEF ResetsFail
<1>3. \/ UNCHANGED <<site, status, store>>
      \/ /\ site' \in Contents
         /\ \/ UNCHANGED <<status, store>>
            \/ /\ Active /\ status' = [status EXCEPT ![incident] = "cancelled"]
               /\ pend' = 0 /\ filed' = incident
  BY DEF ResetsFail
<1>4. /\ \A n \in Incidents : pipe[n].at = "off"
      /\ \A k \in Monitors : mon[k].at = "off" /\ ~mon[k].cancel
      /\ Cardinality(Q) = 1 /\ Q = Requests /\ budget.monitors > 0
  BY <1>1, <1>2, AllStopped
<1>5. /\ req' \in [Requests -> [at : {"off", "pipe", "mon"}, pipe : 0 .. MaxIncidents,
                                mon : 0 .. MaxMonitors]]
      /\ \A q \in Requests : req'[q].at = "off"
  BY <1>2, <1>4, RequestsOff
<1>6. /\ avail' = FALSE /\ budget'.monitors = budget.monitors
      /\ budget' \in [monitors : 0 .. MaxMonitors, faults : 0 .. MaxFaults,
                      reports : 0 .. MaxReports]
  BY <1>2, BreaksFacts DEF IInv
<1>7. /\ pend' \in 0 .. MaxIncidents /\ filed' \in 0 .. MaxIncidents
      /\ site' \in Contents /\ status' \in [Incidents -> Statuses]
      /\ \A n \in Incidents : status'[n] = "resolved" => status[n] = "resolved"
  <2>1. /\ pend \in 0 .. MaxIncidents /\ filed \in 0 .. MaxIncidents
        /\ incident \in 0 .. MaxIncidents /\ 0 \in 0 .. MaxIncidents
        /\ site \in Contents /\ status \in [Incidents -> Statuses]
    BY TypeFacts, FrameFacts, ConstantFacts DEF IInv
  <2>2. "cancelled" \in Statuses
    BY DEF Statuses
  <2>3. CASE UNCHANGED <<site, status, store>>
    BY <2>1, <2>3 DEF store
  <2>4. CASE site' \in Contents /\ UNCHANGED <<status, store>>
    BY <2>1, <2>4 DEF store
  <2>5. CASE /\ site' \in Contents /\ status' = [status EXCEPT ![incident] = "cancelled"]
             /\ pend' = 0 /\ filed' = incident
    BY <2>1, <2>2, <2>5
  <2> QED
    BY <1>3, <2>3, <2>4, <2>5
<1>8. approval' \in [inc : 0 .. MaxIncidents, change : Change,
                     decision : {"none", "approved", "rejected"}]
  BY <1>2, NoPipeFields, ConstantFacts DEF NoApproval
<1>9. TypeOK'
  BY <1>2, <1>5, <1>6, <1>7, <1>8 DEF IInv, TypeOK
<1>10. OneMonitor' /\ OnePipeline' /\ Resetting' /\ Verification'
  BY <1>2, <1>4, <1>5, <1>6 DEF IInv, OneMonitor, OnePipeline, Resetting, Verification, Verifying
<1>11. Approving'
  BY <1>2 DEF Approving, NoApproval
<1>12. Honest
  BY <1>2, <1>7, OthersHonest
<1> QED
  BY <1>9, <1>10, <1>11, <1>12 DEF IInv

LEMMA OthersFailStep ==
    ASSUME IInv, DecideFails \/ \E c \in Contents : InjectFails(c)
    PROVE  IInv' /\ Honest
<1>1. /\ Breaks
      /\ UNCHANGED <<incident, status, injected, suppressed, approval, report, seen, pipe,
                     pipeTask, mon, monTask, req, pend, filed, granted>>
      /\ site' \in Contents
  BY FrameFacts DEF DecideFails, InjectFails, tasks, store, IInv
<1>2. /\ avail' = FALSE /\ budget'.monitors = budget.monitors
      /\ budget' \in [monitors : 0 .. MaxMonitors, faults : 0 .. MaxFaults,
                      reports : 0 .. MaxReports]
  BY <1>1, BreaksFacts DEF IInv
<1>3. TypeOK'
  BY <1>1, <1>2 DEF IInv, TypeOK
<1>4. OneMonitor' /\ OnePipeline' /\ Resetting'
  BY <1>1, <1>2 DEF IInv, OneMonitor, OnePipeline, Resetting
<1>5. Approving' /\ Verification'
  BY <1>1, <1>2 DEF IInv, Approving, Verification, Verifying
<1>6. Honest
  BY <1>1, OthersHonest
<1> QED
  BY <1>3, <1>4, <1>5, <1>6 DEF IInv

-----------------------------------------------------------------------------
(* The monitor.                                                              *)

MonitorTask == [at : {"off", "wait", "check"}, cancel : BOOLEAN, version : Contents]

(* The monitor goes to its next place. *)
MonitorGoes(m, place, v) == mon' = [mon EXCEPT ![m].at = place, ![m].version = v]

LEMMA MonitorGoesFacts ==
    ASSUME IInv, NEW m \in Monitors, NEW place \in {"wait", "check"}, NEW v \in Contents,
           MonitorGoes(m, place, v), ~mon[m].cancel, mon[m].at # "off", monTask' = monTask
    PROVE  mon' \in [Monitors -> MonitorTask] /\ OneMonitor'
<1>1. mon \in [Monitors -> MonitorTask]
  BY DEF IInv, TypeOK, MonitorTask
<1>2. PICK y : y = [mon[m] EXCEPT !.at = place]
  OBVIOUS
<1>3. PICK x : x = [y EXCEPT !.version = v]
  OBVIOUS
<1>4. y \in MonitorTask /\ y.at = place /\ y.cancel = mon[m].cancel
  BY <1>1, <1>2 DEF MonitorTask
<1>5. x \in MonitorTask /\ x.at = place /\ x.cancel = mon[m].cancel
  BY <1>3, <1>4 DEF MonitorTask
<1>6. mon' = [mon EXCEPT ![m] = x]
  BY <1>1, <1>2, <1>3 DEF MonitorGoes
<1>7. /\ mon' \in [Monitors -> MonitorTask] /\ mon'[m] = x
      /\ \A k \in Monitors \ {m} : mon'[k] = mon[k]
  BY <1>1, <1>5, <1>6
<1>8. m = monTask
  BY DEF IInv, OneMonitor
<1> QED
  BY <1>5, <1>7, <1>8 DEF IInv, OneMonitor

LEMMA MonitorChecksStep ==
    ASSUME IInv, NEW m \in Monitors, MonitorChecks(m)
    PROVE  IInv' /\ Honest
<1>1. /\ mon[m].at = "wait" /\ ~mon[m].cancel /\ avail
      /\ MonitorGoes(m, "check", site)
      /\ UNCHANGED <<site, incident, status, injected, suppressed, approval,
                     report, seen, pipe, pipeTask, monTask, req, avail, pend, filed,
                     granted, budget>>
  BY DEF MonitorChecks, MonitorGoes, store
<1>2. site \in Contents
  BY FrameFacts DEF IInv
<1>3. mon' \in [Monitors -> MonitorTask] /\ OneMonitor'
  BY <1>1, <1>2, MonitorGoesFacts
<1>4. TypeOK'
  BY <1>1, <1>3 DEF IInv, TypeOK, MonitorTask
<1>5. Resetting'
  <2>1. \A q \in Requests : req[q].at # "mon"
    BY <1>1 DEF IInv, Resetting
  <2>2. UNCHANGED Active
    BY <1>1 DEF Active
  <2> QED
    BY <1>1, <2>1, <2>2 DEF IInv, Resetting
<1>6. OnePipeline' /\ Approving' /\ Verification'
  BY <1>1 DEF IInv, OnePipeline, Approving, Verification, Verifying
<1>7. Honest
  BY <1>1, OthersHonest
<1> QED
  BY <1>3, <1>4, <1>5, <1>6, <1>7 DEF IInv

LEMMA MonitorCancelledStep ==
    ASSUME IInv, NEW m \in Monitors, MonitorCancelled(m)
    PROVE  IInv' /\ Honest
<1>1. /\ mon' = [mon EXCEPT ![m] = [at |-> "off", cancel |-> FALSE, version |-> Release]]
      /\ UNCHANGED <<site, incident, status, injected, suppressed, approval,
                     report, seen, pipe, pipeTask, monTask, req, avail, pend, filed,
                     granted, budget>>
  BY DEF MonitorCancelled, store
<1>2. mon' \in [Monitors -> MonitorTask]
  BY <1>1, ConstantFacts DEF IInv, TypeOK, MonitorTask
<1>3. TypeOK'
  BY <1>1, <1>2 DEF IInv, TypeOK, MonitorTask
<1>4. OneMonitor'
  BY <1>1 DEF IInv, OneMonitor, TypeOK
<1>5. \A k \in Monitors : mon'[k].at # "off" => mon'[k] = mon[k]
  BY <1>1 DEF IInv, TypeOK
<1>6. Resetting'
  <2>1. UNCHANGED Active
    BY <1>1 DEF Active
  <2> QED
    BY <1>1, <1>5, <2>1 DEF IInv, Resetting
<1>7. OnePipeline' /\ Approving' /\ Verification'
  BY <1>1 DEF IInv, OnePipeline, Approving, Verification, Verifying
<1>8. Honest
  BY <1>1, OthersHonest
<1> QED
  BY <1>3, <1>4, <1>6, <1>7, <1>8 DEF IInv

LEMMA CounterFacts ==
    Counter \in Nat /\ (Counter < MaxIncidents => Counter + 1 \in Incidents)
<1>1. IsFiniteSet(Incidents)
  BY FS_Interval, ConstantFacts DEF Incidents
<1>2. IsFiniteSet({n \in Incidents : status[n] # "none"})
  BY <1>1, FS_Subset
<1>3. Counter \in Nat
  BY <1>2, FS_CardinalityType DEF Counter
<1> QED
  BY <1>3, ConstantFacts DEF Incidents

(* An incident opens only when no pipeline is alive and no reset goes on. *)
LEMMA OpensStep ==
    ASSUME IInv, NEW n \in Incidents, Opens(n), ~Active,
           \A q \in Requests : req[q].at # "mon",
           mon' \in [Monitors -> MonitorTask], OneMonitor',
           UNCHANGED <<site, suppressed, approval, report, monTask, req, granted, budget>>
    PROVE  IInv' /\ Honest
<1>1. /\ status' = [status EXCEPT ![n] = "open"] /\ incident' = n /\ injected' = FALSE
      /\ seen' = [seen EXCEPT ![n] = {}] /\ UNCHANGED filed
      /\ avail' \in BOOLEAN /\ (avail' => avail)
      /\ pend' \in {n, pend}
      /\ \/ avail' /\ pipe' = [pipe EXCEPT ![n].at = "triage"] /\ pipeTask' = n
         \/ UNCHANGED <<pipe, pipeTask>>
  BY DEF Opens
<1>2. \A k \in Incidents : pipe[k].at = "off" /\ ~pipe[k].cancel
  BY Dormant DEF IInv, OnePipeline
<1>3. /\ n \in 0 .. MaxIncidents /\ "open" \in Statuses /\ "triage" \in Places
      /\ status \in [Incidents -> Statuses] /\ seen \in [Incidents -> SUBSET Contents]
      /\ pipe \in [Incidents -> Pipe] /\ pipeTask \in 0 .. MaxIncidents
      /\ pend \in 0 .. MaxIncidents
  BY ConstantFacts, TypeFacts, FrameFacts DEF Incidents, Statuses, Places, IInv
<1>4. /\ pipe' \in [Incidents -> Pipe] /\ pipeTask' \in 0 .. MaxIncidents
      /\ \A k \in Incidents : ~pipe'[k].cancel /\ pipe'[k].at \in {"off", "triage"}
      /\ \A k \in Incidents : pipe'[k].at # "off" => k = n /\ pipeTask' = n /\ avail'
  <2>1. CASE avail' /\ pipe' = [pipe EXCEPT ![n].at = "triage"] /\ pipeTask' = n
    <3>1. Goes(n, "triage")
      BY <2>1 DEF Goes
    <3>2. /\ pipe' \in [Incidents -> Pipe] /\ pipe'[n].at = "triage"
          /\ pipe'[n].cancel = pipe[n].cancel
          /\ \A k \in Incidents \ {n} : pipe'[k] = pipe[k]
      BY <1>3, <3>1, GoesFacts
    <3> QED
      BY <1>2, <1>3, <2>1, <3>2
  <2>2. CASE UNCHANGED <<pipe, pipeTask>>
    BY <1>2, <1>3, <2>2
  <2> QED
    BY <1>1, <2>1, <2>2
<1>5. /\ status' \in [Incidents -> Statuses] /\ status'[n] = "open"
      /\ \A k \in Incidents \ {n} : status'[k] = status[k]
      /\ seen' \in [Incidents -> SUBSET Contents]
  BY <1>1, <1>3
<1>6. TypeOK'
  BY <1>1, <1>3, <1>4, <1>5 DEF IInv, TypeOK, MonitorTask
<1>7. OnePipeline'
  BY <1>1, <1>4, <1>5 DEF OnePipeline
<1>8. Resetting'
  <2>1. ASSUME NEW q \in Requests, req[q].at = "pipe"
        PROVE  ~avail
    BY <2>1 DEF IInv, Resetting
  <2>2. ASSUME NEW q \in Requests, req[q].at = "pipe"
        PROVE  /\ req'[q].pipe \in Incidents /\ ~avail'
               /\ \A k \in Incidents : pipe'[k].at = "off"
    BY <1>1, <1>4, <2>1, <2>2 DEF IInv, Resetting
  <2> QED
    BY <2>2 DEF IInv, Resetting
<1>9. Approving'
  BY <1>4 DEF IInv, Approving
<1>10. Verification'
  BY <1>4 DEF IInv, Verification, Verifying
<1>11. Honest
  BY <1>2, <1>5 DEF Honest, Approved, Resolved, Reverts, Verifying
<1> QED
  BY <1>6, <1>7, <1>8, <1>9, <1>10, <1>11 DEF IInv

LEMMA MonitorEndsStep ==
    ASSUME IInv, NEW m \in Monitors, MonitorEnds(m)
    PROVE  IInv' /\ Honest
<1>1. /\ mon[m].at = "check" /\ ~mon[m].cancel
      /\ MonitorGoes(m, "wait", Release)
      /\ UNCHANGED <<site, suppressed, approval, report, monTask, req, granted, budget>>
  BY DEF MonitorEnds, MonitorGoes
<1>2. mon' \in [Monitors -> MonitorTask] /\ OneMonitor'
  BY <1>1, ConstantFacts, MonitorGoesFacts
<1>3. \A q \in Requests : req[q].at # "mon"
  BY <1>1 DEF IInv, Resetting
<1>4. CASE UNCHANGED <<status, incident, injected, seen, store, avail, pipe, pipeTask>>
  <2>1. UNCHANGED <<status, incident, injected, seen, pend, filed, avail, pipe, pipeTask>>
    BY <1>4 DEF store
  <2>2. TypeOK'
    BY <1>1, <1>2, <2>1 DEF IInv, TypeOK, MonitorTask
  <2>3. Resetting'
    <3>1. UNCHANGED Active
      BY <2>1 DEF Active
    <3> QED
      BY <1>1, <1>3, <2>1, <3>1 DEF IInv, Resetting
  <2>4. OnePipeline' /\ Approving' /\ Verification'
    BY <1>1, <2>1 DEF IInv, OnePipeline, Approving, Verification, Verifying
  <2>5. Honest
    BY <2>1, OthersHonest
  <2> QED
    BY <1>2, <2>2, <2>3, <2>4, <2>5 DEF IInv
<1>5. CASE ~Active /\ Counter < MaxIncidents /\ Opens(Counter + 1)
  <2>1. PICK n : n = Counter + 1
    OBVIOUS
  <2>2. n \in Incidents /\ Opens(n)
    BY <1>5, <2>1, CounterFacts
  <2> QED
    BY <1>1, <1>2, <1>3, <1>5, <2>2, OpensStep
<1> QED
  BY <1>4, <1>5 DEF MonitorEnds

-----------------------------------------------------------------------------
(* The invariant, and what it gives.                                         *)

LEMMA InitInv == Init => IInv
<1> SUFFICES ASSUME Init PROVE IInv
  OBVIOUS
<1>0. /\ Release \in Contents /\ MaxMonitors \in Nat /\ MaxMonitors > 0
      /\ MaxIncidents \in Nat /\ MaxFaults \in Nat /\ MaxReports \in Nat
      /\ 0 \in 0 .. MaxIncidents /\ 1 \in Monitors /\ 1 \in 0 .. MaxMonitors
  BY ConstantFacts DEF Monitors
<1>1. /\ site \in Contents /\ suppressed \in Contents \cup {None}
      /\ incident \in 0 .. MaxIncidents /\ injected \in BOOLEAN /\ avail \in BOOLEAN
      /\ status \in [Incidents -> Statuses]
      /\ seen \in [Incidents -> SUBSET Contents]
      /\ report \in [Contents -> {"none", "good", "bad", "partial"}]
      /\ pipeTask \in 0 .. MaxIncidents /\ monTask \in 0 .. MaxMonitors
      /\ pend \in 0 .. MaxIncidents /\ filed \in 0 .. MaxIncidents
      /\ granted \in [Incidents -> SUBSET Change]
  BY <1>0 DEF Init, Statuses
<1>2. /\ approval = NoApproval
      /\ approval \in [inc : 0 .. MaxIncidents, change : Change,
                       decision : {"none", "approved", "rejected"}]
  BY <1>0, NoPipeFields DEF Init, NoApproval
<1>3. /\ pipe \in [Incidents -> Pipe]
      /\ \A n \in Incidents : pipe[n].at = "off" /\ ~pipe[n].cancel
  BY NoPipeFields DEF Init
<1>4. /\ mon \in [Monitors -> [at : {"off", "wait", "check"}, cancel : BOOLEAN,
                               version : Contents]]
      /\ \A m \in Monitors : (mon[m].at # "off" => m = monTask) /\ ~mon[m].cancel
  BY <1>0 DEF Init
<1>5. /\ req \in [Requests -> [at : {"off", "pipe", "mon"}, pipe : 0 .. MaxIncidents,
                               mon : 0 .. MaxMonitors]]
      /\ \A q \in Requests : req[q].at = "off"
  BY NoRequestFacts DEF Init
<1>6. budget \in [monitors : 0 .. MaxMonitors, faults : 0 .. MaxFaults,
                  reports : 0 .. MaxReports]
  <2>1. MaxMonitors - 1 \in 0 .. MaxMonitors
    BY <1>0
  <2> QED
    BY <1>0, <2>1 DEF Init
<1>7. TypeOK
  BY <1>1, <1>2, <1>3, <1>4, <1>5, <1>6 DEF TypeOK
<1>8. OneMonitor /\ OnePipeline /\ Resetting
  BY <1>3, <1>4, <1>5 DEF OneMonitor, OnePipeline, Resetting
<1>9. Approving
  BY <1>2, <1>3 DEF Approving, NoApproval
<1>10. Verification
  <2>1. \A c \in Blind : report[c] # "good"
    BY LabAssumption DEF Init, LabAssumption
  <2> QED
    BY <1>3, <2>1 DEF Verification, Verifying
<1> QED
  BY <1>7, <1>8, <1>9, <1>10 DEF IInv

LEMMA NextInv ==
    ASSUME IInv, OneReset, Next
    PROVE  IInv' /\ Honest
<1>1. ASSUME NEW c \in Contents, Inject(c) \/ Report(c) \/ Expire(c)
      PROVE  IInv' /\ Honest
  BY <1>1, InjectStep, ReportStep
<1>2. ASSUME NEW d \in {"approved", "rejected"}, Decide(d)
      PROVE  IInv' /\ Honest
  BY <1>2, DecideStep
<1>3. ASSUME NEW q \in Requests, ResetBegins(q)
      PROVE  IInv' /\ Honest
  BY <1>3, ResetBeginsStep
<1>4. CASE Resets
  BY <1>4, ResetsStopMonitorStep, ResetsEndStep DEF Resets
<1>5. CASE DecideFails \/ \E c \in Contents : InjectFails(c)
  BY <1>5, OthersFailStep
<1>6. ASSUME NEW m \in Monitors, Monitor(m) \/ ResetsFail(m)
      PROVE  IInv' /\ Honest
  BY <1>6, MonitorChecksStep, MonitorEndsStep, MonitorCancelledStep, ResetsFailStep DEF Monitor
<1>7. ASSUME NEW n \in Incidents, Pipeline(n) \/ EvidenceFails(n)
      PROVE  IInv' /\ Honest
  BY <1>7, PipelineInv, PipelineHonest
<1> QED
  BY <1>1, <1>2, <1>3, <1>4, <1>5, <1>6, <1>7 DEF Next

LEMMA StutterInv ==
    ASSUME IInv, UNCHANGED vars
    PROVE  IInv' /\ Honest
<1>1. UNCHANGED <<site, incident, status, injected, suppressed, approval, report, seen, pipe,
                  pipeTask, mon, monTask, req, avail, pend, filed, granted, budget>>
  BY DEF vars, tasks, store
<1>2. TypeOK'
  BY <1>1 DEF IInv, TypeOK
<1>3. OneMonitor' /\ OnePipeline'
  BY <1>1 DEF IInv, OneMonitor, OnePipeline
<1>4. Resetting'
  <2>1. UNCHANGED Active
    BY <1>1 DEF Active
  <2> QED
    BY <1>1, <2>1 DEF IInv, Resetting
<1>5. Approving' /\ Verification'
  BY <1>1 DEF IInv, Approving, Verification, Verifying
<1>6. Honest
  BY <1>1, OthersHonest
<1> QED
  BY <1>2, <1>3, <1>4, <1>5, <1>6 DEF IInv

(* The inductive invariant: with one reset at a time, whatever the operator,   *)
(* the browser, the models and the disk do (LabEngine.reset, _run_pipeline).   *)
THEOREM LabInvariant == ASSUME OneReset PROVE Spec => []IInv
<1>1. IInv /\ [Next]_vars => IInv'
  BY NextInv, StutterInv
<1> QED
  BY InitInv, <1>1, PTL DEF Spec

(* Every variable of the lab keeps its type. *)
THEOREM LabTypeCorrect == ASSUME OneReset PROVE Spec => []TypeOK
<1>1. IInv => TypeOK
  BY DEF IInv
<1> QED
  BY LabInvariant, <1>1, PTL

(* One monitor at most is alive, and a pipeline only while its incident is the *)
(* open one (stop, reset, start).                                              *)
THEOREM LabNothingLeaks == ASSUME OneReset PROVE Spec => []NothingLeaks
<1>1. IInv => NothingLeaks
  <2> SUFFICES ASSUME IInv PROVE NothingLeaks
    OBVIOUS
  <2>1. PICK A : A = {m \in Monitors : mon[m].at # "off"}
    OBVIOUS
  <2>2. A \subseteq {monTask}
    BY <2>1 DEF IInv, OneMonitor
  <2>3. Cardinality(A) <= 1
    <3>1. IsFiniteSet({monTask}) /\ Cardinality({monTask}) = 1
      BY FS_Singleton
    <3>2. Cardinality(A) <= Cardinality({monTask})
      BY <2>2, <3>1, FS_Subset
    <3> QED
      BY <3>1, <3>2
  <2>4. \A n \in Incidents : pipe[n].at # "off" => status[n] = "open" /\ n = incident
    BY DEF IInv, OnePipeline
  <2> QED
    BY <2>1, <2>3, <2>4 DEF NothingLeaks
<1> QED
  BY LabInvariant, <1>1, PTL

LEMMA StepHonest ==
    ASSUME OneReset, IInv, [Next]_vars
    PROVE  Honest
BY NextInv, StutterInv

(* What is written behind the gate is the change an operator approved.         *)
THEOREM LabExactApproval == ASSUME OneReset PROVE Spec => ExactApproval
<1>1. IInv /\ [Next]_vars =>
          [\A n \in Incidents :
               pipe[n].at = "gate" /\ pipe'[n].at = "verify" => pipe[n].change \in granted[n]]_vars
  BY StepHonest DEF Honest, Approved
<1> QED
  BY LabInvariant, <1>1, PTL DEF Spec, ExactApproval

(* What resolves an incident is sound, and a browser has seen it.              *)
THEOREM LabResolvedIsSound == ASSUME OneReset PROVE Spec => ResolvedIsSound
<1>1. IInv /\ [Next]_vars =>
          [\A n \in Incidents :
               status[n] = "open" /\ status'[n] = "resolved" =>
                   site \in Sound /\ site \in seen[n]]_vars
  BY StepHonest DEF Honest, Resolved
<1> QED
  BY LabInvariant, <1>1, PTL DEF Spec, ResolvedIsSound

(* What is not verified is taken back, by whatever ends the verification.      *)
THEOREM LabTakenBack == ASSUME OneReset PROVE Spec => TakenBack
<1>1. IInv /\ [Next]_vars =>
          [\A n \in Incidents :
               Verifying(n) /\ ~Verifying(n)' /\ avail' =>
                   status'[n] \in {"resolved", "unverified"} \/ site' = pipe[n].change.from]_vars
  BY StepHonest DEF Honest, Reverts, Verifying
<1> QED
  BY LabInvariant, <1>1, PTL DEF Spec, TakenBack
=============================================================================
