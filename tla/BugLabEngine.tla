---------------------------- MODULE BugLabEngine -----------------------------
(* The Bug Lab: one asyncio loop runs the monitor, the pipeline of the open    *)
(* incident and the requests of the control room. A step of the model is what  *)
(* a task does from one await to the next, so a task is found at an await. The *)
(* store's files are one content, its version; the workspace is reduced to     *)
(* which incident its pending file holds and how many its journal holds.       *)
EXTENDS Naturals, FiniteSets

CONSTANTS
    Contents,     \* versions of the store's files
    Release,      \* the release it is copied from
    Sound,        \* versions no check fails on, unless it is too slow
    Blind,        \* broken versions that only a browser can tell
    None,         \* no version
    Requests,     \* resets that may be in progress at the same time
    Plans,        \* plans of one incident: 1 with rules, 3 with a model
    MaxIncidents, MaxMonitors, MaxFaults,
    MaxReports    \* browser reports

ASSUME LabAssumption ==
    /\ Release \in Sound /\ Sound \subseteq Contents
    /\ Blind \subseteq Contents \ Sound /\ None \notin Contents
    /\ {Plans, MaxIncidents, MaxMonitors, MaxFaults, MaxReports} \subseteq Nat
    /\ MaxMonitors > 0

Incidents == 1 .. MaxIncidents
Monitors == 1 .. MaxMonitors

VARIABLES
    site,       \* the version the store serves
    incident,   \* self.incident, 0 if None
    status,     \* per incident, "none" before it opens
    injected,   \* an injected bug no incident has taken over
    suppressed, \* suppressed_version
    approval,   \* _approval: whose, for what change, and the decision
    report,     \* the browser's last word on each version, if not too old
    seen,       \* versions reported since the incident opened or applied
    pipe,       \* the task of each incident's pipeline
    pipeTask,   \* _pipeline
    mon,        \* the monitor tasks
    monTask,    \* _monitor_task
    req,        \* resets and the shutdown
    avail,      \* available
    pend,       \* the incident in the pending file, 0 if none
    filed,      \* incidents in the journal
    granted,    \* changes an operator approved, per incident (observes)
    budget

tasks == <<pipe, pipeTask, mon, monTask, req>>
store == <<pend, filed>>
vars == <<site, incident, status, injected, suppressed, approval, report,
          seen, tasks, avail, store, granted, budget>>

Change == [from : Contents, to : Contents]
NoChange == [from |-> Release, to |-> Release]

NoApproval == [inc |-> 0, change |-> NoChange, decision |-> "none"]

Statuses == {"none", "open", "resolved", "unverified", "escalated", "cancelled"}

Places == {"off", "triage", "current", "plan", "planned", "gate", "auto",
           "verify", "browser"}

Pipe ==
    [at : Places, cancel : BOOLEAN, plans : 0 .. Plans, change : Change,
     mode : {"patch", "rollback", "nochange"}, ok : BOOLEAN]

NoPipe == [at |-> "off", cancel |-> FALSE, plans |-> Plans, change |-> NoChange,
           mode |-> "patch", ok |-> FALSE]

NoRequest == [at |-> "off", pipe |-> 0, mon |-> 0]

TypeOK ==
    /\ site \in Contents /\ suppressed \in Contents \cup {None}
    /\ incident \in 0 .. MaxIncidents
    /\ status \in [Incidents -> Statuses]
    /\ injected \in BOOLEAN /\ avail \in BOOLEAN
    /\ approval \in [inc : 0 .. MaxIncidents, change : Change,
                     decision : {"none", "approved", "rejected"}]
    /\ report \in [Contents -> {"none", "good", "bad", "partial"}]
    /\ seen \in [Incidents -> SUBSET Contents]
    /\ pipe \in [Incidents -> Pipe] /\ pipeTask \in 0 .. MaxIncidents
    /\ mon \in [Monitors -> [at : {"off", "wait", "check"}, cancel : BOOLEAN,
                             version : Contents]]
    /\ monTask \in 0 .. MaxMonitors
    /\ req \in [Requests -> [at : {"off", "pipe", "mon"}, pipe : 0 .. MaxIncidents,
                             mon : 0 .. MaxMonitors]]
    /\ pend \in 0 .. MaxIncidents /\ filed \in 0 .. MaxIncidents
    /\ granted \in [Incidents -> SUBSET Change]
    /\ budget \in [monitors : 0 .. MaxMonitors, faults : 0 .. MaxFaults,
                   reports : 0 .. MaxReports]

Init ==
    /\ site = Release /\ incident = 0 /\ injected = FALSE /\ suppressed = None
    /\ status = [n \in Incidents |-> "none"]
    /\ approval = NoApproval
    /\ report = [c \in Contents |-> "none"] /\ seen = [n \in Incidents |-> {}]
    /\ pipe = [n \in Incidents |-> NoPipe] /\ pipeTask = 0
    /\ mon = [m \in Monitors |->
                 [at |-> IF m = 1 THEN "wait" ELSE "off", cancel |-> FALSE,
                  version |-> Release]]
    /\ monTask = 1
    /\ req = [q \in Requests |-> NoRequest]
    /\ avail = TRUE /\ pend = 0 /\ filed = 0
    /\ granted = [n \in Incidents |-> {}]
    /\ budget = [monitors |-> MaxMonitors - 1, faults |-> MaxFaults,
                 reports |-> MaxReports]

-----------------------------------------------------------------------------
(* What the parts share. *)

Counter == Cardinality({n \in Incidents : status[n] # "none"})

Active == incident # 0 /\ status[incident] = "open"

MonitorRuns == monTask # 0 /\ mon[monTask].at # "off"

Ready == avail /\ MonitorRuns

ServerOutcomes(c) == IF c \in Sound \cup Blind THEN BOOLEAN ELSE {FALSE}

(* Every event and stage checkpoints the incident, if it is the current one.   *)
(* The workspace refuses, and condemns itself, unless the pending file is free *)
(* or holds this incident.                                                     *)
Checkpoints(n) ==
    IF n # incident THEN UNCHANGED <<store, avail>>
    ELSE IF pend \in {0, n} /\ (pend = 0 => n = filed + 1)
         THEN pend' = n /\ UNCHANGED <<filed, avail>>
         ELSE avail' = FALSE /\ UNCHANGED store

(* _close: the evidence is completed first, and only then the incident is.     *)
Closes(n, s) ==
    IF status[n] # "open" THEN UNCHANGED <<status, store, avail>>
    ELSE IF pend \in {0, n} /\ n = filed + 1
         THEN /\ status' = [status EXCEPT ![n] = s]
              /\ pend' = 0 /\ filed' = n /\ UNCHANGED avail
         ELSE avail' = FALSE /\ UNCHANGED <<status, store>>

Ends(n) == pipe' = [pipe EXCEPT ![n] = NoPipe]

Goes(n, place) == pipe' = [pipe EXCEPT ![n].at = place]

-----------------------------------------------------------------------------
(* The control room. *)

Inject(c) ==
    /\ Ready /\ ~Active /\ ~injected /\ c \notin Sound /\ c # site
    /\ site' = c /\ incident' = 0 /\ injected' = TRUE /\ suppressed' = None
    /\ UNCHANGED <<status, approval, report, seen, tasks, avail, store,
                   granted, budget>>

(* A decision is on the change that waits, and wakes the pipeline that waits.  *)
Decide(decision) ==
    LET n == approval.inc
    IN  /\ Ready /\ n # 0 /\ approval.decision = "none" /\ incident # 0
        /\ Checkpoints(incident)
        /\ IF ~avail' THEN UNCHANGED <<approval, granted>>
           ELSE /\ approval' = [approval EXCEPT !.decision = decision]
                /\ granted' = IF decision = "approved"
                              THEN [granted EXCEPT ![n] = {approval.change}] ELSE granted
        /\ UNCHANGED <<site, incident, status, injected, suppressed, report,
                       seen, pipe, pipeTask, mon, monTask, req, budget>>

(* What a browser's checks come to; one that was skipped neither passes nor    *)
(* fails.                                                                      *)
Words(c) == IF c \in Blind THEN {"bad", "partial"} ELSE {"good", "bad", "partial"}

(* The page of the store reports on the version it was loaded with.            *)
Report(c) ==
    /\ Ready /\ budget.reports > 0
    /\ budget' = [budget EXCEPT !.reports = @ - 1]
    /\ \E word \in Words(c) : report' = [report EXCEPT ![c] = word]
    /\ seen' = [n \in Incidents |-> IF pipe[n].at = "off" THEN seen[n] ELSE seen[n] \cup {c}]
    /\ UNCHANGED <<site, incident, status, injected, suppressed, approval,
                   tasks, avail, store, granted>>

(* A report older than browser_max_age counts for nothing. *)
Expire(c) ==
    /\ report[c] # "none"
    /\ report' = [report EXCEPT ![c] = "none"]
    /\ UNCHANGED <<site, incident, status, injected, suppressed, approval,
                   seen, tasks, avail, store, granted, budget>>

(* reset: stop names its two tasks when it begins, and cancels and awaits one  *)
(* after the other; it does not wait for a task that has ended.                *)
CancelsMonitors(M) ==
    mon' = [m \in Monitors |-> IF m \in M /\ mon[m].at # "off"
                               THEN [mon[m] EXCEPT !.cancel = TRUE] ELSE mon[m]]

X_ResetBegins(q) ==
    /\ Ready /\ req[q].at = "off" /\ budget.monitors > 0
    /\ req' = [req EXCEPT ![q] = [at |-> "mon", pipe |-> pipeTask, mon |-> monTask]]
    /\ CancelsMonitors({monTask})
    /\ UNCHANGED <<site, incident, status, injected, suppressed, approval, report, seen,
                   pipe, pipeTask, monTask, avail, store, granted, budget>>

ResetBegins(q) ==
    LET idle == pipeTask = 0 \/ pipe[pipeTask].at = "off"
    IN  /\ Ready /\ req[q].at = "off"
        /\ Cardinality({s \in Requests : req[s].at # "off"}) < budget.monitors
        /\ req' = [req EXCEPT ![q] = [at |-> IF idle THEN "mon" ELSE "pipe",
                                      pipe |-> pipeTask, mon |-> monTask]]
        /\ IF idle THEN CancelsMonitors({monTask}) /\ UNCHANGED pipe
           ELSE pipe' = [pipe EXCEPT ![pipeTask].cancel = TRUE] /\ UNCHANGED mon
        /\ UNCHANGED <<site, incident, status, injected, suppressed, approval, report,
                       seen, pipeTask, monTask, avail, store, granted, budget>>

(* The end of a task wakes the resets that await it one right after the other: *)
(* nothing else runs between them.                                             *)
Awaiting(stage, f, t) == {q \in Requests : req[q].at = stage /\ req[q][f] = t}

ResetsStopMonitor(p) ==
    LET Q == Awaiting("pipe", "pipe", p)
    IN  /\ Q # {} /\ pipe[p].at = "off"
        /\ req' = [q \in Requests |-> IF q \in Q THEN [req[q] EXCEPT !.at = "mon"] ELSE req[q]]
        /\ CancelsMonitors({req[q].mon : q \in Q})
        /\ UNCHANGED <<site, incident, status, injected, suppressed, approval, report,
                       seen, pipe, pipeTask, monTask, avail, store, granted, budget>>

(* Then the incident they find open is closed, the files are restored, and     *)
(* each of them starts a monitor, for there was one when it began.             *)
ResetsEnd(m) ==
    LET Q == Awaiting("mon", "mon", m)
        last == MaxMonitors - budget.monitors + Cardinality(Q)
    IN  /\ Q # {} /\ mon[m].at = "off"
        /\ req' = [q \in Requests |-> IF q \in Q THEN NoRequest ELSE req[q]]
        /\ approval' = NoApproval
        /\ IF Active /\ avail THEN Closes(incident, "cancelled")
           ELSE UNCHANGED <<status, store, avail>>
        /\ IF ~avail' THEN UNCHANGED <<site, incident, injected, suppressed, mon, monTask, budget>>
           ELSE /\ site' = Release /\ incident' = 0 /\ injected' = FALSE
                /\ suppressed' = None
                /\ budget' = [budget EXCEPT !.monitors = @ - Cardinality(Q)]
                /\ mon' = [k \in Monitors |-> IF k \in last - Cardinality(Q) + 1 .. last
                                              THEN [mon[k] EXCEPT !.at = "wait"] ELSE mon[k]]
                /\ monTask' = last
        /\ UNCHANGED <<report, seen, pipe, pipeTask, granted>>

-----------------------------------------------------------------------------
(* The monitor. *)

MonitorChecks(m) ==
    /\ mon[m].at = "wait" /\ ~mon[m].cancel /\ avail
    /\ mon' = [mon EXCEPT ![m].at = "check", ![m].version = site]
    /\ UNCHANGED <<site, incident, status, injected, suppressed, approval,
                   report, seen, pipe, pipeTask, monTask, req, avail, store,
                   granted, budget>>

(* _open: the next incident takes over the injected bugs and, unless its first *)
(* checkpoint fails, gets a pipeline.                                          *)
Opens(n) ==
    LET kept == avail /\ pend \in {0, n} /\ n = filed + 1
    IN  /\ status' = [status EXCEPT ![n] = "open"]
        /\ incident' = n /\ injected' = FALSE /\ seen' = [seen EXCEPT ![n] = {}]
        /\ avail' = kept /\ UNCHANGED filed
        /\ pend' = IF kept THEN n ELSE pend
        /\ IF kept THEN pipe' = [pipe EXCEPT ![n].at = "triage"] /\ pipeTask' = n
           ELSE UNCHANGED <<pipe, pipeTask>>

MonitorEnds(m) ==
    LET c == mon[m].version
    IN  /\ mon[m].at = "check" /\ ~mon[m].cancel
        /\ mon' = [mon EXCEPT ![m].at = "wait", ![m].version = Release]
        /\ \/ /\ \/ site # c \/ Active \/ c = suppressed
                 \/ TRUE \in ServerOutcomes(c) /\ report[c] # "bad"
              /\ UNCHANGED <<status, incident, injected, seen, store, avail,
                             pipe, pipeTask>>
           \/ /\ site = c /\ ~Active /\ c # suppressed
              /\ FALSE \in ServerOutcomes(c) \/ report[c] = "bad"
              /\ Counter < MaxIncidents
              /\ Opens(Counter + 1)
        /\ UNCHANGED <<site, suppressed, approval, report, monTask, req, granted, budget>>

(* The CancelledError arrives where the task waits. *)
MonitorCancelled(m) ==
    /\ mon[m].at # "off" /\ mon[m].cancel
    /\ mon' = [mon EXCEPT ![m] = [at |-> "off", cancel |-> FALSE, version |-> Release]]
    /\ UNCHANGED <<site, incident, status, injected, suppressed, approval,
                   report, seen, pipe, pipeTask, monTask, req, avail, store,
                   granted, budget>>

-----------------------------------------------------------------------------
(* The pipeline of incident n. *)

Resumes(n, place) == pipe[n].at = place /\ ~pipe[n].cancel /\ avail

Frame == UNCHANGED <<injected, mon, pipeTask, monTask, req, budget>>

Triage(n) ==
    /\ Resumes(n, "triage") /\ Checkpoints(n) /\ Goes(n, "current")
    /\ Frame /\ UNCHANGED <<granted, site, incident, status, suppressed, approval, report, seen>>

(* The loop head: with no failing check there is nothing to change. *)
Current(n) ==
    /\ Resumes(n, "current") /\ Checkpoints(n)
    /\ \/ Goes(n, "plan")
       \/ /\ TRUE \in ServerOutcomes(site) /\ report[site] # "bad"
          /\ pipe' = [pipe EXCEPT ![n].at = "verify", ![n].mode = "nochange",
                                  ![n].change = [from |-> site, to |-> site]]
    /\ Frame /\ UNCHANGED <<granted, site, incident, status, suppressed, approval, report, seen>>

(* _gate: by the severity of the incident and the setting of the control room  *)
(* the change is put to the operator or runs automatically.                    *)
Gates(n, change, mode, left) ==
    \E ask \in BOOLEAN :
        /\ pipe' = [pipe EXCEPT ![n] = [NoPipe EXCEPT !.at = IF ask THEN "gate" ELSE "auto",
                                       !.change = change, !.mode = mode, !.plans = left]]
        /\ approval' = IF ask THEN [inc |-> n, change |-> change, decision |-> "none"]
                       ELSE approval
        /\ Checkpoints(n)
        /\ UNCHANGED status

(* No plan is left: the rollback policy restores the release, behind the same  *)
(* gate, unless nothing differs from it.                                       *)
RollsBack(n, content) ==
    IF content = Release
    THEN Closes(n, "escalated") /\ Ends(n) /\ UNCHANGED approval
    ELSE Gates(n, [from |-> content, to |-> Release], "rollback", 0)

X_NextPlan(n, content) ==
    IF pipe[n].plans > 1
    THEN /\ pipe' = [pipe EXCEPT ![n] = [NoPipe EXCEPT !.at = "current", !.plans = pipe[n].plans]]
         /\ Checkpoints(n) /\ UNCHANGED <<status, approval>>
    ELSE RollsBack(n, content)

NextPlan(n, content) ==
    IF pipe[n].plans > 1
    THEN /\ pipe' = [pipe EXCEPT ![n] = [NoPipe EXCEPT !.at = "current", !.plans = pipe[n].plans - 1]]
         /\ Checkpoints(n) /\ UNCHANGED <<status, approval>>
    ELSE RollsBack(n, content)

(* _plan reads the files after its last call of a model and paces itself once  *)
(* more; or no safe patch is produced.                                         *)
Plan(n) ==
    /\ Resumes(n, "plan")
    /\ \/ \E c \in Contents \ {site} :
             /\ pipe' = [pipe EXCEPT ![n].at = "planned", ![n].mode = "patch",
                                     ![n].change = [from |-> site, to |-> c]]
             /\ Checkpoints(n) /\ UNCHANGED <<status, approval>>
       \/ NextPlan(n, site)
    /\ Frame /\ UNCHANGED <<granted, site, incident, suppressed, report, seen>>

Gate(n) ==
    /\ Resumes(n, "planned")
    /\ Gates(n, pipe[n].change, "patch", pipe[n].plans)
    /\ Frame /\ UNCHANGED <<granted, site, incident, suppressed, report, seen>>

(* _apply refuses a file that changed since the patch was checked. *)
Applies(n) ==
    IF site # pipe[n].change.from
    THEN Closes(n, "escalated") /\ Ends(n) /\ UNCHANGED <<site, seen>>
    ELSE /\ Checkpoints(n) /\ UNCHANGED status
         /\ site' = IF avail' THEN pipe[n].change.to ELSE site
         /\ seen' = [seen EXCEPT ![n] = {}]
         /\ Goes(n, "verify")

ApplyAutomatic(n) ==
    /\ Resumes(n, "auto") /\ Applies(n)
    /\ Frame /\ UNCHANGED <<granted, incident, suppressed, approval, report>>

X_GateEnds(n) ==
    /\ Resumes(n, "gate")
    /\ approval' = NoApproval /\ granted' = [granted EXCEPT ![n] = {}]
    /\ IF approval.decision # "rejected" THEN Applies(n) /\ UNCHANGED suppressed
       ELSE /\ Closes(n, "escalated") /\ Ends(n)
            /\ suppressed' = site /\ UNCHANGED <<site, seen>>
    /\ Frame /\ UNCHANGED <<incident, report>>

(* The wait ends with the event or by the timeout, and the decision is read    *)
(* from self._approval, whichever that is by now.                              *)
GateEnds(n) ==
    /\ Resumes(n, "gate")
    /\ approval' = NoApproval /\ granted' = [granted EXCEPT ![n] = {}]
    /\ IF approval.decision = "approved" THEN Applies(n) /\ UNCHANGED suppressed
       ELSE /\ Closes(n, "escalated") /\ Ends(n)
            /\ suppressed' = IF approval = NoApproval THEN suppressed ELSE site
            /\ UNCHANGED <<site, seen>>
    /\ Frame /\ UNCHANGED <<incident, report>>

X_Heard(n) == report[pipe[n].change.to] # "none"

(* _verify: the server checks, and then a browser report on this version that  *)
(* arrived after the change, or the time is over.                              *)
Heard(n) == report[pipe[n].change.to] # "none" /\ pipe[n].change.to \in seen[n]

Fails(n) == ~pipe[n].ok \/ (Heard(n) /\ report[pipe[n].change.to] = "bad")

Verdict(n) ==
    CASE site # pipe[n].change.to -> "failed"
      [] site = pipe[n].change.to /\ Heard(n) ->
           (IF pipe[n].ok /\ report[site] = "good" THEN "verified" ELSE "failed")
      [] OTHER -> (IF pipe[n].ok THEN "no_browser" ELSE "failed")

Reverted(n) == IF site = pipe[n].change.to THEN pipe[n].change.from ELSE site

Verified(n) ==
    /\ Closes(n, "resolved") /\ Ends(n) /\ UNCHANGED <<site, suppressed, approval>>

NotVerified(n, v) ==
    CASE pipe[n].mode = "nochange" ->
           /\ IF v = "failed" /\ site = pipe[n].change.to /\ Fails(n)
              THEN Goes(n, "plan") /\ Checkpoints(n) /\ UNCHANGED status
              ELSE Closes(n, "unverified") /\ Ends(n)
           /\ UNCHANGED <<site, suppressed, approval>>
      [] pipe[n].mode = "patch" /\ v = "no_browser" ->
           Closes(n, "unverified") /\ Ends(n) /\ UNCHANGED <<site, suppressed, approval>>
      [] pipe[n].mode = "patch" /\ v = "failed" ->
           site' = Reverted(n) /\ NextPlan(n, Reverted(n)) /\ UNCHANGED suppressed
      [] pipe[n].mode = "rollback" ->
           /\ site' = Reverted(n) /\ suppressed' = Reverted(n)
           /\ Closes(n, "escalated") /\ Ends(n) /\ UNCHANGED approval

VerifyServer(n) ==
    /\ Resumes(n, "verify")
    /\ IF site # pipe[n].change.to THEN NotVerified(n, "failed")
       ELSE /\ \E ok \in ServerOutcomes(site) :
                   pipe' = [pipe EXCEPT ![n].at = "browser", ![n].ok = ok]
            /\ Checkpoints(n) /\ UNCHANGED <<site, status, suppressed, approval>>
    /\ Frame /\ UNCHANGED <<granted, incident, report, seen>>

VerifyBrowser(n) ==
    /\ Resumes(n, "browser")
    /\ IF Verdict(n) = "verified" THEN Verified(n) ELSE NotVerified(n, Verdict(n))
    /\ Frame /\ UNCHANGED <<granted, incident, report, seen>>

X_PipelineCancelled(n) ==
    /\ pipe[n].at # "off" /\ pipe[n].cancel
    /\ Ends(n)
    /\ Frame /\ UNCHANGED <<granted, site, incident, status, suppressed, approval, report,
                            seen, avail, store>>

(* A cancelled pipeline takes back the change it was verifying. *)
PipelineCancelled(n) ==
    /\ pipe[n].at # "off" /\ pipe[n].cancel
    /\ Ends(n)
    /\ site' = IF avail /\ pipe[n].at \in {"verify", "browser"} /\ pipe[n].mode # "nochange"
               THEN Reverted(n) ELSE site
    /\ Frame /\ UNCHANGED <<granted, incident, status, suppressed, approval, report, seen,
                            avail, store>>

(* A checkpoint or a completion fails: nothing is changed by the lab any more. *)
(* What the step had written to the store by then stays there.                 *)
Written(n) ==
    CASE pipe[n].at = "auto" \/ (pipe[n].at = "gate" /\ approval.decision = "approved") ->
           {site} \cup (IF site = pipe[n].change.from THEN {pipe[n].change.to} ELSE {})
      [] pipe[n].at \in {"verify", "browser"} -> {site, Reverted(n)}
      [] OTHER -> {site}

Breaks ==
    /\ avail /\ budget.faults > 0
    /\ budget' = [budget EXCEPT !.faults = @ - 1] /\ avail' = FALSE

EvidenceFails(n) ==
    /\ pipe[n].at # "off" /\ Breaks
    /\ Ends(n) /\ site' \in Written(n)
    /\ UNCHANGED <<incident, status, injected, suppressed, approval, report,
                   seen, pipeTask, mon, monTask, req, store, granted>>

(* An injection, a decision or a reset fails in the same way: a decision that   *)
(* is not on the disk is none, and a reset may have restored some of the files. *)
InjectFails(c) ==
    /\ Ready /\ ~Active /\ ~injected /\ c \notin Sound /\ Breaks
    /\ site' \in {site, c}
    /\ UNCHANGED <<incident, status, injected, suppressed, approval, report,
                   seen, tasks, store, granted>>

DecideFails ==
    /\ Ready /\ approval.inc # 0 /\ approval.decision = "none" /\ Breaks
    /\ UNCHANGED <<site, incident, status, injected, suppressed, approval, report,
                   seen, tasks, store, granted>>

ResetsFail(m) ==
    LET Q == Awaiting("mon", "mon", m)
    IN  /\ Q # {} /\ mon[m].at = "off" /\ Breaks
        /\ req' = [q \in Requests |-> IF q \in Q THEN NoRequest ELSE req[q]]
        /\ approval' = NoApproval
        /\ \/ Active /\ UNCHANGED <<site, status, store>>
           \/ /\ site' \in Contents
              /\ IF ~Active THEN UNCHANGED <<status, store>>
                 ELSE /\ status' = [status EXCEPT ![incident] = "cancelled"]
                      /\ pend' = 0 /\ filed' = incident
        /\ UNCHANGED <<incident, injected, suppressed, report, seen, pipe, pipeTask,
                       mon, monTask, granted>>

PipelineDies(n) ==
    /\ pipe[n].at # "off" /\ ~pipe[n].cancel /\ ~avail
    /\ Ends(n)
    /\ Frame /\ UNCHANGED <<granted, site, incident, status, suppressed, approval, report, seen,
                            avail, store>>

-----------------------------------------------------------------------------
Pipeline(n) ==
    \/ Triage(n) \/ Current(n) \/ Plan(n) \/ Gate(n) \/ GateEnds(n) \/ ApplyAutomatic(n)
    \/ VerifyServer(n) \/ VerifyBrowser(n) \/ PipelineCancelled(n) \/ PipelineDies(n)

Monitor(m) == MonitorChecks(m) \/ MonitorEnds(m) \/ MonitorCancelled(m)

Resets == \/ \E n \in Incidents : ResetsStopMonitor(n)
          \/ \E m \in Monitors : ResetsEnd(m)

Next ==
    \/ \E c \in Contents : Inject(c) \/ Report(c) \/ Expire(c)
    \/ \E d \in {"approved", "rejected"} : Decide(d)
    \/ \E q \in Requests : ResetBegins(q)
    \/ Resets \/ DecideFails
    \/ \E c \in Contents : InjectFails(c)
    \/ \E m \in Monitors : Monitor(m) \/ ResetsFail(m)
    \/ \E n \in Incidents : Pipeline(n) \/ EvidenceFails(n)

Spec == Init /\ [][Next]_vars

(* Tasks and requests that can go on do; the waits have timeouts. *)
FairSpec ==
    /\ Spec
    /\ \A n \in Incidents : WF_vars(Pipeline(n))
    /\ \A m \in Monitors : WF_vars(MonitorCancelled(m))
    /\ WF_vars(Resets)

-----------------------------------------------------------------------------
(* Properties. *)

(* A change behind the gate is written to the store only after an operator     *)
(* approved this very change, and once per approval (_gate, decide).           *)
ExactApproval ==
    [][\A n \in Incidents :
           pipe[n].at = "gate" /\ pipe'[n].at = "verify" => pipe[n].change \in granted[n]]_vars

(* Only one task changes the store, and only for the open incident: no task    *)
(* outlives the reset that closed its incident (stop, reset, start).           *)
NothingLeaks ==
    /\ Cardinality({m \in Monitors : mon[m].at # "off"}) <= 1
    /\ \A n \in Incidents : pipe[n].at # "off" => status[n] = "open" /\ n = incident

(* An incident is resolved only by a version every check passes on, reported   *)
(* by a browser since the change was applied (_verify, _wait_for_browser).     *)
ResolvedIsSound ==
    [][\A n \in Incidents :
           status[n] = "open" /\ status'[n] = "resolved" => site \in Sound /\ site \in seen[n]]_vars

(* A change whose verification does not end well is taken back, also when the  *)
(* pipeline is cancelled in the middle of it (_revert and its handlers).       *)
Verifying(n) == pipe[n].at \in {"verify", "browser"} /\ pipe[n].mode # "nochange"

TakenBack ==
    [][\A n \in Incidents :
           Verifying(n) /\ ~Verifying(n)' /\ avail' =>
               status'[n] \in {"resolved", "unverified"} \/ site' = pipe[n].change.from]_vars

(* A test of the reset says: "Reset must first close active monitor reads".    *)
ResetDrains ==
    [][\A q \in Requests : req[q].at = "mon" /\ req'[q].at = "off" /\ avail' =>
           \A m \in Monitors : mon[m].at # "check"]_vars

(* Every incident is closed, however its plans, approvals and verifications go, *)
(* and every reset comes to its end.                                           *)
EverythingEnds ==
    /\ \A n \in Incidents : status[n] = "open" ~> status[n] # "open" \/ ~avail
    /\ \A q \in Requests : req[q].at # "off" ~> req[q].at = "off"
=============================================================================
