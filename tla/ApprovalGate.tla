---------------------------- MODULE ApprovalGate ----------------------------
(***************************************************************************)
(* The approval gate of agents/approval.py: requests for an operator's     *)
(* decision on one exact action, the coroutine that waits for it, the      *)
(* callback that brings it, and the permit that lets the action run once.  *)
(*                                                                         *)
(* Everything runs on one event loop, so a method is atomic up to its      *)
(* await: the only one is that of a waiter for its event.  A request is    *)
(* named by its place in reqs, which stands for its random token, and an   *)
(* action stands for its digest (SHA-256 of the canonical action).         *)
(* Each access is made by whoever holds the gate, in any order.            *)
(***************************************************************************)
EXTENDS Naturals, Sequences

CONSTANTS Incidents, Actions, Operators,
          NoAction,     \* in place of the action, or digest, that is None
          Nobody,       \* a blank identity
          Targeted,     \* the actions whose record names a target
          Legacy,       \* the incidents that use request/wait_for_decision
          Timeout,      \* timeout_seconds
          MaxTime,      \* bound: the wall clock
          MaxRequests,  \* bound: requests made
          MaxCancels,   \* bound: cancellations of a waiter
          MaxJumps      \* bound: restarts, and steps back of the wall clock

ASSUME GateAssumption ==
    /\ NoAction \notin Actions /\ Nobody \notin Operators
    /\ Targeted \subseteq Actions /\ Legacy \subseteq Incidents
    /\ MaxTime \in Nat /\ Timeout \in 0 .. MaxTime /\ MaxRequests \in Nat
    /\ MaxCancels \in Nat /\ MaxJumps \in Nat

Never    == MaxTime + 1      \* expires_at is None
Token    == 1 .. MaxRequests
NoToken  == 0

VARIABLES
    now,      \* the wall clock, time.time()
    reqs,     \* the requests made so far
    byInc,    \* _pending_by_incident: incident -> token
    byTok,    \* the tokens in _pending_by_token
    left,     \* token -> ticks its waiter still sleeps; NotWaiting
    permits,  \* _action_permits
    held,     \* permits handed to the callers
    answered, \* observer: token -> what the operator was told is decided
    returned, \* observer: token -> status the waiter returned
    executed, \* observer: the uses of permits that were allowed
    budget    \* what is left of the bounds on cancellations and jumps

gate == <<reqs, byInc, byTok, left, permits>>
observers == <<answered, returned, executed>>
vars == <<now, gate, held, observers, budget>>

NotWaiting == MaxTime + 1

Request == [inc : Incidents, act : Actions \cup {NoAction}, expires : 0 .. Never,
            decision : {"pending", "approved", "rejected", "timeout"},
            by : Operators \cup {Nobody}, event : BOOLEAN, waiter : BOOLEAN]
Permit == [id : Token, inc : Incidents, act : Actions, by : Operators,
           issued : 0 .. MaxTime, expires : 0 .. MaxTime]
Use == [id : Token, inc : Incidents, act : Actions, at : 0 .. MaxTime]
Status == {"none", "missing", "approved", "rejected", "timeout", "cancelled", "lost"}

TypeOK ==
    /\ now \in 0 .. MaxTime
    /\ reqs \in Seq(Request) /\ Len(reqs) <= MaxRequests
    /\ byInc \in [Incidents -> {NoToken} \cup DOMAIN reqs]
    /\ byTok \subseteq DOMAIN reqs
    /\ left \in [Token -> 0 .. NotWaiting]
    /\ permits \subseteq Permit /\ held \subseteq Permit
    /\ answered \in [Token -> {"none", "approved", "rejected"}]
    /\ returned \in [Token -> Status]
    /\ executed \in Seq(Use)
    /\ budget \in [cancels : 0 .. MaxCancels, jumps : 0 .. MaxJumps]

Init ==
    /\ now = 0
    /\ reqs = <<>> /\ byInc = [i \in Incidents |-> NoToken] /\ byTok = {}
    /\ left = [t \in Token |-> NotWaiting]
    /\ permits = {} /\ held = {}
    /\ answered = [t \in Token |-> "none"] /\ returned = [t \in Token |-> "none"]
    /\ executed = <<>>
    /\ budget = [cancels |-> MaxCancels, jumps |-> MaxJumps]

-----------------------------------------------------------------------------
(* _register_request, of a request that can still expire before the clock's bound. *)
Register(i, a, expiry) ==
    LET t == Len(reqs) + 1
    IN  /\ t \in Token /\ now + Timeout <= MaxTime
        /\ reqs' = Append(reqs, [inc |-> i, act |-> a, expires |-> expiry,
                                 decision |-> "pending", by |-> Nobody,
                                 event |-> FALSE, waiter |-> FALSE])
        /\ byInc' = [byInc EXCEPT ![i] = t]
        /\ byTok' = byTok \cup {t}
        /\ UNCHANGED <<now, left, permits, held, observers, budget>>

Free(i) == byInc[i] = NoToken

RequestAction(i, a) == Free(i) /\ Register(i, a, now + Timeout)
RequestLegacy(i) == Register(i, NoAction, Never)

-----------------------------------------------------------------------------
X_Cleared(t) == /\ byInc' = [byInc EXCEPT ![reqs[t].inc] = NoToken]
                /\ byTok' = byTok \ {t}
(* _clear: a newer request of the incident keeps its entry. *)
Cleared(t) ==
    /\ byInc' = IF byInc[reqs[t].inc] = t
                THEN [byInc EXCEPT ![reqs[t].inc] = NoToken] ELSE byInc
    /\ byTok' = byTok \ {t}

(* The waiter of t returns with this decision.  An approved exact action by a *)
(* named operator brings a permit.                                            *)
Return(t, decision) ==
    LET req == reqs[t]
        issue == decision = "approved" /\ req.act # NoAction /\ req.by # Nobody
        permit == [id |-> t, inc |-> req.inc, act |-> req.act, by |-> req.by,
                   issued |-> now, expires |-> req.expires]
    IN  /\ reqs' = [reqs EXCEPT ![t] = [@ EXCEPT !.waiter = TRUE, !.decision = decision]]
        /\ Cleared(t)
        /\ left' = [left EXCEPT ![t] = NotWaiting]
        /\ returned' = [returned EXCEPT ![t] = decision]
        /\ permits' = IF issue THEN permits \cup {permit} ELSE permits
        /\ held' = IF issue THEN held \cup {permit} ELSE held
        /\ UNCHANGED <<now, answered, executed, budget>>

(* The start of a wait.  The maker of an exact request waits for it by its    *)
(* token, once; a legacy wait takes the latest request of its incident.       *)
Remaining(t) == IF reqs[t].expires = Never THEN Timeout
                ELSE IF now < reqs[t].expires THEN reqs[t].expires - now ELSE 0

Wait(t) ==
    /\ t \in DOMAIN reqs /\ returned[t] = "none" /\ ~reqs[t].waiter
    /\ IF byInc[reqs[t].inc] # t
       THEN /\ reqs[t].act # NoAction
            /\ returned' = [returned EXCEPT ![t] = "missing"]
            /\ UNCHANGED <<now, gate, held, answered, executed, budget>>
       ELSE IF reqs[t].decision # "pending"
       THEN Return(t, reqs[t].decision)
       ELSE /\ reqs' = [reqs EXCEPT ![t].waiter = TRUE]
            /\ left' = [left EXCEPT ![t] = Remaining(t)]
            /\ UNCHANGED <<now, byInc, byTok, permits, held, observers, budget>>

Waiting(t) == t \in DOMAIN reqs /\ left[t] # NotWaiting

(* The event is set or the time is up, and the waiter runs again.  A decision *)
(* that came in between the timeout and this step stands.                     *)
X_Woken(t) == IF left[t] = 0 THEN "timeout" ELSE reqs[t].decision
Woken(t) == IF reqs[t].decision = "pending" THEN "timeout" ELSE reqs[t].decision

X_Ready(t) == reqs[t].event
Ready(t) == reqs[t].event \/ left[t] = 0

Resume(t) ==
    /\ Waiting(t) /\ Ready(t)
    /\ Return(t, Woken(t))

CancelWait(t) ==
    /\ Waiting(t)
    /\ budget.cancels > 0 /\ budget' = [budget EXCEPT !.cancels = @ - 1]
    /\ Cleared(t)
    /\ left' = [left EXCEPT ![t] = NotWaiting]
    /\ returned' = [returned EXCEPT ![t] = "cancelled"]
    /\ UNCHANGED <<now, reqs, permits, held, answered, executed>>

-----------------------------------------------------------------------------
(* callback(), for a known token whose request is pending; d is the digest in *)
(* the call, if any.  Any other call changes nothing.                          *)
X_Open(t) == TRUE
Open(t) == reqs[t].decision = "pending"

Expired(t) == reqs[t].expires # Never /\ now > reqs[t].expires

DigestMatches(t, d) ==
    IF reqs[t].act \in Targeted THEN d = reqs[t].act
                                ELSE d = NoAction \/ d = reqs[t].act

Decided(t, decision, operator) ==
    reqs' = [reqs EXCEPT ![t] = [@ EXCEPT !.decision = decision, !.by = operator,
                                          !.event = TRUE]]

Callback(t, decision, operator, d) ==
    /\ t \in byTok /\ Open(t)
    /\ \/ /\ Expired(t)
          /\ reqs' = [reqs EXCEPT ![t] = [@ EXCEPT !.decision = "timeout", !.event = TRUE]]
          /\ Cleared(t)
          /\ UNCHANGED answered
       \/ /\ ~Expired(t) /\ DigestMatches(t, d)
          /\ Decided(t, decision, operator)
          /\ answered' = [answered EXCEPT ![t] = decision]
          /\ UNCHANGED <<byInc, byTok>>
    /\ UNCHANGED <<now, left, permits, held, returned, executed, budget>>

(* consume_action_permit() by the holder of p, for an incident and an action. *)
Valid(p, i, a) ==
    p.inc = i /\ p.act = a /\ p.issued <= now /\ now <= p.issued + Timeout
    /\ now <= p.expires

X_Taken(p) == permits
Taken(p) == permits \ {p}

Consume(p, i, a) ==
    /\ p \in permits
    /\ permits' = Taken(p)
    /\ executed' = IF Valid(p, i, a)
                   THEN Append(executed, [id |-> p.id, inc |-> i, act |-> a, at |-> now])
                   ELSE executed
    /\ UNCHANGED <<now, reqs, byInc, byTok, left, held, answered, returned, budget>>

-----------------------------------------------------------------------------
(* Time passes for the wall clock, up to its bound, and for the sleepers.     *)
Tick ==
    /\ now < MaxTime \/ \E t \in Token : left[t] \in 1 .. MaxTime
    /\ now' = IF now < MaxTime THEN now + 1 ELSE now
    /\ left' = [t \in Token |-> IF left[t] \in 1 .. MaxTime THEN left[t] - 1 ELSE left[t]]
    /\ UNCHANGED <<reqs, byInc, byTok, permits, held, observers, budget>>

Jump == budget.jumps > 0 /\ budget' = [budget EXCEPT !.jumps = @ - 1]

(* The wall clock is set back; the event loop's monotonic clock is not. *)
StepBack ==
    /\ Jump /\ \E n \in 0 .. MaxTime : n < now /\ now' = n
    /\ UNCHANGED <<gate, held, observers>>

(* The process restarts: everything the gate knew is gone. *)
Restart ==
    /\ Jump
    /\ byInc' = [i \in Incidents |-> NoToken] /\ byTok' = {}
    /\ left' = [t \in Token |-> NotWaiting]
    /\ permits' = {} /\ held' = {}
    /\ returned' = [t \in Token |-> IF t \in DOMAIN reqs /\ returned[t] = "none"
                                    THEN "lost" ELSE returned[t]]
    /\ UNCHANGED <<now, reqs, answered, executed>>

Next ==
    \/ \E i \in Incidents \ Legacy, a \in Actions : RequestAction(i, a)
    \/ \E i \in Legacy : RequestLegacy(i)
    \/ \E t \in Token : Wait(t) \/ Resume(t) \/ CancelWait(t)
    \/ \E t \in Token, decision \in {"approved", "rejected"}, o \in Operators,
          d \in Actions \cup {NoAction} : Callback(t, decision, o, d)
    \/ \E p \in held, i \in Incidents, a \in Actions : Consume(p, i, a)
    \/ Tick \/ StepBack \/ Restart

Spec == Init /\ [][Next]_vars

(* Time passes, and the event loop runs a coroutine that can go on. *)
Fairness == WF_vars(Tick) /\ \A t \in Token : WF_vars(Resume(t))
FairSpec == Spec /\ Fairness

-----------------------------------------------------------------------------
(* An action runs only if the operator was told that it is approved: the same  *)
(* incident and the same action, before the request expired, and one approval  *)
(* lets one run go.                                                            *)
ApprovedOnce ==
    \A n \in DOMAIN executed :
        LET use == executed[n]  req == reqs[use.id]
        IN  /\ answered[use.id] = "approved" /\ returned[use.id] = "approved"
            /\ req.inc = use.inc /\ req.act = use.act /\ use.at <= req.expires
            /\ \A m \in DOMAIN executed : executed[m].id = use.id => m = n

(* What the operator was told is decided is what the waiter gets, unless the   *)
(* waiter was cancelled or its process restarted: a timeout that fires at the  *)
(* same time does not overrule it, nor does a second callback.                 *)
AnswerStands ==
    \A t \in DOMAIN reqs :
        /\ returned[t] \in {"approved", "rejected", "timeout"} =>
               /\ reqs[t].decision = returned[t]
               /\ answered[t] = IF returned[t] = "timeout" THEN "none" ELSE returned[t]
        /\ answered[t] # "none" => reqs[t].decision = answered[t]

(* The two indexes of the gate agree on the incidents of exact actions: at     *)
(* most one request each, and a late wake-up or a late callback of an older    *)
(* request does not take the entry of a newer one away.                        *)
IndexesAgree ==
    \A i \in Incidents \ Legacy :
        {t \in byTok : reqs[t].inc = i} = {byInc[i]} \ {NoToken}

(* A decision is final. *)
DecisionIsFinal ==
    [][\A t \in DOMAIN reqs :
           reqs[t].decision # "pending" => reqs'[t].decision = reqs[t].decision]_vars

(* No waiter waits for ever, whether or not an operator answers. *)
EveryWaiterReturns == \A t \in Token : Waiting(t) ~> ~Waiting(t)
=============================================================================
