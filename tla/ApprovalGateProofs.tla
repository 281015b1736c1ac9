------------------------- MODULE ApprovalGateProofs -------------------------
(***************************************************************************)
(* Theorems of ApprovalGate for any incidents, actions and operators, any  *)
(* timeout and any bounds.                                                 *)
(***************************************************************************)
EXTENDS ApprovalGate, SequenceTheorems, TLAPS

Final == {"approved", "rejected", "timeout"}

(* What the operator was told, what the waiter returned and who still sleeps, *)
(* against the decisions of the requests.                                     *)
Answers ==
    /\ \A t \in Token : t \notin DOMAIN reqs =>
           answered[t] = "none" /\ returned[t] = "none" /\ left[t] = NotWaiting
    /\ \A t \in DOMAIN reqs :
           /\ answered[t] = IF reqs[t].decision \in {"approved", "rejected"}
                            THEN reqs[t].decision ELSE "none"
           /\ returned[t] \in Final => reqs[t].decision = returned[t]
           /\ left[t] # NotWaiting => returned[t] = "none" /\ reqs[t].waiter
           /\ reqs[t].act # NoAction => reqs[t].expires \in 0 .. MaxTime

(* A permit repeats the request whose waiter returned an approval. *)
Matches(p) ==
    /\ p.id \in DOMAIN reqs /\ returned[p.id] = "approved"
    /\ reqs[p.id].inc = p.inc /\ reqs[p.id].act = p.act
    /\ reqs[p.id].expires = p.expires

Permitted ==
    /\ permits \subseteq held
    /\ \A p \in held : Matches(p)
    /\ \A p, q \in permits : p.id = q.id => p = q

UsedOnce ==
    /\ \A n \in DOMAIN executed :
           LET use == executed[n]
           IN  /\ use.id \in DOMAIN reqs /\ returned[use.id] = "approved"
               /\ reqs[use.id].inc = use.inc /\ reqs[use.id].act = use.act
               /\ use.at <= reqs[use.id].expires
               /\ \A p \in permits : p.id # use.id
    /\ \A m, n \in DOMAIN executed : executed[m].id = executed[n].id => m = n

IInv == TypeOK /\ Answers /\ Permitted /\ UsedOnce /\ IndexesAgree

-----------------------------------------------------------------------------
(* Facts about the constants and the sequence of requests. *)
LEMMA RequestsAreTokens ==
    ASSUME TypeOK
    PROVE  /\ DOMAIN reqs = 1 .. Len(reqs) /\ Len(reqs) \in Nat
           /\ DOMAIN reqs \subseteq Token
           /\ \A t \in DOMAIN reqs : reqs[t] \in Request
BY GateAssumption, LenProperties DEF TypeOK, Token

(* A request changed in place. *)
LEMMA RequestChanged ==
    ASSUME TypeOK, NEW t \in DOMAIN reqs, NEW r \in Request,
           reqs' = [reqs EXCEPT ![t] = r]
    PROVE  /\ reqs' \in Seq(Request) /\ Len(reqs') = Len(reqs)
           /\ DOMAIN reqs' = DOMAIN reqs
           /\ reqs'[t] = r
           /\ \A u \in DOMAIN reqs : u # t => reqs'[u] = reqs[u]
<1>1. reqs \in [1 .. Len(reqs) -> Request] /\ Len(reqs) \in Nat
  BY LenProperties DEF TypeOK
<1>2. reqs' \in [1 .. Len(reqs) -> Request]
  BY <1>1
<1>3. reqs' \in Seq(Request)
  BY <1>1, <1>2, SeqDef
<1>4. Len(reqs') = Len(reqs)
  BY <1>1, <1>2, <1>3, LenProperties
<1> QED BY <1>1, <1>2, <1>3, <1>4

(* _clear keeps the indexes and takes t out of both. *)
LEMMA ClearedFacts ==
    ASSUME TypeOK, IndexesAgree, NEW t \in DOMAIN reqs, Cleared(t),
           DOMAIN reqs' = DOMAIN reqs,
           \A u \in DOMAIN reqs : reqs'[u].inc = reqs[u].inc
    PROVE  /\ byInc' \in [Incidents -> {NoToken} \cup DOMAIN reqs']
           /\ byTok' \subseteq DOMAIN reqs'
           /\ IndexesAgree'
<1>1. reqs[t].inc \in Incidents
  BY RequestsAreTokens DEF Request
<1>2. byInc' \in [Incidents -> {NoToken} \cup DOMAIN reqs'] /\ byTok' \subseteq DOMAIN reqs'
  BY <1>1 DEF TypeOK, Cleared
<1>3. ASSUME NEW i \in Incidents \ Legacy
      PROVE  {u \in byTok' : reqs'[u].inc = i} = {byInc'[i]} \ {NoToken}
  <2>1. {u \in byTok : reqs[u].inc = i} = {byInc[i]} \ {NoToken}
    BY <1>3 DEF IndexesAgree
  <2>2. byTok \subseteq DOMAIN reqs /\ NoToken \notin DOMAIN reqs
    BY RequestsAreTokens DEF TypeOK, NoToken
  <2>3. {u \in byTok' : reqs'[u].inc = i} = {u \in byTok : reqs[u].inc = i} \ {t}
    BY <2>2 DEF Cleared
  <2>4. CASE byInc[i] = t
    <3>1. reqs[t].inc = i
      BY <2>1, <2>2, <2>4
    <3>2. byInc'[i] = NoToken
      BY <1>1, <2>4, <3>1 DEF Cleared, TypeOK
    <3> QED BY <2>1, <2>3, <2>4, <3>2
  <2>5. CASE byInc[i] # t
    <3>1. byInc'[i] = byInc[i]
      BY <2>5 DEF Cleared, TypeOK
    <3> QED BY <2>1, <2>3, <2>5, <3>1
  <2> QED BY <2>4, <2>5
<1> QED BY <1>2, <1>3 DEF IndexesAgree

(* A bounded event takes one from its bound. *)
LEMMA BudgetSpent ==
    ASSUME TypeOK
    PROVE  /\ budget.cancels > 0 =>
                 [budget EXCEPT !.cancels = @ - 1]
                     \in [cancels : 0 .. MaxCancels, jumps : 0 .. MaxJumps]
           /\ budget.jumps > 0 =>
                 [budget EXCEPT !.jumps = @ - 1]
                     \in [cancels : 0 .. MaxCancels, jumps : 0 .. MaxJumps]
<1>1. PICK c \in 0 .. MaxCancels, j \in 0 .. MaxJumps : budget = [cancels |-> c, jumps |-> j]
  BY DEF TypeOK
<1>2. c > 0 => c - 1 \in 0 .. MaxCancels
  BY GateAssumption
<1>3. j > 0 => j - 1 \in 0 .. MaxJumps
  BY GateAssumption
<1> QED BY <1>1, <1>2, <1>3

-----------------------------------------------------------------------------
(* The steps, one lemma each. *)
LEMMA InitHolds == Init => IInv
<1> SUFFICES ASSUME Init PROVE IInv
  OBVIOUS
<1>1. TypeOK
  BY GateAssumption DEF Init, TypeOK, Token, NotWaiting, Status
<1>2. Answers /\ Permitted /\ UsedOnce
  BY DEF Init, Answers, Permitted, UsedOnce, Token
<1>3. IndexesAgree
  BY DEF Init, IndexesAgree, NoToken
<1> QED BY <1>1, <1>2, <1>3 DEF IInv

LEMMA RegisterKeeps ==
    ASSUME IInv, NEW i \in Incidents, NEW a \in Actions \cup {NoAction},
           NEW e \in 0 .. Never, a # NoAction => e \in 0 .. MaxTime,
           i \notin Legacy => Free(i), Register(i, a, e)
    PROVE  IInv'
<1> DEFINE t == Len(reqs) + 1
           r == [inc |-> i, act |-> a, expires |-> e, decision |-> "pending",
                 by |-> Nobody, event |-> FALSE, waiter |-> FALSE]
<1>1. /\ DOMAIN reqs = 1 .. Len(reqs) /\ Len(reqs) \in Nat /\ reqs \in Seq(Request)
      /\ DOMAIN reqs \subseteq Token
  BY RequestsAreTokens DEF IInv, TypeOK
<1>2. r \in Request
  BY DEF Request
<1>3. reqs' = Append(reqs, r) /\ t \in Token
  BY DEF Register
<1>4. /\ reqs' \in Seq(Request) /\ Len(reqs') = t /\ DOMAIN reqs' = DOMAIN reqs \cup {t}
      /\ reqs'[t] = r /\ \A u \in DOMAIN reqs : reqs'[u] = reqs[u]
      /\ t \notin DOMAIN reqs
  <2> HIDE DEF r
  <2> QED BY <1>1, <1>2, <1>3
<1> HIDE DEF t
<1>5. TypeOK'
  <2>1. /\ byInc' = [byInc EXCEPT ![i] = t] /\ byTok' = byTok \cup {t}
        /\ UNCHANGED <<now, left, permits, held, answered, returned, executed, budget>>
    BY DEF Register, observers, t
  <2>2. t <= MaxRequests
    BY <1>3, GateAssumption DEF Token, t
  <2> QED BY <1>4, <2>1, <2>2 DEF IInv, TypeOK
<1>6. Answers'
  <2>1. answered[t] = "none" /\ returned[t] = "none" /\ left[t] = NotWaiting
    BY <1>3, <1>4 DEF IInv, Answers
  <2> QED BY <1>4, <2>1 DEF IInv, Answers, Register, observers, Final
<1>7. Permitted' /\ UsedOnce'
  BY <1>4 DEF IInv, Permitted, Matches, UsedOnce, Register, observers
<1>8. ASSUME NEW j \in Incidents \ Legacy
      PROVE  {u \in byTok' : reqs'[u].inc = j} = {byInc'[j]} \ {NoToken}
  <2>1. {u \in byTok : reqs[u].inc = j} = {byInc[j]} \ {NoToken} /\ byTok \subseteq DOMAIN reqs
    BY <1>8 DEF IInv, IndexesAgree, TypeOK
  <2>2. byTok' = byTok \cup {t} /\ byInc' = [byInc EXCEPT ![i] = t] /\ t # NoToken
    BY <1>1 DEF Register, t, NoToken
  <2>3. {u \in byTok' : reqs'[u].inc = j} =
          {u \in byTok : reqs[u].inc = j} \cup {u \in {t} : i = j}
    BY <1>4, <2>1, <2>2
  <2>4. CASE i = j
    BY <2>1, <2>2, <2>3, <2>4 DEF Free, IInv, TypeOK
  <2>5. CASE i # j
    BY <2>1, <2>2, <2>3, <2>5 DEF IInv, TypeOK
  <2> QED BY <2>4, <2>5
<1> QED BY <1>5, <1>6, <1>7, <1>8 DEF IInv, IndexesAgree

(* The waiter of t, which has not returned yet, returns the decision of t, or a *)
(* timeout of a request that is still pending.                                  *)
LEMMA ReturnKeeps ==
    ASSUME IInv, NEW t \in DOMAIN reqs, NEW d \in Final, returned[t] = "none",
           d = reqs[t].decision \/ (reqs[t].decision = "pending" /\ d = "timeout"),
           Return(t, d)
    PROVE  IInv'
<1> DEFINE issue == d = "approved" /\ reqs[t].act # NoAction /\ reqs[t].by # Nobody
           r == [reqs[t] EXCEPT !.waiter = TRUE, !.decision = d]
<1>1. t \in Token /\ reqs[t] \in Request /\ TypeOK
  BY RequestsAreTokens DEF IInv
<1>0. PICK permit :
        permit = [id |-> t, inc |-> reqs[t].inc, act |-> reqs[t].act,
                  by |-> reqs[t].by, issued |-> now, expires |-> reqs[t].expires]
  OBVIOUS
<1>2. /\ r \in Request /\ r.decision = d /\ r.inc = reqs[t].inc /\ r.act = reqs[t].act
      /\ r.expires = reqs[t].expires
  BY <1>1 DEF Request, Final
<1>3. reqs' = [reqs EXCEPT ![t] = r]
  BY DEF Return
<1> HIDE DEF r
<1>4. /\ reqs' \in Seq(Request) /\ Len(reqs') = Len(reqs) /\ DOMAIN reqs' = DOMAIN reqs
      /\ reqs'[t] = r /\ \A u \in DOMAIN reqs : u # t => reqs'[u] = reqs[u]
  BY <1>1, <1>2, <1>3, RequestChanged
<1>5. /\ byInc' \in [Incidents -> {NoToken} \cup DOMAIN reqs']
      /\ byTok' \subseteq DOMAIN reqs' /\ IndexesAgree'
  <2>1. \A u \in DOMAIN reqs : reqs'[u].inc = reqs[u].inc
    BY <1>2, <1>4
  <2>2. Cleared(t)
    BY DEF Return
  <2> QED BY <1>1, <1>4, <2>1, <2>2, ClearedFacts DEF IInv
<1>6. issue => permit \in Permit
  BY <1>0, <1>1 DEF IInv, Answers, TypeOK, Request, Permit
<1>7. /\ permits' = IF issue THEN permits \cup {permit} ELSE permits
      /\ held' = IF issue THEN held \cup {permit} ELSE held
      /\ permit.id = t /\ permit.inc = reqs[t].inc /\ permit.act = reqs[t].act
      /\ permit.expires = reqs[t].expires
  BY <1>0 DEF Return
<1> HIDE DEF issue
<1>8. /\ returned' = [returned EXCEPT ![t] = d] /\ left' = [left EXCEPT ![t] = NotWaiting]
      /\ now' = now /\ answered' = answered /\ executed' = executed /\ budget' = budget
  BY DEF Return
<1>9. TypeOK'
  <2>1. NotWaiting \in 0 .. NotWaiting
    BY GateAssumption DEF NotWaiting
  <2> QED BY <1>1, <1>4, <1>5, <1>6, <1>7, <1>8, <2>1 DEF TypeOK, Final, Status
<1>10. Answers'
  BY <1>1, <1>2, <1>4, <1>8 DEF IInv, Answers, TypeOK, Final
<1>11. issue => d = "approved"
  BY DEF issue
<1>12. \A p \in permits : p.id # t
  BY DEF IInv, Permitted, Matches
<1>13. \A p \in held \cup permits : p.id \in DOMAIN reqs /\ p.id # t
  BY DEF IInv, Permitted, Matches
<1>14. Permitted'
  <2>1. permits' \subseteq held'
    BY <1>7 DEF IInv, Permitted
  <2>2. ASSUME NEW p \in held, p.id # t PROVE Matches(p)'
    BY <1>1, <1>4, <1>8, <2>2 DEF IInv, Permitted, Matches, TypeOK
  <2>3. issue => Matches(permit)'
    BY <1>1, <1>2, <1>4, <1>7, <1>8, <1>11 DEF Matches, TypeOK
  <2>4. \A p \in held' : Matches(p)'
    BY <1>7, <1>13, <2>2, <2>3
  <2>5. \A p, q \in permits' : p.id = q.id => p = q
    BY <1>7, <1>12 DEF IInv, Permitted
  <2> QED BY <2>1, <2>4, <2>5 DEF Permitted
<1>15. UsedOnce'
  <2>1. ASSUME NEW n \in DOMAIN executed
        PROVE  /\ executed[n].id \in DOMAIN reqs /\ executed[n].id # t
               /\ \A p \in permits' : p.id # executed[n].id
    BY <1>7, <2>1 DEF IInv, UsedOnce
  <2> QED BY <1>1, <1>4, <1>8, <2>1 DEF IInv, UsedOnce, TypeOK
<1> QED BY <1>5, <1>9, <1>10, <1>14, <1>15 DEF IInv

LEMMA WaitKeeps ==
    ASSUME IInv, NEW t \in Token, Wait(t)
    PROVE  IInv'
<1>1. /\ t \in DOMAIN reqs /\ returned[t] = "none" /\ TypeOK
      /\ reqs[t] \in Request
  BY RequestsAreTokens DEF Wait, IInv
<1>2. CASE byInc[reqs[t].inc] # t
  <2>1. /\ returned' = [returned EXCEPT ![t] = "missing"]
        /\ UNCHANGED <<now, reqs, byInc, byTok, left, permits, held, answered, executed, budget>>
    BY <1>2 DEF Wait, gate
  <2>2. TypeOK'
    BY <1>1, <2>1 DEF TypeOK, Status
  <2>3. Answers'
    <3>1. left[t] = NotWaiting
      BY <1>1 DEF IInv, Answers, Wait
    <3> QED BY <1>1, <2>1, <3>1 DEF IInv, Answers, TypeOK, Final
  <2>4. Permitted' /\ UsedOnce'
    BY <1>1, <2>1 DEF IInv, Permitted, Matches, UsedOnce, TypeOK
  <2>5. IndexesAgree'
    BY <2>1 DEF IInv, IndexesAgree
  <2> QED BY <2>2, <2>3, <2>4, <2>5 DEF IInv
<1>3. CASE byInc[reqs[t].inc] = t /\ reqs[t].decision # "pending"
  <2>1. reqs[t].decision \in Final
    BY <1>1, <1>3 DEF Request, Final
  <2>2. Return(t, reqs[t].decision)
    BY <1>3 DEF Wait
  <2> QED BY <1>1, <2>1, <2>2, ReturnKeeps
<1>4. CASE byInc[reqs[t].inc] = t /\ reqs[t].decision = "pending"
  <2> DEFINE r == [reqs[t] EXCEPT !.waiter = TRUE]
  <2>1. /\ r \in Request /\ r.waiter /\ r.decision = reqs[t].decision
        /\ r.inc = reqs[t].inc /\ r.act = reqs[t].act /\ r.expires = reqs[t].expires
    BY <1>1 DEF Request
  <2>2. /\ reqs' = [reqs EXCEPT ![t] = r] /\ left' = [left EXCEPT ![t] = Remaining(t)]
        /\ UNCHANGED <<now, byInc, byTok, permits, held, answered, returned, executed, budget>>
    BY <1>4 DEF Wait, observers
  <2> HIDE DEF r
  <2>3. /\ reqs' \in Seq(Request) /\ Len(reqs') = Len(reqs) /\ DOMAIN reqs' = DOMAIN reqs
        /\ reqs'[t] = r /\ \A u \in DOMAIN reqs : u # t => reqs'[u] = reqs[u]
    BY <1>1, <2>1, <2>2, RequestChanged
  <2>4. Remaining(t) \in 0 .. NotWaiting
    BY <1>1, GateAssumption DEF Remaining, NotWaiting, Never, Request, TypeOK
  <2>5. TypeOK'
    BY <1>1, <2>2, <2>3, <2>4 DEF TypeOK
  <2>6. Answers'
    BY <1>1, <2>1, <2>2, <2>3 DEF IInv, Answers, TypeOK
  <2>7. Permitted' /\ UsedOnce'
    BY <1>1, <2>1, <2>2, <2>3 DEF IInv, Permitted, Matches, UsedOnce
  <2>8. IndexesAgree'
    BY <1>1, <2>1, <2>2, <2>3 DEF IInv, IndexesAgree, TypeOK
  <2> QED BY <2>5, <2>6, <2>7, <2>8 DEF IInv
<1> QED BY <1>2, <1>3, <1>4

LEMMA ResumeKeeps ==
    ASSUME IInv, NEW t \in Token, Resume(t)
    PROVE  IInv'
<1>1. t \in DOMAIN reqs /\ returned[t] = "none" /\ reqs[t] \in Request
  BY RequestsAreTokens DEF Resume, Waiting, IInv, Answers
<1>2. Woken(t) \in Final
  BY <1>1 DEF Woken, Request, Final
<1> QED BY <1>1, <1>2, ReturnKeeps DEF Resume, Woken

LEMMA CancelWaitKeeps ==
    ASSUME IInv, NEW t \in Token, CancelWait(t)
    PROVE  IInv'
<1>1. /\ t \in DOMAIN reqs /\ returned[t] = "none" /\ reqs' = reqs /\ TypeOK
      /\ Cleared(t) /\ left' = [left EXCEPT ![t] = NotWaiting]
      /\ returned' = [returned EXCEPT ![t] = "cancelled"]
      /\ UNCHANGED <<now, permits, held, answered, executed>>
  BY DEF CancelWait, Waiting, IInv, Answers
<1>2. /\ byInc' \in [Incidents -> {NoToken} \cup DOMAIN reqs']
      /\ byTok' \subseteq DOMAIN reqs' /\ IndexesAgree'
  BY <1>1, ClearedFacts DEF IInv
<1>3. budget' \in [cancels : 0 .. MaxCancels, jumps : 0 .. MaxJumps]
  <2>1. budget.cancels > 0 /\ budget' = [budget EXCEPT !.cancels = @ - 1]
    BY DEF CancelWait
  <2> QED BY <1>1, <2>1, BudgetSpent
<1>4. TypeOK'
  BY <1>1, <1>2, <1>3, GateAssumption DEF TypeOK, Status, NotWaiting
<1>5. Answers'
  BY <1>1 DEF IInv, Answers, TypeOK, Final
<1>6. Permitted' /\ UsedOnce'
  BY <1>1 DEF IInv, Permitted, Matches, UsedOnce, TypeOK
<1> QED BY <1>2, <1>4, <1>5, <1>6 DEF IInv

LEMMA CallbackKeeps ==
    ASSUME IInv, NEW t \in Token, NEW decision \in {"approved", "rejected"},
           NEW o \in Operators, NEW d, Callback(t, decision, o, d)
    PROVE  IInv'
<1>1. /\ t \in DOMAIN reqs /\ reqs[t] \in Request /\ reqs[t].decision = "pending"
      /\ TypeOK
      /\ UNCHANGED <<now, left, permits, held, returned, executed, budget>>
  BY RequestsAreTokens DEF Callback, Open, IInv, TypeOK
<1>2. PICK r \in Request :
        /\ reqs' = [reqs EXCEPT ![t] = r]
        /\ r.inc = reqs[t].inc /\ r.act = reqs[t].act /\ r.expires = reqs[t].expires
        /\ r.waiter = reqs[t].waiter
        /\ \/ r.decision = "timeout" /\ Cleared(t) /\ UNCHANGED answered
           \/ /\ r.decision = decision /\ UNCHANGED <<byInc, byTok>>
              /\ answered' = [answered EXCEPT ![t] = decision]
  <2>1. CASE Expired(t)
    <3> DEFINE r == [reqs[t] EXCEPT !.decision = "timeout", !.event = TRUE]
    <3>1. /\ r \in Request /\ r.inc = reqs[t].inc /\ r.act = reqs[t].act
          /\ r.expires = reqs[t].expires /\ r.waiter = reqs[t].waiter
          /\ r.decision = "timeout"
      BY <1>1 DEF Request
    <3>2. reqs' = [reqs EXCEPT ![t] = r] /\ Cleared(t) /\ UNCHANGED answered
      BY <2>1 DEF Callback
    <3> QED BY <3>1, <3>2
  <2>2. CASE ~Expired(t)
    <3> DEFINE r == [reqs[t] EXCEPT !.decision = decision, !.by = o, !.event = TRUE]
    <3>1. /\ r \in Request /\ r.inc = reqs[t].inc /\ r.act = reqs[t].act
          /\ r.expires = reqs[t].expires /\ r.waiter = reqs[t].waiter
          /\ r.decision = decision
      BY <1>1 DEF Request
    <3>2. /\ reqs' = [reqs EXCEPT ![t] = r] /\ UNCHANGED <<byInc, byTok>>
          /\ answered' = [answered EXCEPT ![t] = decision]
      BY <2>2 DEF Callback, Decided
    <3> QED BY <3>1, <3>2
  <2> QED BY <2>1, <2>2
<1>3. /\ reqs' \in Seq(Request) /\ Len(reqs') = Len(reqs) /\ DOMAIN reqs' = DOMAIN reqs
      /\ reqs'[t] = r /\ \A u \in DOMAIN reqs : u # t => reqs'[u] = reqs[u]
  BY <1>1, <1>2, RequestChanged
<1>4. \A u \in DOMAIN reqs : /\ reqs'[u].inc = reqs[u].inc /\ reqs'[u].act = reqs[u].act
                             /\ reqs'[u].expires = reqs[u].expires
                             /\ reqs'[u].waiter = reqs[u].waiter
  BY <1>2, <1>3
<1>5. /\ byInc' \in [Incidents -> {NoToken} \cup DOMAIN reqs']
      /\ byTok' \subseteq DOMAIN reqs' /\ IndexesAgree'
  <2>1. CASE Cleared(t)
    BY <1>1, <1>3, <1>4, <2>1, ClearedFacts DEF IInv
  <2>2. CASE UNCHANGED <<byInc, byTok>>
    <3>1. byTok \subseteq DOMAIN reqs /\ byInc \in [Incidents -> {NoToken} \cup DOMAIN reqs]
      BY <1>1 DEF TypeOK
    <3>2. \A i : {u \in byTok : reqs'[u].inc = i} = {u \in byTok : reqs[u].inc = i}
      BY <1>4, <3>1
    <3> QED BY <1>3, <2>2, <3>1, <3>2 DEF IInv, IndexesAgree
  <2> QED BY <1>2, <2>1, <2>2
<1>6. TypeOK'
  <2>1. answered' \in [Token -> {"none", "approved", "rejected"}]
    <3>1. answered \in [Token -> {"none", "approved", "rejected"}]
      BY <1>1 DEF TypeOK
    <3>2. answered' = answered \/ answered' = [answered EXCEPT ![t] = decision]
      BY <1>2, <1>3
    <3>3. decision \in {"none", "approved", "rejected"}
      OBVIOUS
    <3> QED BY ONLY <3>1, <3>2, <3>3
  <2>2. reqs' \in Seq(Request) /\ Len(reqs') <= MaxRequests
    BY <1>1, <1>3 DEF TypeOK
  <2> QED BY <1>1, <1>5, <2>1, <2>2 DEF TypeOK
<1>7. Answers'
  <2>1. returned[t] \notin Final /\ answered[t] = "none"
    BY <1>1 DEF IInv, Answers, Final
  <2>2. answered' \in [Token -> {"none", "approved", "rejected"}]
        /\ \A u \in Token : u # t => answered'[u] = answered[u]
    BY <1>1, <1>2 DEF TypeOK
  <2>3. answered'[t] = IF r.decision \in {"approved", "rejected"} THEN r.decision ELSE "none"
    BY <1>1, <1>2, <2>1 DEF TypeOK
  <2>4. \A u \in Token : u \notin DOMAIN reqs => u # t
    BY <1>1
  <2>5. DOMAIN reqs \subseteq Token
    BY <1>1, RequestsAreTokens
  <2> QED BY <1>1, <1>2, <1>3, <1>4, <2>1, <2>2, <2>3, <2>4, <2>5 DEF IInv, Answers
<1>8. Permitted' /\ UsedOnce'
  BY <1>1, <1>3, <1>4 DEF IInv, Permitted, Matches, UsedOnce
<1> QED BY <1>5, <1>6, <1>7, <1>8 DEF IInv

LEMMA ConsumeKeeps ==
    ASSUME IInv, NEW p \in held, NEW i \in Incidents, NEW a \in Actions, Consume(p, i, a)
    PROVE  IInv'
<1> DEFINE use == [id |-> p.id, inc |-> i, act |-> a, at |-> now]
<1>1. /\ p \in permits /\ p \in Permit /\ Matches(p) /\ permits' = permits \ {p} /\ TypeOK
      /\ UNCHANGED <<now, reqs, byInc, byTok, left, held, answered, returned, budget>>
      /\ executed \in Seq(Use)
  BY DEF Consume, Taken, IInv, Permitted, TypeOK
<1>2. \/ executed' = executed
      \/ /\ executed' = Append(executed, use)
         /\ p.inc = i /\ p.act = a /\ now <= p.expires
  BY DEF Consume, Valid
<1>3. use \in Use /\ use.id = p.id /\ use.inc = i /\ use.act = a /\ use.at = now
  BY <1>1 DEF Use, Permit, TypeOK
<1> HIDE DEF use
<1>4. executed' \in Seq(Use)
  BY <1>1, <1>2, <1>3
<1>5. TypeOK'
  BY <1>1, <1>4 DEF TypeOK
<1>6. Answers' /\ IndexesAgree'
  BY <1>1 DEF IInv, Answers, IndexesAgree
<1>7. Permitted'
  BY <1>1 DEF IInv, Permitted, Matches
<1>8. UsedOnce'
  <2>1. \A q \in permits : q # p => q.id # p.id
    BY <1>1 DEF IInv, Permitted
  <2>2. \A n \in DOMAIN executed : executed[n].id # p.id
    BY <1>1 DEF IInv, UsedOnce
  <2>3. CASE executed' = executed
    BY <1>1, <2>3 DEF IInv, UsedOnce
  <2>4. CASE /\ executed' = Append(executed, use)
             /\ p.inc = i /\ p.act = a /\ now <= p.expires
    <3>1. /\ DOMAIN executed = 1 .. Len(executed) /\ Len(executed) \in Nat
          /\ DOMAIN executed' = DOMAIN executed \cup {Len(executed) + 1}
          /\ \A n \in DOMAIN executed : executed'[n] = executed[n]
          /\ executed'[Len(executed) + 1] = use
      BY <1>1, <1>3, <2>4
    <3>2. /\ use.id \in DOMAIN reqs' /\ returned'[use.id] = "approved"
          /\ reqs'[use.id].inc = use.inc /\ reqs'[use.id].act = use.act
          /\ use.at <= reqs'[use.id].expires
          /\ \A q \in permits' : q.id # use.id
      BY <1>1, <1>3, <2>1, <2>4 DEF Matches
    <3>3. ASSUME NEW n \in DOMAIN executed
          PROVE  LET u == executed[n]
                 IN  /\ u.id \in DOMAIN reqs' /\ returned'[u.id] = "approved"
                     /\ reqs'[u.id].inc = u.inc /\ reqs'[u.id].act = u.act
                     /\ u.at <= reqs'[u.id].expires
                     /\ \A q \in permits' : q.id # u.id
      BY <1>1, <3>3 DEF IInv, UsedOnce
    <3>4. \A m, n \in DOMAIN executed' : executed'[m].id = executed'[n].id => m = n
      BY <1>3, <2>2, <3>1 DEF IInv, UsedOnce
    <3> QED BY <3>1, <3>2, <3>3, <3>4 DEF UsedOnce
  <2> QED BY <1>2, <2>3, <2>4
<1> QED BY <1>5, <1>6, <1>7, <1>8 DEF IInv

LEMMA ClockKeeps ==
    ASSUME IInv, Tick \/ StepBack
    PROVE  IInv'
<1>1. /\ UNCHANGED <<reqs, byInc, byTok, permits, held, answered, returned, executed>>
      /\ now' \in 0 .. MaxTime
      /\ budget' \in [cancels : 0 .. MaxCancels, jumps : 0 .. MaxJumps]
  <2>1. CASE Tick
    BY <2>1, GateAssumption DEF Tick, observers, IInv, TypeOK
  <2>2. CASE StepBack
    BY <2>2, BudgetSpent DEF StepBack, Jump, gate, observers, IInv
  <2> QED BY <2>1, <2>2
<1>2. /\ left' \in [Token -> 0 .. NotWaiting]
      /\ \A t \in Token : left'[t] = NotWaiting <=> left[t] = NotWaiting
  <2>1. CASE Tick
    BY <2>1, GateAssumption DEF Tick, IInv, TypeOK, NotWaiting
  <2>2. CASE StepBack
    BY <2>2 DEF StepBack, gate, IInv, TypeOK
  <2> QED BY <2>1, <2>2
<1>3. TypeOK'
  BY <1>1, <1>2 DEF IInv, TypeOK
<1>4. Answers'
  BY <1>1, <1>2, RequestsAreTokens DEF IInv, Answers
<1>5. Permitted' /\ UsedOnce' /\ IndexesAgree'
  BY <1>1 DEF IInv, Permitted, Matches, UsedOnce, IndexesAgree
<1> QED BY <1>3, <1>4, <1>5 DEF IInv

LEMMA RestartKeeps == ASSUME IInv, Restart PROVE IInv'
<1>1. /\ UNCHANGED <<now, reqs, answered, executed>>
      /\ byTok' = {} /\ permits' = {} /\ held' = {}
      /\ byInc' = [i \in Incidents |-> NoToken] /\ left' = [t \in Token |-> NotWaiting]
      /\ TypeOK
  BY DEF Restart, IInv
<1>2. budget' \in [cancels : 0 .. MaxCancels, jumps : 0 .. MaxJumps]
  BY <1>1, BudgetSpent DEF Restart, Jump
<1>3. /\ returned' \in [Token -> Status]
      /\ \A t \in Token : returned[t] # "none" \/ t \notin DOMAIN reqs
                               => returned'[t] = returned[t]
      /\ \A t \in Token : returned'[t] \in Final => returned'[t] = returned[t]
  BY <1>1 DEF Restart, TypeOK, Status, Final
<1>4. TypeOK'
  BY <1>1, <1>2, <1>3, GateAssumption DEF TypeOK, NotWaiting
<1>5. Answers'
  BY <1>1, <1>3, RequestsAreTokens DEF IInv, Answers
<1>6. Permitted' /\ UsedOnce'
  BY <1>1, <1>3, RequestsAreTokens DEF IInv, Permitted, UsedOnce
<1>7. IndexesAgree'
  BY <1>1 DEF IndexesAgree
<1> QED BY <1>4, <1>5, <1>6, <1>7 DEF IInv

-----------------------------------------------------------------------------
LEMMA NextKeeps == IInv /\ [Next]_vars => IInv'
<1> SUFFICES ASSUME IInv, [Next]_vars PROVE IInv'
  OBVIOUS
<1>1. CASE \E i \in Incidents \ Legacy, a \in Actions : RequestAction(i, a)
  <2>1. PICK i \in Incidents \ Legacy, a \in Actions : RequestAction(i, a)
    BY <1>1
  <2>2. Register(i, a, now + Timeout) /\ Free(i)
    BY <2>1 DEF RequestAction
  <2>3. now + Timeout \in 0 .. MaxTime /\ now + Timeout \in 0 .. Never
    BY <2>2, GateAssumption DEF Register, Never, IInv, TypeOK
  <2> QED BY <2>2, <2>3, RegisterKeeps
<1>2. CASE \E i \in Legacy : RequestLegacy(i)
  <2>1. PICK i \in Legacy : Register(i, NoAction, Never)
    BY <1>2 DEF RequestLegacy
  <2>2. i \in Incidents /\ Never \in 0 .. Never
    BY GateAssumption DEF Never
  <2> QED BY <2>1, <2>2, RegisterKeeps
<1>3. CASE \E t \in Token : Wait(t) \/ Resume(t) \/ CancelWait(t)
  BY <1>3, WaitKeeps, ResumeKeeps, CancelWaitKeeps
<1>4. CASE \E t \in Token, decision \in {"approved", "rejected"}, o \in Operators,
              d \in Actions \cup {NoAction} : Callback(t, decision, o, d)
  BY <1>4, CallbackKeeps
<1>5. CASE \E p \in held, i \in Incidents, a \in Actions : Consume(p, i, a)
  BY <1>5, ConsumeKeeps
<1>6. CASE Tick \/ StepBack
  BY <1>6, ClockKeeps
<1>7. CASE Restart
  BY <1>7, RestartKeeps
<1>8. CASE UNCHANGED vars
  BY <1>8 DEF vars, gate, observers, IInv, TypeOK, Answers, Permitted, Matches, UsedOnce,
              IndexesAgree
<1> QED BY <1>1, <1>2, <1>3, <1>4, <1>5, <1>6, <1>7, <1>8 DEF Next

(* The invariant of the gate holds whatever callers, operators and clocks do. *)
THEOREM InvariantHolds == Spec => []IInv
BY InitHolds, NextKeeps, PTL DEF Spec

(* The gate's state has the types the code gives it, in every behaviour. *)
THEOREM TypeCorrect == Spec => []TypeOK
BY InvariantHolds, PTL DEF IInv

(* consume_action_permit lets an action go only once per approval, and only the *)
(* action that the operator approved, for that incident and in time: a          *)
(* mismatching use burns the permit, and a restart loses it.                    *)
THEOREM ActionsRunApprovedOnce == Spec => []ApprovedOnce
<1>1. IInv => ApprovedOnce
  <2> SUFFICES ASSUME IInv, NEW n \in DOMAIN executed
               PROVE  /\ answered[executed[n].id] = "approved"
                      /\ returned[executed[n].id] = "approved"
                      /\ reqs[executed[n].id].inc = executed[n].inc
                      /\ reqs[executed[n].id].act = executed[n].act
                      /\ executed[n].at <= reqs[executed[n].id].expires
                      /\ \A m \in DOMAIN executed : executed[m].id = executed[n].id => m = n
    BY DEF ApprovedOnce
  <2>1. executed[n].id \in DOMAIN reqs /\ returned[executed[n].id] = "approved"
    BY DEF IInv, UsedOnce
  <2>2. answered[executed[n].id] = "approved"
    BY <2>1 DEF IInv, Answers, Final
  <2> QED BY <2>1, <2>2 DEF IInv, UsedOnce
<1> QED BY <1>1, InvariantHolds, PTL

(* Whatever the order of timeouts, wake-ups and callbacks, the waiter returns   *)
(* the decision the operator was told.                                          *)
THEOREM AnswersStand == Spec => []AnswerStands
<1>1. IInv => AnswerStands
  BY DEF IInv, Answers, AnswerStands, Final
<1> QED BY <1>1, InvariantHolds, PTL

(* A late, a second or an expired callback, and a timeout, leave a decision alone. *)
THEOREM DecisionsAreFinal == Spec => DecisionIsFinal
<1>1. ASSUME IInv, [Next]_vars, NEW t \in DOMAIN reqs, reqs[t].decision # "pending"
      PROVE  reqs'[t].decision = reqs[t].decision
  <2>1. TypeOK /\ DOMAIN reqs = 1 .. Len(reqs) /\ Len(reqs) \in Nat /\ reqs \in Seq(Request)
    BY <1>1, RequestsAreTokens DEF IInv, TypeOK
  <2>2. ASSUME NEW i \in Incidents, NEW a, NEW e, Register(i, a, e)
        PROVE  reqs'[t].decision = reqs[t].decision
    BY <1>1, <2>1, <2>2 DEF Register
  <2>3. ASSUME NEW u \in DOMAIN reqs, NEW d, Return(u, d), u = t => d = reqs[t].decision
        PROVE  reqs'[t].decision = reqs[t].decision
    <3>1. reqs[u] \in Request
      BY <1>1, RequestsAreTokens DEF IInv
    <3> QED BY <1>1, <2>1, <2>3, <3>1 DEF Return, Request
  <2>4. ASSUME NEW u \in Token, Wait(u) \/ Resume(u) \/ CancelWait(u)
        PROVE  reqs'[t].decision = reqs[t].decision
    <3>1. CASE Wait(u)
      <4>1. u \in DOMAIN reqs
        BY <3>1 DEF Wait
      <4>2. CASE Return(u, reqs[u].decision)
        BY <2>3, <4>1, <4>2
      <4>3. CASE reqs' = reqs
        BY <4>3
      <4>4. CASE reqs' = [reqs EXCEPT ![u].waiter = TRUE]
        <5>1. reqs[u] \in Request /\ reqs[t] \in Request
          BY <1>1, <4>1, RequestsAreTokens DEF IInv
        <5> QED BY <1>1, <2>1, <4>1, <4>4, <5>1 DEF Request
      <4> QED BY <3>1, <4>2, <4>3, <4>4 DEF Wait, gate
    <3>2. CASE Resume(u)
      <4>1. u \in DOMAIN reqs /\ Return(u, Woken(u))
        BY <3>2 DEF Resume, Waiting
      <4>2. u = t => Woken(u) = reqs[t].decision
        BY <1>1 DEF Woken
      <4> QED BY <2>3, <4>1, <4>2
    <3>3. CASE CancelWait(u)
      BY <3>3 DEF CancelWait
    <3> QED BY <2>4, <3>1, <3>2, <3>3
  <2>5. ASSUME NEW u \in Token, NEW d, NEW o, NEW g, Callback(u, d, o, g)
        PROVE  reqs'[t].decision = reqs[t].decision
    <3>1. u # t
      BY <1>1, <2>5 DEF Callback, Open
    <3> QED BY <1>1, <2>1, <2>5, <3>1 DEF Callback, Decided
  <2>6. CASE (\E p \in held, i \in Incidents, a \in Actions : Consume(p, i, a))
             \/ Tick \/ StepBack \/ Restart \/ UNCHANGED vars
    BY <2>6 DEF Consume, Tick, StepBack, Restart, vars, gate
  <2> QED BY <1>1, <2>2, <2>4, <2>5, <2>6, GateAssumption
        DEF Next, RequestAction, RequestLegacy
<1>2. IInv /\ [Next]_vars =>
        [\A t \in DOMAIN reqs :
           reqs[t].decision # "pending" => reqs'[t].decision = reqs[t].decision]_vars
  BY <1>1
<1> QED BY <1>2, InvariantHolds, PTL DEF Spec, DecisionIsFinal

(* _pending_by_incident and _pending_by_token never part on an exact request.   *)
THEOREM IndexesAlwaysAgree == Spec => []IndexesAgree
BY InvariantHolds, PTL DEF IInv
=============================================================================
