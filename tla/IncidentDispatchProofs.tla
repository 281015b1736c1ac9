----------------------- MODULE IncidentDispatchProofs -----------------------
(***************************************************************************)
(* Theorems of IncidentDispatch for any processes, keys and incidents and   *)
(* for any bounds.                                                          *)
(***************************************************************************)
EXTENDS IncidentDispatch, SequenceTheorems, TLAPS

Completion == {"pending", "result", "exception", "cancelled", "lost"}

(* Settling completions changes nothing else of the dispatches. *)
LEMMA SettledFacts ==
    ASSUME disp \in Seq(Dispatch), NEW S, NEW o \in Completion
    PROVE  /\ Settled(S, o) \in Seq(Dispatch)
           /\ DOMAIN Settled(S, o) = DOMAIN disp
           /\ Len(Settled(S, o)) = Len(disp)
           /\ \A t \in DOMAIN disp :
                /\ Settled(S, o)[t].keys = disp[t].keys
                /\ Settled(S, o)[t].proc = disp[t].proc
                /\ Settled(S, o)[t].inc = disp[t].inc
<1> DEFINE f == Settled(S, o)
<1>1. disp \in [1 .. Len(disp) -> Dispatch] /\ Len(disp) \in Nat
  BY LenProperties
<1>2. f \in [1 .. Len(disp) -> Dispatch]
  BY <1>1 DEF Settled, Dispatch, Completion
<1>3. f \in Seq(Dispatch)
  BY <1>1, <1>2, SeqDef
<1>4. DOMAIN f = 1 .. Len(disp) /\ DOMAIN disp = 1 .. Len(disp)
  BY <1>1, <1>2
<1>5. Len(f) = Len(disp)
  BY <1>1, <1>3, <1>4, LenProperties
<1>6. \A t \in DOMAIN disp :
        f[t].keys = disp[t].keys /\ f[t].proc = disp[t].proc /\ f[t].inc = disp[t].inc
  BY <1>1 DEF Settled, Dispatch
<1> QED BY <1>3, <1>4, <1>5, <1>6

(* What SeqSet makes of the operations on a queue. *)
LEMMA SeqSetFacts ==
    ASSUME NEW S, NEW s \in Seq(S)
    PROVE  /\ SeqSet(s) \subseteq S
           /\ SeqSet(<<>>) = {}
           /\ \A e \in S : SeqSet(Append(s, e)) = SeqSet(s) \cup {e}
           /\ s # <<>> => /\ Head(s) \in SeqSet(s)
                          /\ SeqSet(Tail(s)) \subseteq SeqSet(s)
<1>1. SeqSet(s) \subseteq S /\ SeqSet(<<>>) = {}
  BY DEF SeqSet
<1>2. ASSUME NEW e \in S PROVE SeqSet(Append(s, e)) = SeqSet(s) \cup {e}
  <2>1. DOMAIN s = 1 .. Len(s) /\ Len(s) \in Nat
    OBVIOUS
  <2>2. /\ DOMAIN Append(s, e) = 1 .. Len(s) + 1
        /\ \A n \in 1 .. Len(s) : Append(s, e)[n] = s[n]
        /\ Append(s, e)[Len(s) + 1] = e
    BY <2>1
  <2> QED BY <2>1, <2>2 DEF SeqSet
<1>3. s # <<>> => Head(s) \in SeqSet(s) /\ SeqSet(Tail(s)) \subseteq SeqSet(s)
  BY DEF SeqSet
<1> QED BY <1>1, <1>2, <1>3

(* Appending to a queue adds to the set of what waits in it. *)
LEMMA SeqSetAppend ==
    ASSUME NEW S, NEW s \in Seq(S), NEW e \in S
    PROVE  Append(s, e) \in Seq(S) /\ SeqSet(Append(s, e)) = SeqSet(s) \cup {e}
BY SeqSetFacts

(* The tokens a queue holds. *)
Waiting(q) == SeqSet(q.pending) \cup SeqSet(q.deferred)

(* submit() appends one dispatch and changes no other. *)
LEMMA AppendedFacts ==
    ASSUME NEW q \in Queue, NEW t \in Token
    PROVE  /\ Placed(q, t) \in Queue /\ Waiting(Placed(q, t)) = Waiting(q) \cup {t}
           /\ Started(q, t) \in Queue /\ Waiting(Started(q, t)) = Waiting(q) \cup {t}
<1>1. PICK pe \in Seq(Token), de \in Seq(Token), v \in Token \cup {NoToken} :
        q = [pending |-> pe, deferred |-> de, worker |-> v]
  BY DEF Queue
<1>2. PICK pt \in Seq(Token) : pt = Append(pe, t) /\ SeqSet(pt) = SeqSet(pe) \cup {t}
  BY SeqSetAppend
<1>3. PICK dt \in Seq(Token) : dt = Append(de, t) /\ SeqSet(dt) = SeqSet(de) \cup {t}
  BY SeqSetAppend
<1>4. /\ Started(q, t) \in Queue
      /\ Started(q, t).pending = pt /\ Started(q, t).deferred = de
  BY <1>1, <1>2 DEF Started, Queue
<1>5. /\ Placed(q, t) \in Queue
      /\ \/ Placed(q, t).pending = pt /\ Placed(q, t).deferred = de
         \/ Placed(q, t).pending = pe /\ Placed(q, t).deferred = dt
  <2>1. CASE Stopping(q.worker)
    BY <1>1, <1>2, <1>3, <2>1 DEF Placed, Queue
  <2>2. CASE ~Stopping(q.worker)
    BY <1>1, <1>2, <1>3, <2>2 DEF Placed, Queue
  <2> QED BY <2>1, <2>2
<1> QED BY <1>1, <1>2, <1>3, <1>4, <1>5 DEF Waiting

(* _drain() takes the head of a queue and leaves the rest. *)
LEMMA TakenFacts ==
    ASSUME NEW q \in Queue, q.pending # <<>>
    PROVE  /\ Head(q.pending) \in Waiting(q)
           /\ [q EXCEPT !.pending = Tail(@)] \in Queue
           /\ Waiting([q EXCEPT !.pending = Tail(@)]) \subseteq Waiting(q)
<1>1. PICK pe \in Seq(Token), de \in Seq(Token), v \in Token \cup {NoToken} :
        q = [pending |-> pe, deferred |-> de, worker |-> v]
  BY DEF Queue
<1> DEFINE r == [q EXCEPT !.pending = Tail(@)]
<1>2. pe # <<>>
  BY <1>1
<1>3. Head(pe) \in SeqSet(pe) /\ SeqSet(Tail(pe)) \subseteq SeqSet(pe)
  BY <1>2, SeqSetFacts
<1>4. Tail(pe) \in Seq(Token)
  BY <1>2
<1>5. r \in Queue /\ r.pending = Tail(pe) /\ r.deferred = de
  BY <1>1, <1>4 DEF Queue
<1> QED BY <1>1, <1>3, <1>5 DEF Waiting

-----------------------------------------------------------------------------
(* The shape of the state: types, and who owns the names in loop and queue. *)
Of(p, t) == t \in DOMAIN disp /\ disp[t].proc = p

LoopOwnsItsToken ==
    \A p \in Procs :
        loop[p].op \in {"admitted", "drain", "invoke"} => Of(p, loop[p].tok)

QueuesHoldOwnTokens ==
    \A p \in Procs, i \in Incidents :
        \A t \in Waiting(queue[p][i]) : Of(p, t)

Shape == TypeOK /\ LoopOwnsItsToken /\ QueuesHoldOwnTokens

(* A step keeps the dispatches it finds, completions aside. *)
Kept ==
    /\ disp' \in Seq(Dispatch) /\ DOMAIN disp \subseteq DOMAIN disp'
    /\ Len(disp') <= MaxDispatch
    /\ \A t \in DOMAIN disp : /\ disp'[t].keys = disp[t].keys
                              /\ disp'[t].proc = disp[t].proc
                              /\ disp'[t].inc = disp[t].inc

(* Dispatches are named by tokens. *)
LEMMA TokensOfDisp ==
    ASSUME TypeOK
    PROVE  DOMAIN disp \subseteq Token /\ DOMAIN disp = 1 .. Len(disp) /\ Len(disp) \in Nat
BY BoundsAssumption, LenProperties DEF TypeOK, Token

(* Settling keeps the dispatches typed. *)
LEMMA SettledKeeps ==
    ASSUME TypeOK, NEW S, NEW o \in Completion, disp' = Settled(S, o)
    PROVE  Kept
BY SettledFacts DEF TypeOK, Kept

(* Settling two groups of dispatches keeps them typed. *)
LEMMA SettledTwoKeeps ==
    ASSUME TypeOK, NEW S, NEW R, disp' = SettledTwo(S, R)
    PROVE  Kept
<1>1. \A T : \A o \in Completion :
        /\ Settled(T, o) \in [1 .. Len(disp) -> Dispatch]
        /\ \A t \in DOMAIN disp : /\ Settled(T, o)[t].keys = disp[t].keys
                                  /\ Settled(T, o)[t].proc = disp[t].proc
                                  /\ Settled(T, o)[t].inc = disp[t].inc
  BY SettledFacts, LenProperties DEF TypeOK
<1>2. DOMAIN disp = 1 .. Len(disp) /\ Len(disp) \in Nat
  BY TokensOfDisp
<1>3. disp' \in [1 .. Len(disp) -> Dispatch]
  BY <1>1, <1>2 DEF SettledTwo, Completion
<1>4. disp' \in Seq(Dispatch)
  BY <1>2, <1>3, SeqDef
<1>5. DOMAIN disp' = DOMAIN disp /\ Len(disp') = Len(disp)
  BY <1>2, <1>3, <1>4, LenProperties
<1>6. \A t \in DOMAIN disp : /\ disp'[t].keys = disp[t].keys
                             /\ disp'[t].proc = disp[t].proc
                             /\ disp'[t].inc = disp[t].inc
  BY <1>1 DEF SettledTwo, Completion
<1> QED BY <1>4, <1>5, <1>6 DEF Kept, TypeOK

(* An admission keeps rows typed and the rows of other tokens. *)
LEMMA AdmitKeeps ==
    ASSUME TypeOK, NEW p \in Procs, NEW i \in Incidents, NEW K \in SUBSET Keys,
           SubmitAdmit(p, i, K)
    PROVE  /\ Kept
           /\ DOMAIN disp' = DOMAIN disp \cup {Len(disp) + 1}
           /\ Len(disp) + 1 \in Token \ DOMAIN disp
           /\ disp'[Len(disp) + 1].proc = p
           /\ disp'[Len(disp) + 1].keys = Fresh(K)
<1> DEFINE d == [proc |-> p, inc |-> i, keys |-> Fresh(K), completion |-> "pending"]
<1>1. d \in Dispatch
  BY DEF Dispatch, Fresh
<1>2. disp \in Seq(Dispatch) /\ disp' = Append(disp, d) /\ Len(disp) + 1 \in Token
  BY DEF TypeOK, SubmitAdmit
<1>3. /\ disp' \in Seq(Dispatch) /\ Len(disp') = Len(disp) + 1
      /\ DOMAIN disp = 1 .. Len(disp) /\ DOMAIN disp' = 1 .. Len(disp) + 1
      /\ \A t \in DOMAIN disp : disp'[t] = disp[t]
      /\ disp'[Len(disp) + 1] = d /\ Len(disp) \in Nat
  BY <1>1, <1>2
<1> QED BY <1>2, <1>3, BoundsAssumption DEF Kept, Token

LEMMA ShapeInit == Init => Shape
<1> SUFFICES ASSUME Init PROVE Shape
  OBVIOUS
<1> USE DEF Init, NoRow, NoQueue, NoTask, Idle
<1>1. TypeOK
  BY BoundsAssumption DEF TypeOK, Row, Queue, Task, Loop, NoToken
<1>2. LoopOwnsItsToken
  BY DEF LoopOwnsItsToken
<1>3. QueuesHoldOwnTokens
  BY DEF QueuesHoldOwnTokens, Waiting, SeqSet
<1> QED BY <1>1, <1>2, <1>3 DEF Shape

(* Whoever owned a token before a step owns it after. *)
LEMMA OfKept ==
    ASSUME Kept, NEW p, NEW t, Of(p, t)
    PROVE  Of(p, t)'
BY DEF Kept, Of

(* The fields of a dispatch have their types. *)
LEMMA DispatchFields ==
    ASSUME TypeOK, NEW t \in DOMAIN disp
    PROVE  /\ disp[t] \in Dispatch /\ disp[t].proc \in Procs
           /\ disp[t].inc \in Incidents /\ t \in Token
<1>1. disp \in Seq(Dispatch) /\ t \in 1 .. Len(disp)
  BY TokensOfDisp DEF TypeOK
<1>2. disp[t] \in Dispatch
  BY <1>1, ElementOfSeq
<1> QED BY <1>2, TokensOfDisp DEF Dispatch

(* A fault takes one from its bound. *)
LEMMA FaultType ==
    ASSUME TypeOK, Fault
    PROVE  budget' \in [faults : 0 .. MaxFaults, cancels : 0 .. MaxCancels,
                        crashes : 0 .. MaxCrashes]
<1>1. budget.faults \in 0 .. MaxFaults /\ budget.faults > 0
  BY DEF TypeOK, Fault
<1>2. budget.faults - 1 \in 0 .. MaxFaults
  BY <1>1, BoundsAssumption
<1> QED BY <1>2 DEF TypeOK, Fault

(* Replacing one queue by one that holds tokens of its process only. *)
LEMMA QueueReplaced ==
    ASSUME TypeOK, QueuesHoldOwnTokens, Kept,
           NEW p \in Procs, NEW i \in Incidents, NEW q \in Queue,
           \A u \in Waiting(q) : Of(p, u),
           queue' = [queue EXCEPT ![p][i] = q]
    PROVE  queue' \in [Procs -> [Incidents -> Queue]] /\ QueuesHoldOwnTokens'
<1>1. queue' \in [Procs -> [Incidents -> Queue]]
  BY DEF TypeOK
<1>2. ASSUME NEW r \in Procs, NEW j \in Incidents,
             NEW u \in Waiting(queue'[r][j])
      PROVE  Of(r, u)'
  <2>1. Of(r, u)
    BY DEF TypeOK, QueuesHoldOwnTokens
  <2> QED BY <2>1, OfKept
<1> QED BY <1>1, <1>2 DEF QueuesHoldOwnTokens, Waiting, SeqSet

(* An empty queue is a queue without tokens. *)
LEMMA NoQueueFacts ==
    /\ NoQueue \in Queue
    /\ Waiting(NoQueue) = {}
BY DEF NoQueue, Waiting, Queue, NoToken, SeqSet

LEMMA ShapeSubmitAdmit ==
    ASSUME Shape, NEW p \in Procs, NEW i \in Incidents, NEW K \in SUBSET Keys,
           SubmitAdmit(p, i, K)
    PROVE  Shape'
<1> USE DEF Shape
<1>1. Kept
  BY AdmitKeeps
<1>2. TypeOK'
  <2>1. adm' \in [Keys -> Row]
    BY DEF TypeOK, SubmitAdmit, Admitted, Row
  <2>2. loop' \in [Procs -> Loop]
    BY DEF TypeOK, SubmitAdmit, At, Loop
  <2> QED BY <1>1, <2>1, <2>2 DEF TypeOK, SubmitAdmit, Kept
<1>3. LoopOwnsItsToken'
  BY <1>1, AdmitKeeps, OfKept DEF TypeOK, LoopOwnsItsToken, SubmitAdmit, At, Of
<1>4. QueuesHoldOwnTokens'
  BY <1>1, OfKept DEF QueuesHoldOwnTokens, SubmitAdmit
<1> QED BY <1>2, <1>3, <1>4

LEMMA ShapePreparationFails ==
    ASSUME Shape, NEW p \in Procs, PreparationFails(p)
    PROVE  Shape'
<1> USE DEF Shape
<1>1. Kept
  BY SettledKeeps DEF PreparationFails, Completion
<1>2. TypeOK'
  <2>1. loop' \in [Procs -> Loop]
    BY TokensOfDisp DEF TypeOK, PreparationFails, Undoing, Idle, Loop, LoopOwnsItsToken, Of
  <2> QED BY <1>1, <2>1, FaultType DEF TypeOK, PreparationFails, Kept
<1>3. LoopOwnsItsToken'
  BY <1>1, OfKept DEF TypeOK, LoopOwnsItsToken, PreparationFails, Undoing, Idle
<1>4. QueuesHoldOwnTokens'
  BY <1>1, OfKept DEF QueuesHoldOwnTokens, PreparationFails
<1> QED BY <1>2, <1>3, <1>4

LEMMA ShapeSubmitJoin ==
    ASSUME Shape, NEW p \in Procs, SubmitJoin(p)
    PROVE  Shape'
<1> USE DEF Shape
<1> DEFINE t == loop[p].tok  i == disp[t].inc  q == Placed(queue[p][i], t)
<1>1. Kept
  BY DEF SubmitJoin, Kept, TypeOK
<1>2. Of(p, t)
  BY DEF LoopOwnsItsToken, SubmitJoin
<1>3. t \in Token /\ i \in Incidents
  BY <1>2, DispatchFields DEF Of
<1>4. queue[p][i] \in Queue
  BY <1>3 DEF TypeOK
<1>5. q \in Queue /\ Waiting(q) = Waiting(queue[p][i]) \cup {t}
  BY <1>3, <1>4, AppendedFacts
<1>6. queue' \in [Procs -> [Incidents -> Queue]] /\ QueuesHoldOwnTokens'
  <2>1. \A u \in Waiting(q) : Of(p, u)
    BY <1>2, <1>3, <1>5 DEF QueuesHoldOwnTokens
  <2>2. queue' = [queue EXCEPT ![p][i] = q]
    BY <1>3 DEF SubmitJoin, TypeOK
  <2> QED BY <1>1, <1>3, <1>5, <2>1, <2>2, QueueReplaced
<1>7. TypeOK'
  <2>1. loop' \in [Procs -> Loop]
    BY DEF TypeOK, SubmitJoin, Idle, Loop, NoToken
  <2> QED BY <1>1, <1>6, <2>1 DEF TypeOK, SubmitJoin, Kept
<1>8. LoopOwnsItsToken'
  BY <1>1, OfKept DEF TypeOK, LoopOwnsItsToken, SubmitJoin, Idle
<1> QED BY <1>6, <1>7, <1>8

LEMMA ShapeSubmitStart ==
    ASSUME Shape, NEW p \in Procs, SubmitStart(p)
    PROVE  Shape'
<1> USE DEF Shape
<1> DEFINE t == loop[p].tok  i == disp[t].inc
           q == Started(queue[p][i], t)
<1>1. Of(p, t)
  BY DEF LoopOwnsItsToken, SubmitStart
<1>2. t \in Token /\ i \in Incidents
  BY <1>1, DispatchFields DEF Of
<1>3. queue[p][i] \in Queue
  BY <1>2 DEF TypeOK
<1>4. processing' \in [Procs -> [Incidents -> BOOLEAN]]
  <2>1. processing \in [Procs -> [Incidents -> BOOLEAN]]
    BY DEF TypeOK
  <2>2. PICK b \in BOOLEAN : processing' = [processing EXCEPT ![p][i] = b]
    BY DEF SubmitStart
  <2> QED BY <2>1, <2>2
<1>5. CASE UNCHANGED <<disp, budget>> /\ queue' = [queue EXCEPT ![p][i] = q]
           /\ task' = Created(t) /\ loop' = [loop EXCEPT ![p] = Idle]
  <2>1. Kept
    BY <1>5 DEF Kept, TypeOK
  <2>2. q \in Queue /\ Waiting(q) = Waiting(queue[p][i]) \cup {t}
    BY <1>2, <1>3, AppendedFacts
  <2>3. queue' \in [Procs -> [Incidents -> Queue]] /\ QueuesHoldOwnTokens'
    <3>1. \A u \in Waiting(q) : Of(p, u)
      BY <1>1, <1>2, <2>2 DEF QueuesHoldOwnTokens
    <3> QED BY <1>2, <1>5, <2>1, <2>2, <3>1, QueueReplaced
  <2>4. TypeOK'
    <3>1. loop' \in [Procs -> Loop]
      BY <1>5 DEF TypeOK, Idle, Loop, NoToken
    <3>2. task' \in [Token -> Task]
      BY <1>2, <1>5 DEF TypeOK, Created, NoTask, Task, NoToken
    <3> QED BY <1>4, <1>5, <2>1, <2>3, <3>1, <3>2 DEF TypeOK, SubmitStart, Kept
  <2>5. LoopOwnsItsToken'
    BY <1>5, <2>1, OfKept DEF TypeOK, LoopOwnsItsToken, Idle
  <2> QED BY <2>3, <2>4, <2>5
<1>6. CASE /\ Fault /\ queue' = [queue EXCEPT ![p][i] = NoQueue]
           /\ disp' = Settled({t}, "cancelled")
           /\ loop' = [loop EXCEPT ![p] = Undoing({t})] /\ UNCHANGED task
  <2>1. Kept
    BY <1>6, SettledKeeps DEF Completion
  <2>2. queue' \in [Procs -> [Incidents -> Queue]] /\ QueuesHoldOwnTokens'
    BY <1>2, <1>6, <2>1, QueueReplaced, NoQueueFacts
  <2>3. TypeOK'
    <3>1. loop' \in [Procs -> Loop]
      BY <1>2, <1>6 DEF TypeOK, Undoing, Idle, Loop, NoToken
    <3> QED BY <1>4, <1>6, <2>1, <2>2, <3>1, FaultType DEF TypeOK, SubmitStart, Kept
  <2>4. LoopOwnsItsToken'
    BY <1>6, <2>1, OfKept DEF TypeOK, LoopOwnsItsToken, Undoing, Idle
  <2> QED BY <2>2, <2>3, <2>4
<1> QED BY <1>5, <1>6 DEF SubmitStart

LEMMA ShapeRollback ==
    ASSUME Shape, NEW p \in Procs, Rollback(p)
    PROVE  Shape'
<1> USE DEF Shape
<1>1. Kept
  BY DEF Rollback, Kept, TypeOK
<1>2. PICK t \in loop[p].undo :
        /\ loop' = [loop EXCEPT ![p] = Undoing(@.undo \ {t})]
        /\ \/ adm' = RolledBack(t) /\ UNCHANGED budget
           \/ Fault /\ UNCHANGED adm
  BY DEF Rollback
<1>3. adm' \in [Keys -> Row]
  BY <1>2 DEF TypeOK, RolledBack, NoRow, Row
<1>4. loop' \in [Procs -> Loop]
  BY <1>2 DEF TypeOK, Undoing, Idle, Loop, NoToken
<1>5. budget' \in [faults : 0 .. MaxFaults, cancels : 0 .. MaxCancels, crashes : 0 .. MaxCrashes]
  BY <1>2, FaultType DEF TypeOK
<1>6. TypeOK'
  BY <1>3, <1>4, <1>5 DEF TypeOK, Rollback
<1>7. LoopOwnsItsToken'
  BY <1>1, <1>2, OfKept DEF TypeOK, LoopOwnsItsToken, Undoing, Idle
<1>8. QueuesHoldOwnTokens'
  BY <1>1, OfKept DEF QueuesHoldOwnTokens, Rollback
<1> QED BY <1>6, <1>7, <1>8

(* Types of single updates. *)
LEMMA LoopSet ==
    ASSUME TypeOK, NEW p \in Procs, NEW op \in {"admitted", "drain", "invoke"},
           NEW t \in Token
    PROVE  /\ Idle \in Loop /\ At(op, t) \in Loop
           /\ [loop EXCEPT ![p] = Idle] \in [Procs -> Loop]
           /\ [loop EXCEPT ![p] = At(op, t)] \in [Procs -> Loop]
BY DEF TypeOK, Idle, At, Loop, NoToken

LEMMA ReleaseShape ==
    ASSUME Shape, NEW p \in Procs, NEW i \in Incidents, NEW S, Release(p, i, S)
    PROVE  /\ Kept
           /\ queue' \in [Procs -> [Incidents -> Queue]] /\ QueuesHoldOwnTokens'
           /\ processing' \in [Procs -> [Incidents -> BOOLEAN]]
<1> USE DEF Shape
<1>1. Kept
  BY SettledKeeps DEF Release, Completion
<1>2. queue' \in [Procs -> [Incidents -> Queue]] /\ QueuesHoldOwnTokens'
  BY <1>1, QueueReplaced, NoQueueFacts DEF Release
<1>3. processing' \in [Procs -> [Incidents -> BOOLEAN]]
  BY DEF TypeOK, Release
<1> QED BY <1>1, <1>2, <1>3

LEMMA LeaveDrainShape ==
    ASSUME Shape, NEW p \in Procs, NEW w \in DOMAIN disp, NEW S, LeaveDrain(p, w, S)
    PROVE  /\ Kept
           /\ queue' \in [Procs -> [Incidents -> Queue]] /\ QueuesHoldOwnTokens'
           /\ processing' \in [Procs -> [Incidents -> BOOLEAN]]
           /\ task' \in [Token -> Task]
<1> USE DEF Shape
<1> DEFINE i == disp[w].inc
<1>1. i \in Incidents /\ w \in Token
  BY DispatchFields
<1>2. task' \in [Token -> Task]
  BY <1>1 DEF TypeOK, LeaveDrain, Task, NoToken
<1>3. CASE FinishReturns(queue[p][i], w, FALSE)
  <2>1. disp' = Settled(S, "cancelled") /\ UNCHANGED <<queue, processing>>
    BY <1>3 DEF LeaveDrain
  <2>2. Kept
    BY <2>1, SettledKeeps DEF Completion
  <2>3. QueuesHoldOwnTokens'
    BY <2>1, <2>2, OfKept DEF QueuesHoldOwnTokens
  <2> QED BY <1>2, <2>1, <2>2, <2>3 DEF TypeOK
<1>4. CASE ~FinishReturns(queue[p][i], w, FALSE)
  <2>1. Release(p, i, S)
    BY <1>4 DEF LeaveDrain
  <2> QED BY <1>1, <1>2, <2>1, ReleaseShape
<1> QED BY <1>3, <1>4

LEMMA ShapeDrainTake ==
    ASSUME Shape, NEW p \in Procs, DrainTake(p)
    PROVE  Shape'
<1> USE DEF Shape
<1> DEFINE w == loop[p].tok  i == disp[w].inc  t == Head(queue[p][i].pending)
           q == [queue[p][i] EXCEPT !.pending = Tail(@)]
<1>1. Of(p, w) /\ w \in Token /\ i \in Incidents
  BY DispatchFields DEF LoopOwnsItsToken, DrainTake, Of
<1>2. /\ queue[p][i] \in Queue /\ t \in Waiting(queue[p][i])
      /\ q \in Queue /\ Waiting(q) \subseteq Waiting(queue[p][i])
  BY <1>1, TakenFacts DEF TypeOK, DrainTake
<1>3. Of(p, t) /\ t \in Token
  BY <1>1, <1>2, DispatchFields DEF QueuesHoldOwnTokens, Of
<1>4. queue' = [queue EXCEPT ![p][i] = q]
  BY <1>1 DEF DrainTake, TypeOK
<1>5. Kept /\ adm' \in [Keys -> Row] /\ task' \in [Token -> Task]
      /\ loop' \in [Procs -> Loop] /\ LoopOwnsItsToken'
      /\ budget' \in [faults : 0 .. MaxFaults, cancels : 0 .. MaxCancels, crashes : 0 .. MaxCrashes]
  <2>1. CASE /\ adm' = MarkedAttempted(t) /\ task' = [task EXCEPT ![w].tok = t]
             /\ loop' = [loop EXCEPT ![p] = At("invoke", w)] /\ UNCHANGED <<disp, budget>>
    <3>1. Kept
      BY <2>1 DEF Kept, TypeOK
    <3>2. adm' \in [Keys -> Row]
      BY <1>3, <2>1 DEF TypeOK, MarkedAttempted, Row
    <3>3. task' \in [Token -> Task]
      BY <1>1, <1>3, <2>1 DEF TypeOK, Task
    <3>4. loop' \in [Procs -> Loop]
      BY <1>1, <2>1, LoopSet
    <3>5. LoopOwnsItsToken'
      BY <1>1, <2>1, <3>1, OfKept DEF TypeOK, LoopOwnsItsToken, At
    <3> QED BY <2>1, <3>1, <3>2, <3>3, <3>4, <3>5 DEF TypeOK
  <2>2. CASE /\ Fault \/ UNCHANGED budget
             /\ disp' = Settled({t}, "exception") /\ UNCHANGED <<adm, task, loop>>
    <3>1. Kept
      BY <2>2, SettledKeeps DEF Completion
    <3>2. LoopOwnsItsToken'
      BY <2>2, <3>1, OfKept DEF LoopOwnsItsToken
    <3>3. budget' \in [faults : 0 .. MaxFaults, cancels : 0 .. MaxCancels, crashes : 0 .. MaxCrashes]
      BY <2>2, FaultType DEF TypeOK
    <3> QED BY <2>2, <3>1, <3>2, <3>3 DEF TypeOK
  <2> QED BY <2>1, <2>2 DEF DrainTake
<1>6. queue' \in [Procs -> [Incidents -> Queue]] /\ QueuesHoldOwnTokens'
  <2>1. \A u \in Waiting(q) : Of(p, u)
    BY <1>1, <1>2 DEF QueuesHoldOwnTokens
  <2> QED BY <1>1, <1>2, <1>4, <1>5, <2>1, QueueReplaced
<1>7. TypeOK'
  BY <1>5, <1>6 DEF TypeOK, DrainTake, Kept
<1> QED BY <1>5, <1>6, <1>7

LEMMA ShapeDrainReturn ==
    ASSUME Shape, NEW p \in Procs, DrainReturn(p)
    PROVE  Shape'
<1> USE DEF Shape
<1> DEFINE w == loop[p].tok
<1>1. w \in DOMAIN disp /\ LeaveDrain(p, w, {})
  BY DEF LoopOwnsItsToken, DrainReturn, Of
<1>2. /\ Kept /\ queue' \in [Procs -> [Incidents -> Queue]] /\ QueuesHoldOwnTokens'
      /\ processing' \in [Procs -> [Incidents -> BOOLEAN]] /\ task' \in [Token -> Task]
  BY <1>1, LeaveDrainShape
<1>3. loop' \in [Procs -> Loop]
  BY DEF DrainReturn, TypeOK, Idle, Loop, NoToken
<1>4. TypeOK'
  BY <1>2, <1>3 DEF TypeOK, DrainReturn, Kept
<1>5. LoopOwnsItsToken'
  BY <1>2, OfKept DEF TypeOK, LoopOwnsItsToken, DrainReturn, Idle
<1> QED BY <1>2, <1>4, <1>5

LEMMA ShapeInvokeHandler ==
    ASSUME Shape, NEW p \in Procs, InvokeHandler(p), task[loop[p].tok].tok \in Token
    PROVE  Shape'
<1> USE DEF Shape
<1>1. Kept
  BY DEF InvokeHandler, Kept, TypeOK
<1>2. loop' \in [Procs -> Loop]
  BY DEF InvokeHandler, TypeOK, Idle, Loop, NoToken
<1>3. TypeOK'
  BY <1>1, <1>2 DEF TypeOK, InvokeHandler, Kept
<1>4. LoopOwnsItsToken'
  BY <1>1, OfKept DEF TypeOK, LoopOwnsItsToken, InvokeHandler, Idle
<1>5. QueuesHoldOwnTokens'
  BY <1>1, OfKept DEF QueuesHoldOwnTokens, InvokeHandler
<1> QED BY <1>3, <1>4, <1>5

LEMMA ShapeWorkerFirstStep ==
    ASSUME Shape, NEW p \in Procs, NEW w \in DOMAIN disp, WorkerFirstStep(p, w)
    PROVE  Shape'
<1> USE DEF Shape
<1>1. Kept
  BY DEF WorkerFirstStep, Kept, TypeOK
<1>2. w \in Token
  BY DispatchFields
<1>3. task' \in [Token -> Task]
  <2> DEFINE stopped == [task[w] EXCEPT !.st = "done", !.must = FALSE]
             started == [task[w] EXCEPT !.st = "active"]
  <2>1. task[w] \in Task /\ task \in [Token -> Task]
    BY <1>2 DEF TypeOK
  <2>2. stopped \in Task /\ started \in Task
    BY <2>1 DEF Task
  <2>3. task' = [task EXCEPT ![w] = stopped] \/ task' = [task EXCEPT ![w] = started]
    BY DEF WorkerFirstStep
  <2> HIDE DEF stopped, started
  <2> QED BY <2>1, <2>2, <2>3
<1>4. loop' \in [Procs -> Loop]
  BY <1>2, LoopSet DEF WorkerFirstStep, TypeOK
<1>5. TypeOK'
  BY <1>1, <1>3, <1>4 DEF TypeOK, WorkerFirstStep, Kept
<1>6. LoopOwnsItsToken'
  <2>1. Of(p, w)
    BY DEF WorkerFirstStep, Of
  <2>2. loop' = loop \/ loop' = [loop EXCEPT ![p] = At("drain", w)]
    BY DEF WorkerFirstStep
  <2>3. At("drain", w).tok = w
    BY DEF At
  <2> QED BY <1>1, <2>1, <2>2, <2>3, OfKept DEF TypeOK, LoopOwnsItsToken
<1>7. QueuesHoldOwnTokens'
  BY <1>1, OfKept DEF QueuesHoldOwnTokens, WorkerFirstStep
<1> QED BY <1>5, <1>6, <1>7

LEMMA ShapeHandlerEnds ==
    ASSUME Shape, NEW p \in Procs, NEW w \in DOMAIN disp, HandlerEnds(p, w)
    PROVE  Shape'
<1> USE DEF Shape
<1>1. Kept
  BY SettledKeeps DEF HandlerEnds, Completion
<1>2. w \in Token /\ Of(p, w)
  BY DispatchFields DEF HandlerEnds, Awaiting, Of
<1>3. task' \in [Token -> Task]
  BY <1>2 DEF HandlerEnds, TypeOK, Task, NoToken
<1>4. loop' \in [Procs -> Loop]
  BY <1>2, LoopSet DEF HandlerEnds
<1>5. TypeOK'
  BY <1>1, <1>3, <1>4 DEF TypeOK, HandlerEnds, Kept
<1>6. LoopOwnsItsToken'
  BY <1>1, <1>2, OfKept DEF TypeOK, LoopOwnsItsToken, HandlerEnds, At
<1>7. QueuesHoldOwnTokens'
  BY <1>1, OfKept DEF QueuesHoldOwnTokens, HandlerEnds
<1> QED BY <1>5, <1>6, <1>7

LEMMA ShapeHandlerCancelled ==
    ASSUME Shape, NEW p \in Procs, NEW w \in DOMAIN disp, HandlerCancelled(p, w)
    PROVE  Shape'
<1> USE DEF Shape
<1>1. /\ Kept /\ queue' \in [Procs -> [Incidents -> Queue]] /\ QueuesHoldOwnTokens'
      /\ processing' \in [Procs -> [Incidents -> BOOLEAN]] /\ task' \in [Token -> Task]
  BY LeaveDrainShape DEF HandlerCancelled
<1>2. TypeOK'
  BY <1>1 DEF TypeOK, HandlerCancelled, Kept
<1>3. LoopOwnsItsToken'
  BY <1>1, OfKept DEF LoopOwnsItsToken, HandlerCancelled
<1> QED BY <1>1, <1>2, <1>3

(* The queue of a successor, and the settlements of its failed creation. *)
LEMMA HandedOver ==
    ASSUME NEW q \in Queue, q.deferred # <<>>
    PROVE  LET r == [pending |-> q.deferred, deferred |-> <<>>, worker |-> Head(q.deferred)]
           IN  /\ r \in Queue /\ Waiting(r) \subseteq Waiting(q)
               /\ Head(q.deferred) \in Token /\ Head(q.deferred) \in Waiting(q)
<1>1. q.deferred \in Seq(Token)
  BY DEF Queue
<1>2. Head(q.deferred) \in Token
  BY <1>1
<1>3. Head(q.deferred) \in SeqSet(q.deferred)
  BY <1>1, SeqSetFacts
<1> QED BY <1>1, <1>2, <1>3 DEF Queue, Waiting, SeqSet

LEMMA ShapeDoneCallback ==
    ASSUME Shape, NEW p \in Procs, NEW w \in DOMAIN disp, DoneCallback(p, w)
    PROVE  Shape'
<1> USE DEF Shape
<1> DEFINE i == disp[w].inc  q == queue[p][i]  first == Head(q.deferred)
           over == [task EXCEPT ![w].st = "gone"]
           r == [pending |-> q.deferred, deferred |-> <<>>, worker |-> first]
<1>1. w \in Token /\ i \in Incidents /\ q \in Queue
  BY DispatchFields DEF TypeOK
<1>2. over \in [Token -> Task]
  BY <1>1 DEF TypeOK, Task
<1>3. CASE task' = over /\ UNCHANGED <<disp, queue, loop, processing, budget>>
  <2>1. Kept
    BY <1>3 DEF Kept, TypeOK
  <2>2. TypeOK'
    BY <1>2, <1>3 DEF TypeOK, DoneCallback
  <2> QED BY <1>3, <2>1, <2>2, OfKept DEF LoopOwnsItsToken, QueuesHoldOwnTokens
<1>4. CASE task' = over /\ Release(p, i, {}) /\ UNCHANGED <<loop, budget>>
  <2>1. /\ Kept /\ queue' \in [Procs -> [Incidents -> Queue]] /\ QueuesHoldOwnTokens'
        /\ processing' \in [Procs -> [Incidents -> BOOLEAN]]
    BY <1>1, <1>4, ReleaseShape
  <2>2. TypeOK'
    BY <1>2, <1>4, <2>1 DEF TypeOK, DoneCallback, Kept
  <2> QED BY <1>4, <2>1, <2>2, OfKept DEF LoopOwnsItsToken
<1>5. CASE /\ q.deferred # <<>>
           /\ task' = [over EXCEPT ![first] = [NoTask EXCEPT !.st = "scheduled"]]
           /\ disp' = Settled(SeqSet(q.pending), "cancelled")
           /\ queue' = [queue EXCEPT ![p][i] = r]
           /\ UNCHANGED <<loop, processing, budget>>
  <2>1. Kept
    BY <1>5, SettledKeeps DEF Completion
  <2>2. r \in Queue /\ Waiting(r) \subseteq Waiting(q) /\ first \in Token
    BY <1>1, <1>5, HandedOver
  <2>3. queue' \in [Procs -> [Incidents -> Queue]] /\ QueuesHoldOwnTokens'
    <3>1. \A u \in Waiting(r) : Of(p, u)
      BY <1>1, <2>2 DEF QueuesHoldOwnTokens
    <3> QED BY <1>1, <1>5, <2>1, <2>2, <3>1, QueueReplaced
  <2>4. task' \in [Token -> Task]
    BY <1>2, <1>5 DEF NoTask, Task, NoToken
  <2>5. TypeOK'
    BY <1>5, <2>1, <2>3, <2>4 DEF TypeOK, DoneCallback, Kept
  <2> QED BY <1>5, <2>1, <2>3, <2>5, OfKept DEF LoopOwnsItsToken
<1>6. CASE /\ Fault /\ task' = over
           /\ disp' = SettledTwo(SeqSet(q.deferred), SeqSet(q.pending))
           /\ queue' = [queue EXCEPT ![p][i] = NoQueue]
           /\ processing' = [processing EXCEPT ![p][i] = FALSE]
           /\ loop' = [loop EXCEPT ![p] = Undoing(SeqSet(q.deferred))]
  <2>1. Kept
    BY <1>6, SettledTwoKeeps
  <2>2. queue' \in [Procs -> [Incidents -> Queue]] /\ QueuesHoldOwnTokens'
    BY <1>1, <1>6, <2>1, QueueReplaced, NoQueueFacts
  <2>3. SeqSet(q.deferred) \subseteq Token
    BY <1>1, SeqSetFacts DEF Queue
  <2>4. loop' \in [Procs -> Loop]
    BY <1>6, <2>3 DEF TypeOK, Undoing, Idle, Loop, NoToken
  <2>5. processing' \in [Procs -> [Incidents -> BOOLEAN]]
    BY <1>6 DEF TypeOK
  <2>6. TypeOK'
    BY <1>2, <1>6, <2>1, <2>2, <2>4, <2>5, FaultType DEF TypeOK, DoneCallback, Kept
  <2>7. LoopOwnsItsToken'
    BY <1>6, <2>1, OfKept DEF TypeOK, LoopOwnsItsToken, Undoing, Idle
  <2> QED BY <2>2, <2>6, <2>7
<1> QED BY <1>3, <1>4, <1>5, <1>6 DEF DoneCallback

LEMMA ShapeCancel ==
    ASSUME Shape, NEW p \in Procs, NEW w \in DOMAIN disp, Cancel(p, w)
    PROVE  Shape'
<1> USE DEF Shape
<1>1. Kept
  BY DEF Cancel, Kept, TypeOK
<1>2. task' \in [Token -> Task]
  <2> DEFINE marked == [task[w] EXCEPT !.cancelling = TRUE, !.must = TRUE]
  <2>1. w \in Token /\ task \in [Token -> Task]
    BY DispatchFields DEF TypeOK
  <2>2. marked \in Task
    BY <2>1 DEF Task
  <2>3. task' = [task EXCEPT ![w] = marked]
    BY DEF Cancel
  <2> HIDE DEF marked
  <2> QED BY ONLY <2>1, <2>2, <2>3
<1>3. budget' \in [faults : 0 .. MaxFaults, cancels : 0 .. MaxCancels, crashes : 0 .. MaxCrashes]
  <2>1. budget.cancels - 1 \in 0 .. MaxCancels
    BY BoundsAssumption DEF Cancel, TypeOK
  <2> QED BY <2>1 DEF Cancel, TypeOK
<1>4. TypeOK'
  BY <1>2, <1>3 DEF TypeOK, Cancel
<1> QED BY <1>1, <1>4, OfKept DEF LoopOwnsItsToken, QueuesHoldOwnTokens, Cancel

LEMMA ShapeCrash ==
    ASSUME Shape, NEW p \in Procs, Crash(p)
    PROVE  Shape'
<1> USE DEF Shape
<1>1. Kept
  BY SettledKeeps DEF Crash, Completion
<1>2. task' \in [Token -> Task]
  BY DEF Crash, TypeOK, Task, NoTask, NoToken
<1>3. budget' \in [faults : 0 .. MaxFaults, cancels : 0 .. MaxCancels, crashes : 0 .. MaxCrashes]
  <2>1. budget.crashes - 1 \in 0 .. MaxCrashes
    BY BoundsAssumption DEF Crash, TypeOK
  <2> QED BY <2>1 DEF Crash, TypeOK
<1>4. queue' \in [Procs -> [Incidents -> Queue]]
  BY NoQueueFacts DEF Crash, TypeOK
<1>5. processing' \in [Procs -> [Incidents -> BOOLEAN]] /\ loop' \in [Procs -> Loop]
  BY DEF Crash, TypeOK, Idle, Loop, NoToken
<1>6. TypeOK'
  BY <1>1, <1>2, <1>3, <1>4, <1>5 DEF TypeOK, Crash, Kept
<1>7. LoopOwnsItsToken'
  BY <1>1, OfKept DEF TypeOK, LoopOwnsItsToken, Crash, Idle
<1>8. QueuesHoldOwnTokens'
  BY <1>1, OfKept, NoQueueFacts DEF TypeOK, QueuesHoldOwnTokens, Crash, Waiting
<1> QED BY <1>6, <1>7, <1>8

-----------------------------------------------------------------------------
(* What the table, the observer and the dispatches say of each other. *)
SpentBy(t) == \A k \in disp[t].keys : adm[k] = [state |-> "attempted", token |-> t]

(* A token names a dispatch with occurrences; a row names such a token. *)
DispatchesHaveKeys ==
    \A t \in DOMAIN disp : disp[t].keys # {} /\ disp[t].keys \subseteq Keys
RowsMatchKeys ==
    \A k \in Keys : adm[k] # NoRow =>
        /\ adm[k].state \in {"queued", "attempted"}
        /\ adm[k].token \in DOMAIN disp /\ k \in disp[adm[k].token].keys

(* Every handler that was invoked has its rows attempted, and is there once. *)
LoggedAreSpent == \A n \in DOMAIN log : log[n] \in DOMAIN disp /\ SpentBy(log[n])
LoggedOnce == \A m, n \in DOMAIN log : m # n => log[m] # log[n]

(* Between mark_attempted and the call of the handler. *)
Invoking(p) == task[loop[p].tok].tok
ToBeInvoked ==
    \A p \in Procs : loop[p].op = "invoke" =>
        /\ Of(p, Invoking(p)) /\ SpentBy(Invoking(p))
        /\ \A n \in DOMAIN log : log[n] # Invoking(p)

Once == /\ DispatchesHaveKeys /\ RowsMatchKeys
        /\ LoggedAreSpent /\ LoggedOnce /\ ToBeInvoked

IInv == Shape /\ Once

LEMMA OnceInit == Init => Once
BY DEF Init, Once, DispatchesHaveKeys, RowsMatchKeys, LoggedAreSpent, LoggedOnce,
       ToBeInvoked, NoRow, Idle

(* A task belongs to one process and is told by it alone.  For the steps that  *)
(* leave the table and the observer as they are, and after which a process in  *)
(* front of an invocation was already there with the same dispatch.            *)
LEMMA OnceFramed ==
    ASSUME Shape, Once, Kept, DOMAIN disp' = DOMAIN disp, UNCHANGED <<adm, log>>,
           \A p \in Procs : loop'[p].op = "invoke" =>
               loop[p].op = "invoke" /\ Invoking(p)' = Invoking(p)
    PROVE  Once'
<1> USE DEF Once
<1>1. \A t \in DOMAIN disp : SpentBy(t) <=> SpentBy(t)'
  BY DEF Kept, SpentBy
<1>2. DispatchesHaveKeys' /\ RowsMatchKeys'
  BY DEF DispatchesHaveKeys, RowsMatchKeys, Kept
<1>3. LoggedAreSpent' /\ LoggedOnce'
  BY <1>1 DEF LoggedAreSpent, LoggedOnce
<1>4. ToBeInvoked'
  BY <1>1, OfKept DEF ToBeInvoked, Of
<1> QED BY <1>2, <1>3, <1>4

LEMMA OnceSubmitAdmit ==
    ASSUME Shape, Once, NEW p \in Procs, NEW i \in Incidents, NEW K \in SUBSET Keys,
           SubmitAdmit(p, i, K)
    PROVE  Once'
<1> USE DEF Shape, Once
<1> DEFINE t == Len(disp) + 1
<1>1. /\ Kept /\ DOMAIN disp' = DOMAIN disp \cup {t} /\ t \in Token
      /\ disp'[t].keys = Fresh(K) /\ Fresh(K) # {} /\ Fresh(K) \subseteq Keys
  BY AdmitKeeps DEF SubmitAdmit, Fresh
<1>2. \A k \in Keys : /\ k \in Fresh(K) => adm[k] = NoRow /\ adm'[k] = [state |-> "queued", token |-> t]
                      /\ k \notin Fresh(K) => adm'[k] = adm[k]
  BY DEF SubmitAdmit, Admitted, Fresh
<1>3. \A u \in DOMAIN disp : SpentBy(u) => SpentBy(u)'
  BY <1>1, <1>2 DEF SpentBy, Kept, DispatchesHaveKeys, NoRow
<1>4. DispatchesHaveKeys'
  BY <1>1 DEF DispatchesHaveKeys, Kept
<1>5. RowsMatchKeys'
  <2>1. ASSUME NEW k \in Keys, k \in Fresh(K)
        PROVE  /\ adm'[k].state = "queued" /\ adm'[k].token \in DOMAIN disp'
               /\ k \in disp'[adm'[k].token].keys
    BY <1>1, <1>2, <2>1
  <2>2. ASSUME NEW k \in Keys, k \notin Fresh(K), adm'[k] # NoRow
        PROVE  /\ adm'[k].state \in {"queued", "attempted"} /\ adm'[k].token \in DOMAIN disp'
               /\ k \in disp'[adm'[k].token].keys
    <3>1. adm'[k] = adm[k]
      BY <1>2, <2>2
    <3>2. /\ adm[k].state \in {"queued", "attempted"} /\ adm[k].token \in DOMAIN disp
          /\ k \in disp[adm[k].token].keys
      BY <2>2, <3>1 DEF RowsMatchKeys
    <3> QED BY <1>1, <3>1, <3>2 DEF Kept
  <2> QED BY <2>1, <2>2 DEF RowsMatchKeys, NoRow
<1>6. LoggedAreSpent' /\ LoggedOnce'
  BY <1>1, <1>3 DEF LoggedAreSpent, LoggedOnce, SubmitAdmit
<1>7. ToBeInvoked'
  <2> SUFFICES ASSUME NEW r \in Procs, loop'[r].op = "invoke"
               PROVE  /\ Of(r, Invoking(r))' /\ SpentBy(Invoking(r))'
                      /\ \A n \in DOMAIN log' : log'[n] # Invoking(r)'
    BY DEF ToBeInvoked
  <2>1. loop'[r] = loop[r] /\ Invoking(r)' = Invoking(r) /\ log' = log
    BY DEF SubmitAdmit, TypeOK, At, Invoking
  <2>2. Of(r, Invoking(r)) /\ SpentBy(Invoking(r)) /\ \A n \in DOMAIN log : log[n] # Invoking(r)
    BY <2>1 DEF ToBeInvoked
  <2>3. Of(r, Invoking(r))'
    BY <1>1, <2>1, <2>2 DEF Of, Kept
  <2>4. SpentBy(Invoking(r))'
    BY <1>3, <2>1, <2>2 DEF Of, SpentBy
  <2> QED BY <2>1, <2>2, <2>3, <2>4
<1> QED BY <1>4, <1>5, <1>6, <1>7

LEMMA OnceRollback ==
    ASSUME Shape, Once, NEW p \in Procs, Rollback(p)
    PROVE  Once'
<1> USE DEF Shape, Once
<1>1. UNCHANGED <<disp, log, task>>
  BY DEF Rollback
<1>2. \A k \in Keys : adm'[k] = adm[k] \/ (adm[k].state = "queued" /\ adm'[k] = NoRow)
  BY DEF Rollback, RolledBack
<1>3. \A t \in DOMAIN disp : SpentBy(t) => SpentBy(t)'
  BY <1>1, <1>2 DEF SpentBy, DispatchesHaveKeys
<1>4. \A r \in Procs : loop'[r].op = "invoke" => loop'[r] = loop[r]
  BY DEF Rollback, TypeOK, Undoing, Idle
<1>5. DispatchesHaveKeys' /\ RowsMatchKeys'
  BY <1>1, <1>2 DEF DispatchesHaveKeys, RowsMatchKeys
<1>6. LoggedAreSpent' /\ LoggedOnce'
  BY <1>1, <1>3 DEF LoggedAreSpent, LoggedOnce
<1>7. ToBeInvoked'
  BY <1>1, <1>3, <1>4 DEF ToBeInvoked, Invoking, Of
<1> QED BY <1>5, <1>6, <1>7

LEMMA OnceDrainTake ==
    ASSUME Shape, Once, Shape', NEW p \in Procs, DrainTake(p)
    PROVE  Once'
<1> USE DEF Shape, Once
<1> DEFINE w == loop[p].tok  i == disp[w].inc  t == Head(queue[p][i].pending)
<1>1. w \in Token /\ i \in Incidents
  BY DispatchFields DEF LoopOwnsItsToken, DrainTake, Of
<1>2. Of(p, t) /\ t \in DOMAIN disp /\ t \in Token
  <2>0. queue[p][i] \in Queue
    BY <1>1 DEF TypeOK
  <2>1. queue[p][i].pending # <<>>
    BY DEF DrainTake
  <2>2. t \in Waiting(queue[p][i])
    BY <2>0, <2>1, TakenFacts
  <2>3. Of(p, t)
    BY <1>1, <2>2 DEF QueuesHoldOwnTokens
  <2> QED BY <2>3, DispatchFields DEF Of
<1>3. CASE /\ CanMark(t) /\ adm' = MarkedAttempted(t) /\ task' = [task EXCEPT ![w].tok = t]
           /\ loop' = [loop EXCEPT ![p] = At("invoke", w)] /\ UNCHANGED <<disp, budget>>
  <2>1. w = loop[p].tok /\ Of(p, w)
    BY DEF LoopOwnsItsToken, DrainTake
  <2> HIDE DEF w, i, t
  <2>2. PICK c \in DOMAIN disp : c = t
    BY <1>2
  <2>3. /\ CanMark(c) /\ adm' = MarkedAttempted(c) /\ task' = [task EXCEPT ![w].tok = c]
         /\ Of(p, c) /\ c \in Token
    BY <1>2, <1>3, <2>2
  <2>4. disp[c].keys # {} /\ disp[c].keys \subseteq Keys
    BY DEF DispatchesHaveKeys
  <2>5. \A k \in Keys :
          /\ k \in disp[c].keys => /\ adm[k] = [state |-> "queued", token |-> c]
                                  /\ adm'[k] = [state |-> "attempted", token |-> c]
          /\ k \notin disp[c].keys => adm'[k] = adm[k]
    BY <1>3, <2>3 DEF CanMark, MarkedAttempted
  <2>6. SpentBy(c)' /\ ~SpentBy(c)
    BY <1>3, <2>3, <2>4, <2>5 DEF SpentBy
  <2>7. \A u \in DOMAIN disp : SpentBy(u) => SpentBy(u)'
    BY <1>3, <2>3, <2>5 DEF SpentBy, DispatchesHaveKeys
  <2>8. DispatchesHaveKeys' /\ RowsMatchKeys'
    BY <1>3, <2>3, <2>5 DEF DispatchesHaveKeys, RowsMatchKeys
  <2>9. UNCHANGED log
    BY DEF DrainTake
  <2>10. LoggedAreSpent' /\ LoggedOnce'
    BY <1>3, <2>3, <2>7, <2>9 DEF LoggedAreSpent, LoggedOnce
  <2>11. ToBeInvoked'
    <3> SUFFICES ASSUME NEW r \in Procs, loop'[r].op = "invoke"
                 PROVE  /\ Of(r, Invoking(r))' /\ SpentBy(Invoking(r))'
                        /\ \A n \in DOMAIN log' : log'[n] # Invoking(r)'
      BY DEF ToBeInvoked
    <3>1. CASE r = p
      <4>1. Invoking(r)' = c
        <5>1. loop'[p].tok = w
          BY <1>3, <2>3 DEF TypeOK, At
        <5>2. task'[w].tok = c
          BY <1>1, <1>3, <2>3 DEF TypeOK, Task
        <5> QED BY <3>1, <5>1, <5>2 DEF Invoking
      <4>2. \A n \in DOMAIN log : log[n] # c
        BY <2>6 DEF LoggedAreSpent
      <4> QED BY <1>3, <2>3, <2>6, <2>9, <3>1, <4>1, <4>2 DEF Of, SpentBy
    <3>2. CASE r # p
      <4>1. loop'[r] = loop[r]
        BY <1>3, <2>3, <3>2 DEF TypeOK
      <4>2. Of(r, loop[r].tok) /\ Of(p, w)
        BY <2>1, <4>1 DEF LoopOwnsItsToken
      <4>3. loop[r].tok # w
        BY <3>2, <4>2 DEF Of
      <4>4. Invoking(r)' = Invoking(r)
        <5>1. loop[r].tok \in Token
          BY <4>2, DispatchFields DEF Of
        <5>2. task'[loop[r].tok] = task[loop[r].tok]
          BY <1>3, <2>3, <4>3, <5>1 DEF TypeOK
        <5> QED BY <4>1, <5>2 DEF Invoking
      <4>5. Of(r, Invoking(r)) /\ SpentBy(Invoking(r)) /\ \A n \in DOMAIN log : log[n] # Invoking(r)
        BY <4>1 DEF ToBeInvoked
      <4> QED BY <1>3, <2>3, <2>7, <2>9, <4>4, <4>5 DEF Of, SpentBy
    <3> QED BY <3>1, <3>2
  <2> QED BY <2>8, <2>10, <2>11
<1>4. CASE disp' = Settled({t}, "exception") /\ UNCHANGED <<adm, task, loop>>
  <2>1. Kept /\ DOMAIN disp' = DOMAIN disp
    BY <1>4, SettledKeeps, SettledFacts DEF Completion, TypeOK
  <2>2. \A r \in Procs : loop'[r].op = "invoke" =>
           loop[r].op = "invoke" /\ Invoking(r)' = Invoking(r)
    BY <1>4 DEF Invoking
  <2>3. UNCHANGED <<adm, log>>
    BY <1>4 DEF DrainTake
  <2> QED BY <2>1, <2>2, <2>3, OnceFramed
<1> QED BY <1>3, <1>4 DEF DrainTake

LEMMA OnceInvokeHandler ==
    ASSUME Shape, Once, NEW p \in Procs, InvokeHandler(p)
    PROVE  Once' /\ Invoking(p) \in Token
<1> USE DEF Shape, Once
<1> DEFINE t == Invoking(p)
<1>1. Of(p, t) /\ SpentBy(t) /\ \A n \in DOMAIN log : log[n] # t
  BY DEF ToBeInvoked, InvokeHandler
<1>2. t \in DOMAIN disp /\ t \in Token
  BY <1>1, DispatchFields DEF Of
<1>3. log' = Append(log, t) /\ UNCHANGED <<adm, disp, task>>
      /\ loop' = [loop EXCEPT ![p] = Idle]
  BY DEF InvokeHandler, Invoking
<1>4. /\ DOMAIN log = 1 .. Len(log) /\ Len(log) \in Nat
      /\ DOMAIN log' = 1 .. Len(log) + 1
      /\ \A n \in DOMAIN log : log'[n] = log[n]
      /\ log'[Len(log) + 1] = t
  <2> HIDE DEF t
  <2> QED BY <1>2, <1>3 DEF TypeOK
<1>5. \A u \in DOMAIN disp : SpentBy(u) => SpentBy(u)'
  BY <1>3 DEF SpentBy
<1>6. DispatchesHaveKeys' /\ RowsMatchKeys'
  BY <1>3 DEF DispatchesHaveKeys, RowsMatchKeys
<1>7. LoggedAreSpent' /\ LoggedOnce'
  <2> HIDE DEF t
  <2>1. \A n \in DOMAIN log' : n \in DOMAIN log \/ n = Len(log) + 1
    BY <1>4
  <2>2. LoggedAreSpent'
    BY <1>1, <1>2, <1>3, <1>4, <1>5, <2>1 DEF LoggedAreSpent
  <2>3. LoggedOnce'
    BY <1>1, <1>4, <2>1 DEF LoggedOnce
  <2> QED BY <2>2, <2>3
<1>8. ToBeInvoked'
  <2> SUFFICES ASSUME NEW r \in Procs, loop'[r].op = "invoke"
               PROVE  /\ Of(r, Invoking(r))' /\ SpentBy(Invoking(r))'
                      /\ \A n \in DOMAIN log' : log'[n] # Invoking(r)'
    BY DEF ToBeInvoked
  <2>1. r # p /\ loop'[r] = loop[r]
    BY <1>3 DEF TypeOK, Idle
  <2>2. Of(r, Invoking(r)) /\ SpentBy(Invoking(r)) /\ \A n \in DOMAIN log : log[n] # Invoking(r)
    BY <2>1 DEF ToBeInvoked
  <2>3. Invoking(r)' = Invoking(r)
    BY <1>3, <2>1 DEF Invoking
  <2>4. Invoking(r) # t
    BY <1>1, <2>1, <2>2 DEF Of
  <2>5. \A n \in DOMAIN log' : log'[n] # Invoking(r)
    <3> HIDE DEF t
    <3> QED BY <1>4, <2>2, <2>4
  <2> QED BY <1>3, <1>5, <2>2, <2>3, <2>5 DEF Of, SpentBy
<1> QED BY <1>2, <1>6, <1>7, <1>8

(* Steps of one process that leave the table and the observer alone: they do  *)
(* not touch the tasks that the other processes are about to invoke.          *)
LEMMA OnceOtherSteps ==
    ASSUME Shape, Once, Kept, DOMAIN disp' = DOMAIN disp, UNCHANGED <<adm, log>>,
           NEW p \in Procs, loop'[p].op # "invoke",
           \A r \in Procs : r # p => loop'[r] = loop[r],
           \A t \in DOMAIN disp : disp[t].proc # p => task'[t] = task[t]
    PROVE  Once'
<1>1. ASSUME NEW r \in Procs, loop'[r].op = "invoke"
      PROVE  loop[r].op = "invoke" /\ Invoking(r)' = Invoking(r)
  <2>1. r # p /\ loop'[r] = loop[r]
    BY <1>1
  <2>2. Of(r, loop[r].tok)
    BY <1>1, <2>1 DEF Shape, LoopOwnsItsToken
  <2>3. task'[loop[r].tok] = task[loop[r].tok]
    BY <2>1, <2>2 DEF Of
  <2> QED BY <1>1, <2>1, <2>3 DEF Invoking
<1> QED BY <1>1, OnceFramed

LEMMA OnceSubmits ==
    ASSUME Shape, Once, NEW p \in Procs,
           PreparationFails(p) \/ SubmitJoin(p) \/ SubmitStart(p)
    PROVE  Once'
<1> USE DEF Shape
<1> DEFINE t == loop[p].tok
<1>1. Of(p, t) /\ loop[p].op # "invoke"
  BY DEF LoopOwnsItsToken, PreparationFails, SubmitJoin, SubmitStart
<1>2. Kept /\ DOMAIN disp' = DOMAIN disp
  <2>1. disp' = disp \/ disp' = Settled({t}, "cancelled")
    BY DEF PreparationFails, SubmitJoin, SubmitStart
  <2>2. CASE disp' = disp
    BY <2>2 DEF Kept, TypeOK
  <2>3. CASE disp' = Settled({t}, "cancelled")
    BY <2>3, SettledKeeps, SettledFacts DEF Completion, TypeOK
  <2> QED BY <2>1, <2>2, <2>3
<1>3. UNCHANGED <<adm, log>> /\ (task' = task \/ task' = Created(t))
  BY DEF PreparationFails, SubmitJoin, SubmitStart
<1>4. \A u \in DOMAIN disp : disp[u].proc # p => task'[u] = task[u]
  <2>1. \A u \in DOMAIN disp : disp[u].proc # p => u # t /\ u \in Token
    BY <1>1, DispatchFields DEF Of
  <2> QED BY <1>3, <2>1 DEF Created, TypeOK
<1>5. loop' = [loop EXCEPT ![p] = Idle] \/ loop' = [loop EXCEPT ![p] = Undoing({t})]
  BY DEF PreparationFails, SubmitJoin, SubmitStart
<1>6. loop'[p].op # "invoke" /\ \A r \in Procs : r # p => loop'[r] = loop[r]
  <2>1. Idle.op # "invoke" /\ Undoing({t}).op # "invoke"
    BY DEF Idle, Undoing
  <2> HIDE DEF t
  <2> QED BY <1>5, <2>1 DEF TypeOK
<1> QED BY <1>2, <1>3, <1>4, <1>6, OnceOtherSteps

LEMMA OnceLeavesDrain ==
    ASSUME Shape, Once, NEW p \in Procs, NEW w \in DOMAIN disp, NEW S,
           LeaveDrain(p, w, S), disp[w].proc = p, UNCHANGED <<adm, log>>,
           loop'[p].op # "invoke", \A r \in Procs : r # p => loop'[r] = loop[r]
    PROVE  Once'
<1> USE DEF Shape
<1>1. PICK R : disp' = Settled(R, "cancelled")
  BY DEF LeaveDrain, Release
<1>2. Kept /\ DOMAIN disp' = DOMAIN disp
  BY <1>1, SettledKeeps, SettledFacts DEF Completion, TypeOK
<1>3. \A u \in DOMAIN disp : disp[u].proc # p => task'[u] = task[u]
  <2>1. \A u \in DOMAIN disp : disp[u].proc # p => u # w /\ u \in Token
    BY DispatchFields
  <2> QED BY <2>1 DEF LeaveDrain, TypeOK
<1> QED BY <1>2, <1>3, OnceOtherSteps

LEMMA OnceTaskSteps ==
    ASSUME Shape, Once, NEW p \in Procs, NEW w \in DOMAIN disp,
           WorkerFirstStep(p, w) \/ HandlerEnds(p, w) \/ Cancel(p, w)
    PROVE  Once'
<1> USE DEF Shape
<1>1. loop[p] = Idle /\ disp[w].proc = p /\ w \in Token /\ UNCHANGED <<adm, log>>
  BY DispatchFields DEF WorkerFirstStep, HandlerEnds, Cancel, Awaiting
<1>2. Kept /\ DOMAIN disp' = DOMAIN disp
  <2>1. disp' = disp \/ \E R : \E o \in Completion : disp' = Settled(R, o)
    BY DEF WorkerFirstStep, HandlerEnds, Cancel, Completion
  <2>2. CASE disp' = disp
    BY <2>2 DEF Kept, TypeOK
  <2>3. CASE \E R : \E o \in Completion : disp' = Settled(R, o)
    BY <2>3, SettledKeeps, SettledFacts DEF TypeOK
  <2> QED BY <2>1, <2>2, <2>3
<1>3. \A u \in DOMAIN disp : disp[u].proc # p => task'[u] = task[u]
  <2>1. \A u \in DOMAIN disp : disp[u].proc # p => u # w /\ u \in Token
    BY <1>1, DispatchFields
  <2>2. \E x : task' = [task EXCEPT ![w] = x]
    BY DEF WorkerFirstStep, HandlerEnds, Cancel
  <2> QED BY <2>1, <2>2 DEF TypeOK
<1>4. loop'[p].op # "invoke" /\ \A r \in Procs : r # p => loop'[r] = loop[r]
  <2>1. loop' = loop \/ loop' = [loop EXCEPT ![p] = At("drain", w)]
    BY DEF WorkerFirstStep, HandlerEnds, Cancel
  <2> QED BY <1>1, <2>1 DEF TypeOK, At, Idle
<1> QED BY <1>1, <1>2, <1>3, <1>4, OnceOtherSteps

LEMMA OnceDoneCallback ==
    ASSUME Shape, Once, NEW p \in Procs, NEW w \in DOMAIN disp, DoneCallback(p, w)
    PROVE  Once'
<1> USE DEF Shape
<1> DEFINE i == disp[w].inc  q == queue[p][i]  first == Head(q.deferred)
           over == [task EXCEPT ![w].st = "gone"]
<1>1. /\ loop[p] = Idle /\ disp[w].proc = p /\ w \in Token /\ UNCHANGED <<adm, log>>
      /\ i \in Incidents /\ q \in Queue
  BY DispatchFields DEF DoneCallback, TypeOK
<1>2. Kept /\ DOMAIN disp' = DOMAIN disp
  <2>1. \/ disp' = disp \/ \E R : disp' = Settled(R, "cancelled")
        \/ \E S, R : disp' = SettledTwo(S, R)
    BY DEF DoneCallback, Release
  <2>2. CASE disp' = disp
    BY <2>2 DEF Kept, TypeOK
  <2>3. CASE \E R : disp' = Settled(R, "cancelled")
    BY <2>3, SettledKeeps, SettledFacts DEF Completion, TypeOK
  <2>4. CASE \E S, R : disp' = SettledTwo(S, R)
    BY <2>4, SettledTwoKeeps DEF SettledTwo
  <2> QED BY <2>1, <2>2, <2>3, <2>4
<1>3. ASSUME NEW u \in DOMAIN disp, disp[u].proc # p PROVE task'[u] = task[u]
  <2>1. u # w /\ u \in Token
    BY <1>1, <1>3, DispatchFields
  <2>2. CASE task' = over
    BY <2>1, <2>2 DEF TypeOK
  <2>3. CASE q.deferred # <<>> /\ task' = [over EXCEPT ![first] = [NoTask EXCEPT !.st = "scheduled"]]
    <3>1. first \in Waiting(q)
      BY <1>1, <2>3, HandedOver
    <3>2. Of(p, first)
      BY <1>1, <3>1 DEF QueuesHoldOwnTokens
    <3>3. u # first
      BY <1>3, <3>2 DEF Of
    <3> HIDE DEF first
    <3> QED BY <2>1, <2>3, <3>3 DEF TypeOK
  <2> QED BY <2>2, <2>3 DEF DoneCallback
<1>4. loop'[p].op # "invoke" /\ \A r \in Procs : r # p => loop'[r] = loop[r]
  <2>1. loop' = loop \/ \E S : loop' = [loop EXCEPT ![p] = Undoing(S)]
    BY DEF DoneCallback
  <2> QED BY <1>1, <2>1 DEF TypeOK, Undoing, Idle
<1> QED BY <1>1, <1>2, <1>3, <1>4, OnceOtherSteps

LEMMA OnceCrash ==
    ASSUME Shape, Once, NEW p \in Procs, Crash(p)
    PROVE  Once'
<1> USE DEF Shape
<1>1. Kept /\ DOMAIN disp' = DOMAIN disp
  BY SettledKeeps, SettledFacts DEF Crash, Completion, TypeOK
<1>2. \A u \in DOMAIN disp : disp[u].proc # p => task'[u] = task[u]
  BY TokensOfDisp DEF Crash, TypeOK
<1>3. loop'[p].op # "invoke" /\ \A r \in Procs : r # p => loop'[r] = loop[r]
  BY DEF Crash, TypeOK, Idle
<1>4. UNCHANGED <<adm, log>>
  BY DEF Crash
<1> QED BY <1>1, <1>2, <1>3, <1>4, OnceOtherSteps

-----------------------------------------------------------------------------
(* An empty table and idle processes satisfy the invariant. *)
LEMMA IInvInit == Init => IInv
BY ShapeInit, OnceInit DEF IInv

(* Every step of every process keeps the invariant. *)
LEMMA IInvStep == IInv /\ [Next]_vars => IInv'
<1> SUFFICES ASSUME IInv, [Next]_vars PROVE IInv'
  OBVIOUS
<1> USE DEF IInv
<1>1. ASSUME NEW p \in Procs, NEW i \in Incidents, NEW K \in SUBSET Keys, SubmitAdmit(p, i, K)
      PROVE  IInv'
  BY <1>1, ShapeSubmitAdmit, OnceSubmitAdmit
<1>2. ASSUME NEW p \in Procs, PreparationFails(p) \/ SubmitJoin(p) \/ SubmitStart(p)
      PROVE  IInv'
  BY <1>2, ShapePreparationFails, ShapeSubmitJoin, ShapeSubmitStart, OnceSubmits
<1>3. ASSUME NEW p \in Procs, Rollback(p) PROVE IInv'
  BY <1>3, ShapeRollback, OnceRollback
<1>4. ASSUME NEW p \in Procs, DrainTake(p) PROVE IInv'
  BY <1>4, ShapeDrainTake, OnceDrainTake
<1>5. ASSUME NEW p \in Procs, DrainReturn(p) PROVE IInv'
  <2>1. Shape'
    BY <1>5, ShapeDrainReturn
  <2>2. Of(p, loop[p].tok) /\ LeaveDrain(p, loop[p].tok, {}) /\ UNCHANGED <<adm, log>>
        /\ loop' = [loop EXCEPT ![p] = Idle]
    BY <1>5 DEF DrainReturn, Shape, LoopOwnsItsToken
  <2>3. loop'[p].op # "invoke" /\ \A r \in Procs : r # p => loop'[r] = loop[r]
    BY <2>2 DEF Shape, TypeOK, Idle
  <2>4. Once'
    BY <2>2, <2>3, OnceLeavesDrain DEF Of
  <2> QED BY <2>1, <2>4
<1>6. ASSUME NEW p \in Procs, InvokeHandler(p) PROVE IInv'
  BY <1>6, ShapeInvokeHandler, OnceInvokeHandler DEF Invoking
<1>7. ASSUME NEW p \in Procs, NEW w \in DOMAIN disp,
             WorkerFirstStep(p, w) \/ HandlerEnds(p, w) \/ Cancel(p, w)
      PROVE  IInv'
  BY <1>7, ShapeWorkerFirstStep, ShapeHandlerEnds, ShapeCancel, OnceTaskSteps
<1>8. ASSUME NEW p \in Procs, NEW w \in DOMAIN disp, HandlerCancelled(p, w)
      PROVE  IInv'
  <2>1. /\ loop[p] = Idle /\ disp[w].proc = p /\ UNCHANGED <<adm, log, loop>>
        /\ LeaveDrain(p, w, {task[w].tok})
    BY <1>8 DEF HandlerCancelled, Awaiting
  <2>2. Once'
    BY <2>1, OnceLeavesDrain DEF Idle
  <2> QED BY <1>8, <2>2, ShapeHandlerCancelled
<1>9. ASSUME NEW p \in Procs, NEW w \in DOMAIN disp, DoneCallback(p, w)
      PROVE  IInv'
  BY <1>9, ShapeDoneCallback, OnceDoneCallback
<1>10. ASSUME NEW p \in Procs, Crash(p) PROVE IInv'
  BY <1>10, ShapeCrash, OnceCrash
<1>11. CASE UNCHANGED vars
  BY <1>11 DEF vars, Shape, TypeOK, LoopOwnsItsToken, QueuesHoldOwnTokens, Of, Once,
       DispatchesHaveKeys, RowsMatchKeys, LoggedAreSpent, LoggedOnce, ToBeInvoked,
       SpentBy, Invoking
<1> QED BY <1>1, <1>2, <1>3, <1>4, <1>5, <1>6, <1>7, <1>8, <1>9, <1>10, <1>11
        DEF Next, LoopGoesOn, TaskGoesOn

(* The dispatcher keeps its state well formed: types, and the ownership of     *)
(* tokens by processes, along all of its steps.                                *)
THEOREM TypeCorrect == Spec => []TypeOK
<1>1. IInv => TypeOK
  BY DEF IInv, Shape
<1> QED BY <1>1, IInvInit, IInvStep, PTL DEF Spec

(* No occurrence is handed to a handler twice, for any number of processes,    *)
(* crashes, cancellations and failing transactions.                            *)
THEOREM OccurrencesHandledAtMostOnce == Spec => []AtMostOnce
<1>1. IInv => AtMostOnce
  <2> SUFFICES ASSUME IInv, NEW m \in DOMAIN log, NEW n \in DOMAIN log, m # n,
                      NEW k \in disp[log[m]].keys \cap disp[log[n]].keys
               PROVE  FALSE
    BY DEF AtMostOnce
  <2>1. SpentBy(log[m]) /\ SpentBy(log[n])
    BY DEF IInv, Once, LoggedAreSpent
  <2>2. adm[k].token = log[m] /\ adm[k].token = log[n]
    BY <2>1 DEF SpentBy
  <2> QED BY <2>2 DEF IInv, Once, LoggedOnce
<1> QED BY <1>1, IInvInit, IInvStep, PTL DEF Spec

(* A row once attempted is never released, claimed again or requeued.          *)
THEOREM AttemptedRowsAreFinal == Spec => AttemptedIsFinal
<1>1. ASSUME IInv, [Next]_vars, NEW k \in Keys, adm[k].state = "attempted"
      PROVE  adm'[k] = adm[k]
  <2>1. ASSUME NEW p \in Procs, NEW i \in Incidents, NEW K \in SUBSET Keys, SubmitAdmit(p, i, K)
        PROVE  adm'[k] = adm[k]
    BY <1>1, <2>1 DEF SubmitAdmit, Admitted, Fresh, NoRow
  <2>2. ASSUME NEW p \in Procs, Rollback(p) PROVE adm'[k] = adm[k]
    BY <1>1, <2>2 DEF Rollback, RolledBack
  <2>3. ASSUME NEW p \in Procs, DrainTake(p) PROVE adm'[k] = adm[k]
    <3> DEFINE t == Head(queue[p][disp[loop[p].tok].inc].pending)
    <3>1. adm' = adm \/ (CanMark(t) /\ adm' = MarkedAttempted(t))
      BY <2>3 DEF DrainTake
    <3> HIDE DEF t
    <3>2. CASE CanMark(t) /\ adm' = MarkedAttempted(t)
      BY <1>1, <3>2 DEF CanMark, MarkedAttempted
    <3> QED BY <3>1, <3>2
  <2>4. CASE UNCHANGED adm
    BY <2>4
  <2>5. ASSUME NEW p \in Procs,
               \/ PreparationFails(p) \/ SubmitJoin(p) \/ SubmitStart(p)
               \/ DrainReturn(p) \/ InvokeHandler(p) \/ Crash(p)
        PROVE  UNCHANGED adm
    BY <2>5 DEF PreparationFails, SubmitJoin, SubmitStart, DrainReturn, InvokeHandler, Crash
  <2>6. ASSUME NEW p \in Procs, NEW w \in DOMAIN disp, TaskGoesOn(p, w) \/ Cancel(p, w)
        PROVE  UNCHANGED adm
    BY <2>6 DEF TaskGoesOn, WorkerFirstStep, HandlerEnds, HandlerCancelled, DoneCallback, Cancel
  <2>7. CASE Next
    BY <2>1, <2>2, <2>3, <2>4, <2>5, <2>6, <2>7 DEF Next, LoopGoesOn
  <2> QED BY <1>1, <2>4, <2>7 DEF vars
<1>2. IInv /\ [Next]_vars => [\A k \in Keys : adm[k].state = "attempted" => adm'[k] = adm[k]]_vars
  BY <1>1
<1> QED BY <1>2, IInvInit, IInvStep, PTL DEF Spec, AttemptedIsFinal

-----------------------------------------------------------------------------
(* Every step of the dispatcher is a step of the ledger of occurrences, or     *)
(* leaves it alone.                                                            *)
LEMMA LedgerInit == Init => Ledger!Init
BY EmptySeq DEF Init, Ledger!Init, Ledger!Free, NoRow, NoToken

(* The ledger and the dispatcher number their tokens alike. *)
LEMMA SameTokens == Ledger!Token = Token
BY DEF Ledger!Token, Token

(* Every step of the dispatcher is a step of the ledger or leaves it alone. *)
LEMMA LedgerStep == IInv /\ IInv' /\ [Next]_vars => [Ledger!Next]_<<adm, Len(disp), log>>
<1> SUFFICES ASSUME IInv, IInv', [Next]_vars
             PROVE  Ledger!Next \/ UNCHANGED <<adm, Len(disp), log>>
  OBVIOUS
<1> USE DEF IInv, Shape
<1>1. ASSUME NEW p \in Procs, NEW i \in Incidents, NEW K \in SUBSET Keys, SubmitAdmit(p, i, K)
      PROVE  Ledger!Reserve
  <2>1. Len(disp) + 1 \in Token /\ UNCHANGED log /\ Len(disp') = Len(disp) + 1
    <3>1. DOMAIN disp' = DOMAIN disp \cup {Len(disp) + 1} /\ Len(disp) + 1 \in Token
      BY <1>1, AdmitKeeps
    <3>2. DOMAIN disp' = 1 .. Len(disp') /\ DOMAIN disp = 1 .. Len(disp)
          /\ Len(disp) \in Nat /\ Len(disp') \in Nat
      BY LenProperties DEF TypeOK
    <3>3. UNCHANGED log
      BY <1>1 DEF SubmitAdmit
    <3> QED BY <3>1, <3>2, <3>3
  <2>2. Fresh(K) \in (SUBSET {k \in Keys : adm[k] = Ledger!Free}) \ {{}}
    <3>1. Fresh(K) # {}
      BY <1>1 DEF SubmitAdmit
    <3>2. NoRow = Ledger!Free
      BY DEF Ledger!Free, NoRow, NoToken
    <3>3. Fresh(K) \subseteq {k \in Keys : adm[k] = Ledger!Free}
      BY <3>2 DEF Fresh
    <3> QED BY <3>1, <3>3
  <2>3. adm' = [k \in Keys |-> IF k \in Fresh(K) THEN Ledger!Reserved(Len(disp) + 1) ELSE adm[k]]
    BY <1>1 DEF SubmitAdmit, Admitted, Ledger!Reserved
  <2> QED BY <2>1, <2>2, <2>3, SameTokens DEF Ledger!Reserve
<1>2. ASSUME NEW p \in Procs, Rollback(p)
      PROVE  Ledger!Next \/ UNCHANGED <<adm, Len(disp), log>>
  <2>1. UNCHANGED <<disp, log>>
    BY <1>2 DEF Rollback
  <2>2. PICK t \in Token : adm' = RolledBack(t) \/ UNCHANGED adm
    <3>1. loop[p].undo \subseteq Token
      BY DEF TypeOK, Loop
    <3> QED BY <1>2, <3>1 DEF Rollback
  <2>3. CASE adm' = RolledBack(t)
    <3>1. Ledger!Withdraw(t)
      BY <2>1, <2>3 DEF RolledBack, Ledger!Withdraw, Ledger!Reserved, Ledger!Free, NoRow, NoToken
    <3> QED BY <3>1, SameTokens DEF Ledger!Next
  <2> QED BY <2>1, <2>2, <2>3
<1>3. ASSUME NEW p \in Procs, DrainTake(p)
      PROVE  Ledger!Next \/ UNCHANGED <<adm, Len(disp), log>>
  <2> DEFINE w == loop[p].tok  i == disp[w].inc  t == Head(queue[p][i].pending)
  <2>1. t \in DOMAIN disp /\ t \in Token
    <3>1. Of(p, w)
      BY <1>3 DEF DrainTake, LoopOwnsItsToken
    <3>2. i \in Incidents
      BY <3>1, DispatchFields DEF Of
    <3>3. queue[p][i] \in Queue
      BY <3>2 DEF TypeOK
    <3>4. queue[p][i].pending # <<>>
      BY <1>3 DEF DrainTake
    <3>5. t \in Waiting(queue[p][i])
      BY <3>3, <3>4, TakenFacts
    <3>6. Of(p, t)
      BY <3>2, <3>5 DEF QueuesHoldOwnTokens
    <3> QED BY <3>6, DispatchFields DEF Of
  <2>2. UNCHANGED log
    BY <1>3 DEF DrainTake
  <2>3. CASE CanMark(t) /\ adm' = MarkedAttempted(t) /\ UNCHANGED disp
    <3> HIDE DEF t
    <3>1. disp[t].keys # {} /\ disp[t].keys \subseteq Keys
      BY <2>1 DEF Once, DispatchesHaveKeys
    <3>2. \A k \in Keys : k \in disp[t].keys <=> adm[k] = Ledger!Reserved(t)
      <4>1. \A k \in Keys : adm[k] = Ledger!Reserved(t) => k \in disp[t].keys
        BY DEF Once, RowsMatchKeys, Ledger!Reserved, NoRow
      <4> QED BY <2>3, <4>1 DEF CanMark, Ledger!Reserved
    <3>3. Ledger!Spend(t)
      BY <2>2, <2>3, <3>1, <3>2 DEF MarkedAttempted, Ledger!Spend, Ledger!Spent
    <3> QED BY <2>1, <3>3, SameTokens DEF Ledger!Next
  <2>4. CASE UNCHANGED adm /\ disp' = Settled({t}, "exception")
    BY <2>2, <2>4, SettledFacts DEF Completion, TypeOK
  <2> QED BY <1>3, <2>3, <2>4 DEF DrainTake
<1>4. ASSUME NEW p \in Procs, InvokeHandler(p)
      PROVE  Ledger!Next
  <2> DEFINE t == Invoking(p)
  <2>1. Of(p, t) /\ SpentBy(t) /\ \A n \in DOMAIN log : log[n] # t
    BY <1>4 DEF Once, ToBeInvoked, InvokeHandler
  <2>2. t \in DOMAIN disp /\ t \in Token
    BY <2>1, DispatchFields DEF Of
  <2>3. log' = Append(log, t) /\ UNCHANGED <<adm, disp>>
    BY <1>4 DEF InvokeHandler, Invoking
  <2> HIDE DEF t
  <2>4. \E k \in Keys : adm[k] = Ledger!Spent(t)
    BY <2>1, <2>2 DEF Once, DispatchesHaveKeys, SpentBy, Ledger!Spent
  <2>5. \A k \in Keys : adm[k] # Ledger!Reserved(t)
    BY <2>1 DEF Once, RowsMatchKeys, SpentBy, Ledger!Reserved, NoRow
  <2>6. Ledger!Run(t)
    BY <2>1, <2>3, <2>4, <2>5 DEF Ledger!Run
  <2> QED BY <2>2, <2>6, SameTokens DEF Ledger!Next
<1>5. ASSUME NEW p \in Procs,
             \/ PreparationFails(p) \/ SubmitJoin(p) \/ SubmitStart(p)
             \/ DrainReturn(p) \/ Crash(p)
      PROVE  UNCHANGED <<adm, Len(disp), log>>
  <2>1. disp' = disp \/ \E R : \E o \in Completion : disp' = Settled(R, o)
    BY <1>5 DEF PreparationFails, SubmitJoin, SubmitStart, DrainReturn, LeaveDrain, Release,
                Crash, Completion
  <2>2. UNCHANGED <<adm, log>>
    BY <1>5 DEF PreparationFails, SubmitJoin, SubmitStart, DrainReturn, Crash
  <2> QED BY <2>1, <2>2, SettledFacts DEF TypeOK
<1>6. ASSUME NEW p \in Procs, NEW w \in DOMAIN disp, TaskGoesOn(p, w) \/ Cancel(p, w)
      PROVE  UNCHANGED <<adm, Len(disp), log>>
  <2>1. \/ disp' = disp \/ \E R : \E o \in Completion : disp' = Settled(R, o)
        \/ \E S, R : disp' = SettledTwo(S, R)
    BY <1>6 DEF TaskGoesOn, WorkerFirstStep, HandlerEnds, HandlerCancelled, LeaveDrain,
                Release, DoneCallback, Cancel, Completion
  <2>2. UNCHANGED <<adm, log>>
    BY <1>6 DEF TaskGoesOn, WorkerFirstStep, HandlerEnds, HandlerCancelled, DoneCallback, Cancel
  <2>3. CASE \E S, R : disp' = SettledTwo(S, R)
    <3>1. DOMAIN disp' = DOMAIN disp
      BY <2>3 DEF SettledTwo
    <3>2. Len(disp') = Len(disp)
      BY <3>1, LenProperties DEF TypeOK
    <3> QED BY <2>2, <3>2
  <2> QED BY <2>1, <2>2, <2>3, SettledFacts DEF TypeOK
<1>7. CASE UNCHANGED vars
  BY <1>7 DEF vars
<1>8. CASE Next
  <2>1. ASSUME NEW p \in Procs, NEW i \in Incidents, NEW K \in SUBSET Keys, SubmitAdmit(p, i, K)
        PROVE  Ledger!Next
    BY <1>1, <2>1 DEF Ledger!Next
  <2> QED BY <1>2, <1>3, <1>4, <1>5, <1>6, <1>8, <2>1 DEF Next, LoopGoesOn
<1> QED BY <1>7, <1>8

(* The dispatcher implements the ledger: an occurrence is reserved, perhaps    *)
(* withdrawn, spent and run once, whatever the processes do.                   *)
THEOREM DispatcherImplementsLedger == Spec => ImplementsLedger
BY LedgerInit, LedgerStep, IInvInit, IInvStep, PTL
   DEF Spec, ImplementsLedger, Ledger!Spec, Ledger!ledger

-----------------------------------------------------------------------------
(* The dispatches of an incident in a process are its line.  Those still to   *)
(* come wait in its queue, or are admitted and not yet placed there.          *)
InLine(t, p, i) == t \in DOMAIN disp /\ disp[t].proc = p /\ disp[t].inc = i

Ahead(p, i) ==
    Waiting(queue[p][i])
        \cup {t \in {loop[p].tok} : loop[p].op = "admitted" /\ disp[t].inc = i}

Homed == \A p \in Procs, i \in Incidents : \A t \in Ahead(p, i) : InLine(t, p, i)

Backed ==
    \A p \in Procs, i \in Incidents : \A t \in Ahead(p, i) :
        CanMark(t) /\ disp[t].completion = "pending"

(* What is to be rolled back waits nowhere any more. *)
Withdrawn ==
    \A p \in Procs : \A t \in loop[p].undo :
        t \in DOMAIN disp /\ \A r \in Procs, i \in Incidents : t \notin Ahead(r, i)

(* A queue is in the order of admission, deferred dispatches are those of a   *)
(* worker on its way out, and what is being submitted is later than all.      *)
Rising(s) == \A m, n \in DOMAIN s : m < n => s[m] < s[n]
Ordered(q) ==
    /\ Rising(q.pending) /\ Rising(q.deferred)
    /\ \A a \in SeqSet(q.pending), b \in SeqSet(q.deferred) : a < b
Tidy(p, i) ==
    /\ Ordered(queue[p][i])
    /\ queue[p][i].deferred # <<>> => Stopping(queue[p][i].worker)
    /\ loop[p].op = "admitted" => \A t \in Waiting(queue[p][i]) : t < loop[p].tok
Sorted == \A p \in Procs, i \in Incidents : Tidy(p, i)

(* What was handled, and what a worker holds, is before what is still to come. *)
Passed ==
    \A p \in Procs, i \in Incidents : \A t \in Ahead(p, i), n \in DOMAIN log :
        InLine(log[n], p, i) => log[n] < t
Held ==
    \A w \in Token : task[w].tok # NoToken =>
        /\ w \in DOMAIN disp
        /\ \A p \in Procs, i \in Incidents : InLine(w, p, i) =>
              InLine(task[w].tok, p, i) /\ \A t \in Ahead(p, i) : task[w].tok < t
Turn ==
    \A p \in Procs : loop[p].op = "invoke" =>
        /\ Invoking(p) # NoToken
        /\ \A n \in DOMAIN log :
              InLine(log[n], p, disp[loop[p].tok].inc) => log[n] < Invoking(p)

(* The worker of a queue, and the tasks that are under way. *)
Manned ==
    \A p \in Procs, i \in Incidents :
        LET w == queue[p][i].worker
        IN  /\ processing[p][i] <=> w # NoToken
            /\ w # NoToken => InLine(w, p, i) /\ task[w].st \in {"scheduled", "active", "done"}
            /\ w = NoToken => queue[p][i] = NoQueue
Alone ==
    \A v \in DOMAIN disp : task[v].st \in {"scheduled", "active"} =>
        queue[disp[v].proc][disp[v].inc].worker = v
Unborn == \A v \in Token \ DOMAIN disp : task[v].st = "none"
Draining == \A p \in Procs : loop[p].op \in {"drain", "invoke"} => task[loop[p].tok].st = "active"

Workers == Manned /\ Alone /\ Unborn /\ Draining

Lines == Homed /\ Backed /\ Withdrawn /\ Sorted /\ Passed /\ Held /\ Turn

-----------------------------------------------------------------------------
(* A token waits in a queue if it waits in one of its two lists.            *)
LEMMA QueueFields ==
    ASSUME NEW q \in Queue
    PROVE  /\ q.pending \in Seq(Token) /\ q.deferred \in Seq(Token)
           /\ q.worker \in Token \cup {NoToken}
           /\ SeqSet(q.pending) \subseteq Waiting(q) /\ SeqSet(q.deferred) \subseteq Waiting(q)
           /\ Waiting(q) \subseteq Token
BY SeqSetFacts DEF Queue, Waiting

(* A token later than all of a list keeps the list rising.                   *)
LEMMA RisingAppend ==
    ASSUME NEW s \in Seq(Token), NEW t \in Token, Rising(s), \A e \in SeqSet(s) : e < t
    PROVE  Rising(Append(s, t))
<1>1. DOMAIN s = 1 .. Len(s) /\ Len(s) \in Nat
  OBVIOUS
<1>2. /\ DOMAIN Append(s, t) = 1 .. Len(s) + 1
      /\ \A n \in 1 .. Len(s) : Append(s, t)[n] = s[n]
      /\ Append(s, t)[Len(s) + 1] = t
  BY <1>1
<1>3. \A n \in 1 .. Len(s) : s[n] < t
  BY <1>1 DEF SeqSet
<1> QED BY <1>1, <1>2, <1>3 DEF Rising

(* What is behind the head of a rising list is later, and rising.           *)
LEMMA RisingTail ==
    ASSUME NEW s \in Seq(Token), s # <<>>, Rising(s)
    PROVE  Rising(Tail(s)) /\ \A e \in SeqSet(Tail(s)) : Head(s) < e
<1>1. /\ DOMAIN s = 1 .. Len(s) /\ Len(s) \in Nat \ {0}
      /\ DOMAIN Tail(s) = 1 .. Len(s) - 1
      /\ Head(s) = s[1]
      /\ \A n \in 1 .. Len(s) - 1 : Tail(s)[n] = s[n + 1]
  OBVIOUS
<1>2. Rising(Tail(s))
  BY <1>1 DEF Rising
<1>3. \A e \in SeqSet(Tail(s)) : Head(s) < e
  BY <1>1 DEF SeqSet, Rising
<1> QED BY <1>2, <1>3

(* submit() keeps a queue in order.                                         *)
LEMMA PlacedOrdered ==
    ASSUME NEW q \in Queue, NEW t \in Token, NEW r, r = Placed(q, t),
           Ordered(q), \A e \in Waiting(q) : e < t,
           q.deferred # <<>> => Stopping(q.worker)
    PROVE  /\ Ordered(r) /\ r.worker = q.worker
           /\ r.deferred # <<>> => Stopping(r.worker)
<1>1. PICK pe \in Seq(Token), de \in Seq(Token), v \in Token \cup {NoToken} :
        q = [pending |-> pe, deferred |-> de, worker |-> v]
  BY DEF Queue
<1>2. /\ Rising(pe) /\ Rising(de) /\ \A a \in SeqSet(pe), b \in SeqSet(de) : a < b
      /\ \A e \in SeqSet(pe) : e < t
      /\ \A e \in SeqSet(de) : e < t
  BY <1>1 DEF Ordered, Waiting
<1>3. PICK pt : pt = Append(pe, t) /\ SeqSet(pt) = SeqSet(pe) \cup {t} /\ Rising(pt)
  BY <1>2, SeqSetAppend, RisingAppend
<1>4. PICK dt : dt = Append(de, t) /\ SeqSet(dt) = SeqSet(de) \cup {t} /\ Rising(dt)
  BY <1>2, SeqSetAppend, RisingAppend
<1>5. CASE Stopping(v)
  <2>1. r = [pending |-> pe, deferred |-> dt, worker |-> v]
    BY <1>1, <1>4, <1>5 DEF Placed
  <2>2. \A a \in SeqSet(pe), b \in SeqSet(dt) : a < b
    BY <1>2, <1>4
  <2>3. r.pending = pe /\ r.deferred = dt /\ r.worker = v /\ q.worker = v
    BY <1>1, <2>1
  <2> QED BY <1>2, <1>4, <1>5, <2>2, <2>3 DEF Ordered
<1>6. CASE ~Stopping(v)
  <2>1. r = [pending |-> pt, deferred |-> <<>>, worker |-> v]
    BY <1>1, <1>3, <1>6 DEF Placed
  <2>2. SeqSet(<<>>) = {} /\ Rising(<<>>)
    BY DEF SeqSet, Rising
  <2>3. r.pending = pt /\ r.deferred = <<>> /\ r.worker = v /\ q.worker = v
    BY <1>1, <2>1
  <2> QED BY <1>3, <2>2, <2>3 DEF Ordered
<1> QED BY <1>5, <1>6

(* A queue without a worker is started with one dispatch.                   *)
LEMMA StartedOrdered ==
    ASSUME NEW t \in Token, NEW r, r = Started(NoQueue, t)
    PROVE  Ordered(r) /\ r.worker = t /\ r.deferred = <<>>
<1>1. Append(<<>>, t) = <<t>>
  OBVIOUS
<1>2. r = [pending |-> Append(<<>>, t), deferred |-> <<>>, worker |-> t]
  BY DEF Started, NoQueue
<1>3. r.pending = <<t>> /\ r.deferred = <<>> /\ r.worker = t
  BY <1>1, <1>2
<1>4. SeqSet(<<>>) = {} /\ Rising(<<>>) /\ Rising(<<t>>)
  BY DEF SeqSet, Rising
<1> QED BY <1>3, <1>4 DEF Ordered

(* _drain() takes the earliest of a queue.                                  *)
LEMMA TakenOrdered ==
    ASSUME NEW q \in Queue, NEW r, q.pending # <<>>, Ordered(q), r = [q EXCEPT !.pending = Tail(@)]
    PROVE  /\ Ordered(r) /\ r.worker = q.worker /\ r.deferred = q.deferred
           /\ Waiting(r) \subseteq Waiting(q) \ {Head(q.pending)}
           /\ \A e \in Waiting(r) : Head(q.pending) < e
<1>1. PICK pe \in Seq(Token), de \in Seq(Token), v \in Token \cup {NoToken} :
        q = [pending |-> pe, deferred |-> de, worker |-> v]
  BY DEF Queue
<1>2. /\ r = [pending |-> Tail(pe), deferred |-> de, worker |-> v] /\ pe # <<>>
  BY <1>1
<1>3. Head(pe) \in SeqSet(pe) /\ SeqSet(Tail(pe)) \subseteq SeqSet(pe)
  BY <1>2, SeqSetFacts
<1>4. Rising(Tail(pe)) /\ \A e \in SeqSet(Tail(pe)) : Head(pe) < e
  BY <1>1, <1>2, RisingTail DEF Ordered
<1>5. /\ Ordered(r) /\ r.worker = q.worker /\ r.deferred = q.deferred
      /\ \A e \in Waiting(r) : Head(pe) < e
  BY <1>1, <1>2, <1>3, <1>4 DEF Ordered, Waiting
<1>6. Waiting(r) \subseteq Waiting(q) /\ Waiting(r) \subseteq Token /\ Head(pe) \in Token
  BY <1>1, <1>2, <1>3, SeqSetFacts DEF Waiting
<1>7. ASSUME NEW e \in Waiting(r) PROVE e # Head(pe)
  <2>1. PICK h \in Int : h = Head(pe)
    BY <1>6 DEF Token
  <2>2. h < e
    BY <1>5, <2>1
  <2>3. e # h
    BY ONLY <2>2, h \in Int
  <2> QED BY <2>1, <2>3
<1> QED BY <1>1, <1>5, <1>6, <1>7

(* The deferred dispatches go to a successor, who has none yet.             *)
LEMMA HandedOrdered ==
    ASSUME NEW q \in Queue, NEW v, Ordered(q)
    PROVE  Ordered([pending |-> q.deferred, deferred |-> <<>>, worker |-> v])
BY DEF Ordered, SeqSet, Rising

LEMMA NoQueueOrdered == Ordered(NoQueue) /\ NoQueue.deferred = <<>> /\ NoQueue.worker = NoToken
BY DEF Ordered, NoQueue, SeqSet, Rising

-----------------------------------------------------------------------------
(* What waits is ahead, and nothing else unless a submission is under way.  *)
LEMMA AheadWaits ==
    ASSUME NEW p \in Procs, NEW i \in Incidents
    PROVE  /\ Waiting(queue[p][i]) \subseteq Ahead(p, i)
           /\ loop[p].op # "admitted" => Ahead(p, i) = Waiting(queue[p][i])
BY DEF Ahead

LEMMA AheadWaitsNext ==
    ASSUME NEW p \in Procs, NEW i \in Incidents
    PROVE  /\ Waiting(queue'[p][i]) \subseteq Ahead(p, i)'
           /\ loop'[p].op # "admitted" => Ahead(p, i)' = Waiting(queue'[p][i])
BY DEF Ahead, Waiting, SeqSet

(* A line none of whose variables changes stays as it is.                   *)
LEMMA AheadSame ==
    ASSUME LoopOwnsItsToken, Kept, NEW p \in Procs, NEW i \in Incidents,
           queue'[p][i] = queue[p][i], loop'[p] = loop[p]
    PROVE  Ahead(p, i)' = Ahead(p, i)
<1>1. loop[p].op = "admitted" => disp'[loop[p].tok].inc = disp[loop[p].tok].inc
  BY DEF LoopOwnsItsToken, Of, Kept
<1> QED BY <1>1 DEF Ahead, Waiting, SeqSet

(* What is ahead is named by tokens, and in one line only.                  *)
LEMMA LinesApart ==
    ASSUME TypeOK, Homed, NEW p \in Procs, NEW i \in Incidents, NEW t \in Ahead(p, i)
    PROVE  /\ t \in Token /\ t \in DOMAIN disp /\ disp[t].proc = p /\ disp[t].inc = i
           /\ \A r \in Procs, j \in Incidents : t \in Ahead(r, j) => r = p /\ j = i
BY TokensOfDisp DEF Homed, InLine

(* A step by which nothing new comes ahead, and which leaves the rows and the *)
(* completions of what stays ahead.                                           *)
Narrows ==
    /\ Kept
    /\ \A p \in Procs, i \in Incidents : \A t \in Ahead(p, i)' :
          /\ t \in Ahead(p, i) /\ disp'[t].completion = disp[t].completion
          /\ \A k \in disp[t].keys : adm'[k] = adm[k]

(* Settling one group of dispatches leaves the others.                      *)
LEMMA SettledOthers ==
    ASSUME TypeOK, NEW S, NEW o, NEW t \in DOMAIN disp, t \notin S
    PROVE  Settled(S, o)[t] = disp[t]
BY DEF Settled

LEMMA SettledTwoOthers ==
    ASSUME TypeOK, NEW S, NEW R, NEW t \in DOMAIN disp, t \notin S, t \notin R
    PROVE  SettledTwo(S, R)[t] = disp[t]
BY DEF Settled, SettledTwo

(* A step that settles what is not ahead any more.                          *)
LEMMA NarrowsBySettling ==
    ASSUME TypeOK, Homed, NEW S, NEW o \in Completion, disp' = Settled(S, o),
           UNCHANGED adm,
           \A p \in Procs, i \in Incidents : \A t \in Ahead(p, i)' :
               t \in Ahead(p, i) /\ t \notin S
    PROVE  Narrows
<1>1. Kept
  BY SettledKeeps
<1>2. ASSUME NEW p \in Procs, NEW i \in Incidents, NEW t \in Ahead(p, i)'
      PROVE  t \in Ahead(p, i) /\ disp'[t].completion = disp[t].completion
  <2>1. t \in Ahead(p, i) /\ t \notin S
    BY <1>2
  <2>2. t \in DOMAIN disp
    BY <2>1, LinesApart
  <2> QED BY <2>1, <2>2, SettledOthers
<1> QED BY <1>1, <1>2 DEF Narrows

(* A step that leaves the dispatches.                                       *)
LEMMA NarrowsByLeaving ==
    ASSUME TypeOK, UNCHANGED <<disp, adm>>,
           \A p \in Procs, i \in Incidents : Ahead(p, i)' \subseteq Ahead(p, i)
    PROVE  Narrows
BY DEF Narrows, Kept, TypeOK

(* What such a step keeps.                                                  *)
LEMMA LinesKept ==
    ASSUME Homed, Backed, Narrows
    PROVE  Homed' /\ Backed'
<1>1. ASSUME NEW p \in Procs, NEW i \in Incidents, NEW t \in Ahead(p, i)'
      PROVE  t \in DOMAIN disp' /\ disp'[t].proc = p /\ disp'[t].inc = i
  <2>1. t \in Ahead(p, i)
    BY <1>1 DEF Narrows
  <2>2. t \in DOMAIN disp /\ disp[t].proc = p /\ disp[t].inc = i
    BY <2>1 DEF Homed, InLine
  <2> QED BY <2>2 DEF Narrows, Kept
<1>2. ASSUME NEW p \in Procs, NEW i \in Incidents, NEW t \in Ahead(p, i)'
      PROVE  /\ disp'[t].completion = "pending"
             /\ \A k \in disp'[t].keys : adm'[k] = [state |-> "queued", token |-> t]
  <2>1. t \in Ahead(p, i)
    BY <1>2 DEF Narrows
  <2>2. /\ t \in DOMAIN disp /\ disp[t].completion = "pending"
        /\ \A k \in disp[t].keys : adm[k] = [state |-> "queued", token |-> t]
    BY <2>1 DEF Homed, InLine, Backed, CanMark
  <2> QED BY <1>2, <2>2 DEF Narrows, Kept
<1>3. Homed'
  BY <1>1 DEF Homed, InLine
<1>4. Backed'
  BY <1>2 DEF Backed, CanMark
<1> QED BY <1>3, <1>4

LEMMA PassedKept ==
    ASSUME TypeOK, LoggedAreSpent, Passed, Narrows, log' = log
    PROVE  Passed'
<1>1. ASSUME NEW p \in Procs, NEW i \in Incidents, NEW t \in Ahead(p, i)', NEW n \in DOMAIN log,
             disp'[log[n]].proc = p, disp'[log[n]].inc = i
      PROVE  log[n] < t
  <2>1. log[n] \in DOMAIN disp
    BY DEF LoggedAreSpent
  <2>2. disp[log[n]].proc = p /\ disp[log[n]].inc = i
    BY <1>1, <2>1 DEF Narrows, Kept
  <2> QED BY <1>1, <2>1, <2>2 DEF Narrows, Passed, InLine
<1> QED BY <1>1 DEF Passed, InLine

LEMMA HeldKept ==
    ASSUME TypeOK, Held, Narrows,
           \A w \in Token : task'[w].tok \in {task[w].tok, NoToken}
    PROVE  Held'
<1>1. ASSUME NEW w \in Token, task'[w].tok # NoToken
      PROVE  w \in DOMAIN disp /\ w \in DOMAIN disp' /\ task'[w].tok = task[w].tok
  BY <1>1 DEF Held, Narrows, Kept
<1>2. ASSUME NEW w \in Token, task'[w].tok # NoToken, NEW p \in Procs, NEW i \in Incidents,
             disp'[w].proc = p, disp'[w].inc = i
      PROVE  /\ task'[w].tok \in DOMAIN disp'
             /\ disp'[task'[w].tok].proc = p /\ disp'[task'[w].tok].inc = i
             /\ \A t \in Ahead(p, i)' : task'[w].tok < t
  <2>1. disp[w].proc = p /\ disp[w].inc = i
    BY <1>1, <1>2 DEF Narrows, Kept
  <2>2. /\ task[w].tok \in DOMAIN disp
        /\ disp[task[w].tok].proc = p /\ disp[task[w].tok].inc = i
        /\ \A t \in Ahead(p, i) : task[w].tok < t
    BY <1>1, <1>2, <2>1 DEF Held, InLine
  <2> QED BY <1>1, <1>2, <2>2 DEF Narrows, Kept
<1> QED BY <1>1, <1>2 DEF Held, InLine

(* A queue that stays as it is, and an entry of _queues that is deleted.    *)
LEMMA TidyKept ==
    ASSUME Manned, NEW p \in Procs, NEW i \in Incidents, Tidy(p, i),
           queue'[p][i] = queue[p][i],
           \/ queue[p][i].worker = NoToken
           \/ Stopping(queue[p][i].worker) =>
                 \/ task'[queue[p][i].worker].st = "done"
                 \/ task'[queue[p][i].worker].cancelling,
           loop'[p].op = "admitted" => loop'[p] = loop[p]
    PROVE  Tidy(p, i)'
<1> DEFINE q == queue[p][i]
<1>1. q.deferred # <<>> => q.worker # NoToken
  BY NoQueueOrdered DEF Manned
<1>2. Ordered(q) /\ (q.deferred # <<>> => Stopping(q.worker))
      /\ (loop[p].op = "admitted" => \A t \in Waiting(q) : t < loop[p].tok)
  BY DEF Tidy
<1>3. Ordered(q)'
  BY <1>2 DEF Ordered, Rising, SeqSet
<1>4. q'.deferred # <<>> => task'[q'.worker].st = "done" \/ task'[q'.worker].cancelling
  BY <1>1, <1>2
<1>5. loop'[p].op = "admitted" => \A t \in Waiting(q)' : t < loop'[p].tok
  BY <1>2 DEF Waiting, SeqSet
<1> QED BY <1>3, <1>4, <1>5 DEF Tidy, Stopping

LEMMA TidyNone ==
    ASSUME NEW p \in Procs, NEW i \in Incidents, queue'[p][i] = NoQueue
    PROVE  Tidy(p, i)'
BY DEF Tidy, Ordered, Rising, Waiting, SeqSet, NoQueue

(* A queue that gets a new content while no submission is under way.        *)
LEMMA TidyNew ==
    ASSUME NEW p \in Procs, NEW i \in Incidents, NEW q, queue'[p][i] = q, Ordered(q),
           q.deferred # <<>> => task'[q.worker].st = "done" \/ task'[q.worker].cancelling,
           loop'[p].op # "admitted"
    PROVE  Tidy(p, i)'
BY DEF Tidy, Ordered, Rising, SeqSet, Stopping

(* The steps that narrow the lines, invoke no handler and take nothing.     *)
LEMMA LinesFramed ==
    ASSUME IInv, Lines, Narrows, log' = log,
           \A w \in Token : task'[w].tok \in {task[w].tok, NoToken},
           \A p \in Procs : loop'[p].op = "invoke" =>
               loop'[p] = loop[p] /\ task'[loop[p].tok].tok = task[loop[p].tok].tok,
           \A p \in Procs : \A t \in loop'[p].undo :
               \/ t \in loop[p].undo
               \/ /\ t \in DOMAIN disp
                  /\ \A r \in Procs, i \in Incidents : t \notin Ahead(r, i)',
           \A p \in Procs, i \in Incidents : Tidy(p, i)'
    PROVE  Lines'
<1> USE DEF Lines, IInv, Shape, Once
<1>1. Homed' /\ Backed'
  BY LinesKept
<1>2. Passed'
  BY PassedKept
<1>3. Held'
  BY HeldKept
<1>4. Withdrawn'
  <2>1. ASSUME NEW p \in Procs, NEW t \in loop'[p].undo
        PROVE  t \in DOMAIN disp' /\ \A r \in Procs, i \in Incidents : t \notin Ahead(r, i)'
    BY <2>1 DEF Withdrawn, Narrows, Kept
  <2> QED BY <2>1 DEF Withdrawn
<1>5. Turn'
  <2>1. ASSUME NEW p \in Procs, loop'[p].op = "invoke"
        PROVE  /\ task'[loop'[p].tok].tok # NoToken
               /\ \A n \in DOMAIN log :
                    (/\ log[n] \in DOMAIN disp' /\ disp'[log[n]].proc = p
                     /\ disp'[log[n]].inc = disp'[loop'[p].tok].inc)
                    => log[n] < task'[loop'[p].tok].tok
    <3>1. loop'[p] = loop[p] /\ task'[loop[p].tok].tok = task[loop[p].tok].tok
      BY <2>1
    <3>2. disp'[loop[p].tok].inc = disp[loop[p].tok].inc
      BY <2>1, <3>1 DEF LoopOwnsItsToken, Of, Narrows, Kept
    <3>3. \A n \in DOMAIN log : log[n] \in DOMAIN disp
      BY DEF LoggedAreSpent
    <3> QED BY <2>1, <3>1, <3>2, <3>3 DEF Turn, Invoking, InLine, Narrows, Kept
  <2> QED BY <2>1 DEF Turn, Invoking, InLine
<1>6. Sorted'
  BY DEF Sorted
<1> QED BY <1>1, <1>2, <1>3, <1>4, <1>5, <1>6

(* The steps that give no queue another worker: a task may begin or end.    *)
LEMMA WorkersFramed ==
    ASSUME IInv, Workers, Kept, DOMAIN disp' = DOMAIN disp, processing' = processing,
           \A p \in Procs, i \in Incidents :
               /\ queue'[p][i].worker = queue[p][i].worker
               /\ queue[p][i].worker = NoToken => queue'[p][i] = queue[p][i],
           \A w \in Token :
               \/ task'[w].st = task[w].st
               \/ task[w].st \in {"scheduled", "active"} /\ task'[w].st \in {"active", "done"}
               \/ /\ task[w].st = "done" /\ task'[w].st = "gone"
                  /\ \A p \in Procs, i \in Incidents : queue[p][i].worker # w,
           \A p \in Procs : loop'[p].op \in {"drain", "invoke"} =>
               task'[loop'[p].tok].st = "active"
    PROVE  Workers'
<1> USE DEF Workers, IInv, Shape
<1>1. DOMAIN disp \subseteq Token
  BY TokensOfDisp
<1>2. Manned'
  <2>1. ASSUME NEW p \in Procs, NEW i \in Incidents, NEW w, w = queue[p][i].worker
        PROVE  /\ processing'[p][i] <=> w # NoToken
               /\ w # NoToken => /\ w \in DOMAIN disp' /\ disp'[w].proc = p /\ disp'[w].inc = i
                                 /\ task'[w].st \in {"scheduled", "active", "done"}
               /\ w = NoToken => queue'[p][i] = NoQueue
    <3>1. /\ processing[p][i] <=> w # NoToken
          /\ w # NoToken => /\ w \in DOMAIN disp /\ disp[w].proc = p /\ disp[w].inc = i
                            /\ task[w].st \in {"scheduled", "active", "done"}
          /\ w = NoToken => queue[p][i] = NoQueue
      BY <2>1 DEF Manned, InLine
    <3>2. w # NoToken => task'[w].st \in {"scheduled", "active", "done"}
      BY <1>1, <2>1, <3>1
    <3> QED BY <2>1, <3>1, <3>2 DEF Kept
  <2> QED BY <2>1 DEF Manned, InLine
<1>3. Alone'
  <2>1. ASSUME NEW v \in DOMAIN disp', task'[v].st \in {"scheduled", "active"},
               NEW p, p = disp'[v].proc, NEW i, i = disp'[v].inc
        PROVE  queue'[p][i].worker = v
    <3>1. v \in DOMAIN disp /\ v \in Token /\ p = disp[v].proc /\ i = disp[v].inc
      BY <1>1, <2>1 DEF Kept
    <3>2. p \in Procs /\ i \in Incidents
      BY <3>1, DispatchFields
    <3>3. task[v].st \in {"scheduled", "active"}
      BY <2>1, <3>1
    <3> QED BY <3>1, <3>2, <3>3 DEF Alone
  <2> QED BY <2>1 DEF Alone
<1>4. Unborn'
  BY DEF Unborn
<1>5. Draining'
  BY DEF Draining
<1> QED BY <1>2, <1>3, <1>4, <1>5

(* The steps by which a line gives up its queue, and no task of it is under way. *)
LEMMA WorkersReleased ==
    ASSUME IInv, Workers, Kept, DOMAIN disp' = DOMAIN disp,
           NEW p \in Procs, NEW i \in Incidents,
           queue' = [queue EXCEPT ![p][i] = NoQueue],
           processing' = [processing EXCEPT ![p][i] = FALSE],
           \A w \in Token : InLine(w, p, i) => task'[w].st \notin {"scheduled", "active"},
           \A w \in Token : task'[w].st = task[w].st \/ InLine(w, p, i),
           \A r \in Procs : loop'[r].op \in {"drain", "invoke"} =>
               task'[loop'[r].tok].st = "active"
    PROVE  Workers'
<1> USE DEF Workers, IInv, Shape
<1>1. DOMAIN disp \subseteq Token
  BY TokensOfDisp
<1>2. /\ queue'[p][i] = NoQueue /\ ~processing'[p][i] /\ NoQueue.worker = NoToken
      /\ \A r \in Procs, j \in Incidents : r # p \/ j # i =>
            queue'[r][j] = queue[r][j] /\ processing'[r][j] = processing[r][j]
  BY NoQueueOrdered DEF TypeOK
<1>3. Manned'
  <2>1. ASSUME NEW r \in Procs, NEW j \in Incidents, NEW w, w = queue'[r][j].worker
        PROVE  /\ processing'[r][j] <=> w # NoToken
               /\ w # NoToken => /\ w \in DOMAIN disp' /\ disp'[w].proc = r /\ disp'[w].inc = j
                                 /\ task'[w].st \in {"scheduled", "active", "done"}
               /\ w = NoToken => queue'[r][j] = NoQueue
    <3>1. CASE r = p /\ j = i
      BY <1>2, <2>1, <3>1
    <3>2. CASE r # p \/ j # i
      <4>1. queue'[r][j] = queue[r][j] /\ processing'[r][j] = processing[r][j]
        BY <1>2, <3>2
      <4>2. /\ processing[r][j] <=> w # NoToken
            /\ w # NoToken => /\ w \in DOMAIN disp /\ disp[w].proc = r /\ disp[w].inc = j
                              /\ task[w].st \in {"scheduled", "active", "done"}
            /\ w = NoToken => queue[r][j] = NoQueue
        BY <2>1, <4>1 DEF Manned, InLine
      <4>3. w # NoToken => task'[w].st = task[w].st
        BY <1>1, <3>2, <4>2 DEF InLine
      <4> QED BY <4>1, <4>2, <4>3 DEF Kept
    <3> QED BY <3>1, <3>2
  <2> QED BY <2>1 DEF Manned, InLine
<1>4. Alone'
  <2>1. ASSUME NEW v \in DOMAIN disp', task'[v].st \in {"scheduled", "active"},
               NEW r, r = disp'[v].proc, NEW j, j = disp'[v].inc
        PROVE  queue'[r][j].worker = v
    <3>1. v \in DOMAIN disp /\ v \in Token /\ r = disp[v].proc /\ j = disp[v].inc
      BY <1>1, <2>1 DEF Kept
    <3>2. r \in Procs /\ j \in Incidents
      BY <3>1, DispatchFields
    <3>3. r # p \/ j # i
      BY <2>1, <3>1 DEF InLine
    <3>4. task'[v].st = task[v].st
      BY <3>1, <3>3 DEF InLine
    <3> QED BY <1>2, <2>1, <3>1, <3>2, <3>3, <3>4 DEF Alone
  <2> QED BY <2>1 DEF Alone
<1>5. Unborn'
  BY DEF Unborn, InLine
<1>6. Draining'
  BY DEF Draining
<1> QED BY <1>3, <1>4, <1>5, <1>6

(* Each action, first on the lines and then on the workers.                 *)
LEMMA LinesPreparationFails ==
    ASSUME IInv, Workers, Lines, NEW p \in Procs, PreparationFails(p)
    PROVE  Lines' /\ Workers'
<1> USE DEF Lines, IInv, Shape
<1> DEFINE t == loop[p].tok
<1>1. /\ disp' = Settled({t}, "cancelled") /\ loop' = [loop EXCEPT ![p] = Undoing({t})]
      /\ UNCHANGED <<adm, queue, task, processing, log>> /\ loop[p].op = "admitted"
  BY DEF PreparationFails
<1>2. Kept /\ DOMAIN disp' = DOMAIN disp
  BY <1>1, SettledKeeps, SettledFacts DEF Completion, TypeOK
<1>3. t \in DOMAIN disp /\ disp[t].proc = p
  BY <1>1 DEF LoopOwnsItsToken, Of
<1>4. /\ loop'[p].op = "undo" /\ loop'[p].undo = {t}
      /\ \A r \in Procs \ {p} : loop'[r] = loop[r]
  BY <1>1 DEF TypeOK, Undoing
<1>5. ASSUME NEW r \in Procs, NEW j \in Incidents
      PROVE  Ahead(r, j)' \subseteq Ahead(r, j) /\ t \notin Ahead(r, j)'
  <2>1. CASE r = p
    <3>1. Ahead(p, j)' = Waiting(queue[p][j])
      BY <1>1, <1>4, AheadWaitsNext
    <3>2. \A u \in Waiting(queue[p][j]) : u < t
      BY <1>1 DEF Sorted, Tidy
    <3>3. t \in Int
      BY <1>3, TokensOfDisp
    <3>4. t \notin Waiting(queue[p][j])
      BY <3>2, <3>3
    <3> QED BY <2>1, <3>1, <3>4, AheadWaits
  <2>2. CASE r # p
    <3>1. Ahead(r, j)' = Ahead(r, j)
      BY <1>1, <1>2, <1>4, <2>2, AheadSame
    <3> QED BY <1>3, <2>2, <3>1, LinesApart
  <2> QED BY <2>1, <2>2
<1>6. Narrows
  BY <1>1, <1>5, NarrowsBySettling DEF Completion
<1>7. \A r \in Procs, j \in Incidents : Tidy(r, j)'
  BY <1>1, <1>4, TidyKept DEF Sorted, Workers, Stopping
<1>8. \A r \in Procs : loop'[r].op \in {"drain", "invoke"} =>
          loop'[r] = loop[r] /\ loop[r].tok \in Token
  BY <1>4, TokensOfDisp DEF LoopOwnsItsToken, Of
<1>9. \A r \in Procs : \A u \in loop'[r].undo :
          \/ u \in loop[r].undo
          \/ u \in DOMAIN disp /\ \A s \in Procs, i \in Incidents : u \notin Ahead(s, i)'
  BY <1>3, <1>4, <1>5
<1>10. Lines'
  BY <1>1, <1>6, <1>7, <1>8, <1>9, LinesFramed
<1>11. Workers'
  BY <1>1, <1>2, <1>8, WorkersFramed DEF Workers, Draining
<1> QED BY <1>10, <1>11

LEMMA LinesRollback ==
    ASSUME IInv, Workers, Lines, NEW p \in Procs, Rollback(p)
    PROVE  Lines' /\ Workers'
<1> USE DEF Lines, IInv, Shape
<1>1. PICK t \in loop[p].undo :
        /\ loop' = [loop EXCEPT ![p] = Undoing(@.undo \ {t})]
        /\ adm' = RolledBack(t) \/ UNCHANGED adm
  BY DEF Rollback
<1>2. UNCHANGED <<disp, queue, task, processing, log>> /\ loop[p].op = "undo"
  BY DEF Rollback
<1>3. Kept /\ DOMAIN disp' = DOMAIN disp
  BY <1>2 DEF Kept, TypeOK
<1>4. /\ loop'[p].op \in {"undo", "idle"} /\ loop'[p].undo \subseteq loop[p].undo
      /\ \A r \in Procs \ {p} : loop'[r] = loop[r]
  BY <1>1 DEF TypeOK, Undoing, Idle
<1>5. ASSUME NEW r \in Procs, NEW j \in Incidents
      PROVE  Ahead(r, j)' = Ahead(r, j)
  <2>1. CASE r = p
    BY <1>2, <1>4, <2>1, AheadWaitsNext, AheadWaits
  <2>2. CASE r # p
    BY <1>2, <1>3, <1>4, <2>2, AheadSame
  <2> QED BY <2>1, <2>2
<1>6. ASSUME NEW r \in Procs, NEW j \in Incidents, NEW u \in Ahead(r, j), NEW k \in disp[u].keys
      PROVE  adm'[k] = adm[k]
  <2>1. u # t /\ u \in DOMAIN disp /\ k \in Keys
    BY LinesApart DEF Withdrawn, Once, DispatchesHaveKeys
  <2>2. adm[k] = [state |-> "queued", token |-> u]
    BY DEF Backed, CanMark
  <2> QED BY <1>1, <2>1, <2>2 DEF RolledBack, TypeOK
<1>7. Narrows
  BY <1>2, <1>3, <1>5, <1>6 DEF Narrows
<1>8. \A r \in Procs, j \in Incidents : Tidy(r, j)'
  BY <1>2, <1>4, TidyKept DEF Sorted, Workers, Stopping
<1>9. \A r \in Procs : loop'[r].op \in {"drain", "invoke"} =>
          loop'[r] = loop[r] /\ loop[r].tok \in Token
  BY <1>4, TokensOfDisp DEF LoopOwnsItsToken, Of
<1>10. Lines'
  BY <1>2, <1>4, <1>7, <1>8, <1>9, LinesFramed
<1>11. Workers'
  BY <1>2, <1>3, <1>9, WorkersFramed DEF Workers, Draining
<1> QED BY <1>10, <1>11

LEMMA LinesCancel ==
    ASSUME IInv, Workers, Lines, NEW p \in Procs, NEW w \in DOMAIN disp, Cancel(p, w)
    PROVE  Lines' /\ Workers'
<1> USE DEF Lines, IInv, Shape
<1>1. /\ task' = [task EXCEPT ![w] = [@ EXCEPT !.cancelling = TRUE, !.must = TRUE]]
      /\ UNCHANGED <<adm, disp, queue, loop, processing, log>>
  BY DEF Cancel
<1>2. Kept /\ DOMAIN disp' = DOMAIN disp
  BY <1>1 DEF Kept, TypeOK
<1>3. \A v \in Token : /\ task'[v].st = task[v].st /\ task'[v].tok = task[v].tok
                       /\ Stopping(v) => task'[v].st = "done" \/ task'[v].cancelling
  BY <1>1 DEF TypeOK, Stopping
<1>4. \A r \in Procs, j \in Incidents : Ahead(r, j)' = Ahead(r, j)
  BY <1>1, <1>2, AheadSame
<1>5. Narrows
  BY <1>1, <1>4, NarrowsByLeaving
<1>6. ASSUME NEW r \in Procs, NEW j \in Incidents
      PROVE  Tidy(r, j)'
  <2>1. queue[r][j].worker = NoToken \/ queue[r][j].worker \in Token
    BY DEF TypeOK, Queue
  <2> QED BY <1>1, <1>3, <2>1, TidyKept DEF Sorted, Workers
<1>7. \A r \in Procs : loop'[r].op \in {"drain", "invoke"} =>
          loop[r].op \in {"drain", "invoke"} /\ loop[r].tok \in Token
  BY <1>1, TokensOfDisp DEF LoopOwnsItsToken, Of
<1>8. Lines'
  BY <1>1, <1>3, <1>5, <1>6, <1>7, LinesFramed
<1>9. Workers'
  BY <1>1, <1>2, <1>3, <1>7, WorkersFramed DEF Workers, Draining
<1> QED BY <1>8, <1>9

LEMMA LinesWorkerFirstStep ==
    ASSUME IInv, Workers, Lines, NEW p \in Procs, NEW w \in DOMAIN disp, WorkerFirstStep(p, w)
    PROVE  Lines' /\ Workers'
<1> USE DEF Lines, IInv, Shape
<1>1. /\ UNCHANGED <<adm, disp, queue, processing, log>>
      /\ loop[p] = Idle /\ disp[w].proc = p /\ task[w].st = "scheduled" /\ w \in Token
  BY TokensOfDisp DEF WorkerFirstStep
<1>2. Kept /\ DOMAIN disp' = DOMAIN disp
  BY <1>1 DEF Kept, TypeOK
<1>3. PICK new :
        /\ task' = [task EXCEPT ![w] = new]
        /\ new.tok = task[w].tok /\ new.cancelling = task[w].cancelling
        /\ \/ new.st = "done" /\ loop' = loop
           \/ new.st = "active" /\ loop' = [loop EXCEPT ![p] = At("drain", w)]
  <2>1. task[w] \in Task
    BY <1>1 DEF TypeOK
  <2>2. CASE task[w].must
    <3> DEFINE stopped == [task[w] EXCEPT !.st = "done", !.must = FALSE]
    <3>1. /\ stopped.st = "done" /\ stopped.tok = task[w].tok
          /\ stopped.cancelling = task[w].cancelling
      BY <2>1 DEF Task
    <3>2. task' = [task EXCEPT ![w] = stopped] /\ loop' = loop
      BY <2>2 DEF WorkerFirstStep
    <3> HIDE DEF stopped
    <3> QED BY <3>1, <3>2
  <2>3. CASE ~task[w].must
    <3> DEFINE started == [task[w] EXCEPT !.st = "active"]
    <3>1. /\ started.st = "active" /\ started.tok = task[w].tok
          /\ started.cancelling = task[w].cancelling
      BY <2>1 DEF Task
    <3>2. task' = [task EXCEPT ![w] = started] /\ loop' = [loop EXCEPT ![p] = At("drain", w)]
      BY <2>3 DEF WorkerFirstStep
    <3> HIDE DEF started
    <3> QED BY <3>1, <3>2
  <2> QED BY <2>2, <2>3
<1>4. task'[w] = new /\ \A v \in Token : v # w => task'[v] = task[v]
  BY <1>1, <1>3 DEF TypeOK
<1>5. \A v \in Token : task'[v].tok = task[v].tok
  BY <1>3, <1>4
<1>6. \A v \in Token : Stopping(v) => task'[v].st = "done" \/ task'[v].cancelling
  BY <1>1, <1>3, <1>4 DEF Stopping
<1>7. /\ \A r \in Procs \ {p} : loop'[r] = loop[r]
      /\ loop'[p].op \in {"idle", "drain"} /\ loop'[p].undo = {}
      /\ loop'[p].op = "drain" => loop'[p].tok = w /\ task'[w].st = "active"
  BY <1>1, <1>3, <1>4 DEF TypeOK, Idle, At
<1>8. ASSUME NEW r \in Procs, NEW j \in Incidents
      PROVE  Ahead(r, j)' = Ahead(r, j)
  <2>1. CASE r = p
    <3>1. loop[p].op = "idle"
      BY <1>1 DEF Idle
    <3> QED BY <1>1, <1>7, <2>1, <3>1, AheadWaitsNext, AheadWaits
  <2>2. CASE r # p
    BY <1>1, <1>2, <1>7, <2>2, AheadSame
  <2> QED BY <2>1, <2>2
<1>9. Narrows
  BY <1>1, <1>8, NarrowsByLeaving
<1>10. ASSUME NEW r \in Procs, NEW j \in Incidents
       PROVE  Tidy(r, j)'
  <2>1. queue[r][j].worker = NoToken \/ queue[r][j].worker \in Token
    BY DEF TypeOK, Queue
  <2>2. loop'[r].op = "admitted" => loop'[r] = loop[r]
    BY <1>7
  <2> QED BY <1>1, <1>6, <2>1, <2>2, TidyKept DEF Sorted, Workers
<1>11. ASSUME NEW r \in Procs, r # p, loop'[r].op \in {"drain", "invoke"}
       PROVE  loop'[r] = loop[r] /\ loop[r].tok \in Token /\ loop[r].tok # w
  BY <1>1, <1>7, <1>11, TokensOfDisp DEF LoopOwnsItsToken, Of
<1>12. ASSUME NEW r \in Procs, loop'[r].op \in {"drain", "invoke"}
       PROVE  task'[loop'[r].tok].st = "active"
  <2>1. CASE r = p
    BY <1>7, <1>12, <2>1
  <2>2. CASE r # p
    BY <1>4, <1>11, <1>12, <2>2 DEF Workers, Draining
  <2> QED BY <2>1, <2>2
<1>13. \A r \in Procs : loop'[r].op = "invoke" =>
           loop'[r] = loop[r] /\ task'[loop[r].tok].tok = task[loop[r].tok].tok
  BY <1>4, <1>7, <1>11
<1>14. \A r \in Procs : loop'[r].undo \subseteq loop[r].undo
  BY <1>7
<1>15. ASSUME NEW v \in Token
       PROVE  \/ task'[v].st = task[v].st
              \/ task[v].st \in {"scheduled", "active"} /\ task'[v].st \in {"active", "done"}
  BY <1>1, <1>3, <1>4
<1>16. Lines'
  BY <1>1, <1>5, <1>9, <1>10, <1>13, <1>14, LinesFramed
<1>17. Workers'
  BY <1>1, <1>2, <1>12, <1>15, WorkersFramed
<1> QED BY <1>16, <1>17

(* The dispatch that a worker holds is not ahead any more.                  *)
LEMMA HeldIsPast ==
    ASSUME IInv, Lines, NEW w \in DOMAIN disp, task[w].tok # NoToken,
           NEW r \in Procs, NEW j \in Incidents
    PROVE  task[w].tok \notin Ahead(r, j) /\ task[w].tok \in DOMAIN disp
<1> USE DEF Lines, IInv, Shape
<1>1. PICK p \in Procs, i \in Incidents : disp[w].proc = p /\ disp[w].inc = i
  BY DispatchFields
<1>2. w \in Token
  BY TokensOfDisp
<1>3. /\ InLine(task[w].tok, p, i)
      /\ \A t \in Ahead(p, i) : task[w].tok < t
  BY <1>1, <1>2 DEF Held, InLine
<1>4. task[w].tok \in DOMAIN disp /\ task[w].tok \in Int
  BY <1>3, TokensOfDisp DEF InLine
<1>5. task[w].tok \notin Ahead(p, i)
  BY <1>3, <1>4
<1>6. task[w].tok \in Ahead(r, j) => r = p /\ j = i
  BY <1>3, LinesApart DEF InLine
<1> QED BY <1>4, <1>5, <1>6

LEMMA LinesHandlerEnds ==
    ASSUME IInv, Workers, Lines, NEW p \in Procs, NEW w \in DOMAIN disp, HandlerEnds(p, w)
    PROVE  Lines' /\ Workers'
<1> USE DEF Lines, IInv, Shape
<1>1. /\ UNCHANGED <<adm, queue, processing, log>>
      /\ loop[p] = Idle /\ disp[w].proc = p /\ task[w].st = "active" /\ w \in Token
      /\ task[w].tok # NoToken
      /\ task' = [task EXCEPT ![w] = [@ EXCEPT !.tok = NoToken, !.must = FALSE]]
      /\ loop' = [loop EXCEPT ![p] = At("drain", w)]
  BY TokensOfDisp DEF HandlerEnds, Awaiting
<1>2. PICK o \in Completion : disp' = Settled({task[w].tok}, o)
  BY DEF HandlerEnds, Completion
<1>3. Kept /\ DOMAIN disp' = DOMAIN disp
  BY <1>2, SettledKeeps, SettledFacts DEF TypeOK
<1>4. /\ \A v \in Token : /\ task'[v].st = task[v].st
                          /\ task'[v].tok \in {task[v].tok, NoToken}
                          /\ v # w => task'[v] = task[v]
                          /\ Stopping(v) => task'[v].st = "done" \/ task'[v].cancelling
      /\ \A r \in Procs \ {p} : loop'[r] = loop[r]
      /\ loop'[p].op = "drain" /\ loop'[p].tok = w /\ loop'[p].undo = {}
  BY <1>1 DEF TypeOK, Stopping, At
<1>5. loop[p].op = "idle"
  BY <1>1 DEF Idle
<1>6. ASSUME NEW r \in Procs, NEW j \in Incidents
      PROVE  Ahead(r, j)' = Ahead(r, j) /\ task[w].tok \notin Ahead(r, j)
  <2>1. task[w].tok \notin Ahead(r, j)
    BY <1>1, HeldIsPast
  <2>2. CASE r = p
    BY <1>1, <1>4, <1>5, <2>1, <2>2, AheadWaitsNext, AheadWaits
  <2>3. CASE r # p
    BY <1>1, <1>3, <1>4, <2>1, <2>3, AheadSame
  <2> QED BY <2>2, <2>3
<1>7. Narrows
  BY <1>1, <1>2, <1>6, NarrowsBySettling
<1>8. ASSUME NEW r \in Procs, NEW j \in Incidents
      PROVE  Tidy(r, j)'
  <2>1. queue[r][j].worker = NoToken \/ queue[r][j].worker \in Token
    BY DEF TypeOK, Queue
  <2>2. loop'[r].op = "admitted" => loop'[r] = loop[r]
    BY <1>4
  <2> QED BY <1>1, <1>4, <2>1, <2>2, TidyKept DEF Sorted, Workers
<1>9. ASSUME NEW r \in Procs, r # p, loop'[r].op \in {"drain", "invoke"}
      PROVE  loop'[r] = loop[r] /\ loop[r].tok \in Token /\ loop[r].tok # w
  BY <1>1, <1>4, <1>9, TokensOfDisp DEF LoopOwnsItsToken, Of
<1>10. \A r \in Procs : loop'[r].op \in {"drain", "invoke"} =>
           task'[loop'[r].tok].st = "active"
  BY <1>1, <1>4, <1>9 DEF Workers, Draining
<1>11. \A r \in Procs : loop'[r].op = "invoke" =>
           loop'[r] = loop[r] /\ task'[loop[r].tok].tok = task[loop[r].tok].tok
  BY <1>4, <1>9
<1>12. \A r \in Procs : loop'[r].undo \subseteq loop[r].undo
  BY <1>4
<1>13. Lines'
  BY <1>1, <1>4, <1>7, <1>8, <1>11, <1>12, LinesFramed
<1>14. Workers'
  BY <1>1, <1>3, <1>4, <1>10, WorkersFramed
<1> QED BY <1>13, <1>14

(* The end of _drain(), from its loop or out of a cancelled handler: S is what *)
(* was interrupted, and that is not ahead any more.                            *)
LEMMA LinesLeaveDrain ==
    ASSUME IInv, Workers, Lines, NEW p \in Procs, NEW w \in DOMAIN disp, disp[w].proc = p,
           task[w].st = "active", loop[p].op # "admitted", loop' = [loop EXCEPT ![p] = Idle],
           NEW S, \A r \in Procs, j \in Incidents : \A t \in Ahead(r, j) : t \notin S,
           LeaveDrain(p, w, S), UNCHANGED <<adm, log>>
    PROVE  Lines' /\ Workers'
<1> USE DEF Lines, IInv, Shape
<1> DEFINE i == disp[w].inc
           ended == [task[w] EXCEPT !.st = "done", !.tok = NoToken, !.must = FALSE]
<1>1. w \in Token /\ i \in Incidents /\ task[w] \in Task
  BY TokensOfDisp, DispatchFields DEF TypeOK
<1>2. ended.st = "done" /\ ended.tok = NoToken
  BY <1>1 DEF Task
<1>3. /\ task' = [task EXCEPT ![w] = ended]
      /\ \/ FinishReturns(queue[p][i], w, FALSE) /\ disp' = Settled(S, "cancelled")
            /\ UNCHANGED <<queue, processing>>
         \/ ~FinishReturns(queue[p][i], w, FALSE) /\ Release(p, i, S)
  BY DEF LeaveDrain
<1> HIDE DEF i, ended
<1>4. task'[w] = ended /\ \A v \in Token : v # w => task'[v] = task[v]
  BY <1>1, <1>3 DEF TypeOK
<1>5. \A v \in Token : task'[v].tok \in {task[v].tok, NoToken}
  BY <1>2, <1>4
<1>6. \A v \in Token : Stopping(v) => task'[v].st = "done" \/ task'[v].cancelling
  BY <1>2, <1>4 DEF Stopping
<1>7. /\ \A r \in Procs \ {p} : loop'[r] = loop[r]
      /\ loop'[p].op = "idle" /\ loop'[p].undo = {}
  BY DEF TypeOK, Idle
<1>8. ASSUME NEW r \in Procs, loop'[r].op \in {"drain", "invoke"}
      PROVE  /\ loop'[r] = loop[r] /\ loop[r].tok \in Token /\ loop[r].tok # w
             /\ task'[loop[r].tok] = task[loop[r].tok]
  BY <1>1, <1>4, <1>7, <1>8, TokensOfDisp DEF LoopOwnsItsToken, Of
<1>9. \A r \in Procs : loop'[r].op \in {"drain", "invoke"} => task'[loop'[r].tok].st = "active"
  BY <1>8 DEF Workers, Draining
<1>10. \A r \in Procs : loop'[r].op = "invoke" =>
           loop'[r] = loop[r] /\ task'[loop[r].tok].tok = task[loop[r].tok].tok
  BY <1>8
<1>11. \A r \in Procs : loop'[r].undo \subseteq loop[r].undo
  BY <1>7
<1>12. queue[p][i].worker = w
  BY DEF Workers, Alone, i
<1>13. CASE /\ disp' = Settled(S, "cancelled") /\ UNCHANGED <<queue, processing>>
  <2>1. Kept /\ DOMAIN disp' = DOMAIN disp
    BY <1>13, SettledKeeps, SettledFacts DEF Completion, TypeOK
  <2>2. ASSUME NEW r \in Procs, NEW j \in Incidents
        PROVE  Ahead(r, j)' = Ahead(r, j)
    <3>1. CASE r = p
      BY <1>7, <1>13, <3>1, AheadWaitsNext, AheadWaits
    <3>2. CASE r # p
      BY <1>7, <1>13, <2>1, <3>2, AheadSame
    <3> QED BY <3>1, <3>2
  <2>3. Narrows
    BY <1>13, <2>2, NarrowsBySettling DEF Completion
  <2>4. ASSUME NEW r \in Procs, NEW j \in Incidents
        PROVE  Tidy(r, j)'
    <3>1. queue[r][j].worker = NoToken \/ queue[r][j].worker \in Token
      BY DEF TypeOK, Queue
    <3>2. loop'[r].op = "admitted" => loop'[r] = loop[r]
      BY <1>7
    <3> QED BY <1>6, <1>13, <3>1, <3>2, TidyKept DEF Sorted, Workers
  <2>5. ASSUME NEW v \in Token
        PROVE  \/ task'[v].st = task[v].st
               \/ task[v].st \in {"scheduled", "active"} /\ task'[v].st \in {"active", "done"}
    BY <1>2, <1>4
  <2>6. Lines'
    BY <1>5, <1>10, <1>11, <2>3, <2>4, LinesFramed
  <2>7. Workers'
    BY <1>9, <1>13, <2>1, <2>5, WorkersFramed
  <2> QED BY <2>6, <2>7
<1>14. CASE Release(p, i, S)
  <2> DEFINE R == SeqSet(queue[p][i].pending) \cup S
  <2>1. /\ disp' = Settled(R, "cancelled")
        /\ queue' = [queue EXCEPT ![p][i] = NoQueue]
        /\ processing' = [processing EXCEPT ![p][i] = FALSE]
    BY <1>14 DEF Release
  <2> HIDE DEF R
  <2>2. Kept /\ DOMAIN disp' = DOMAIN disp
    BY <2>1, SettledKeeps, SettledFacts DEF Completion, TypeOK
  <2>3. /\ queue'[p][i] = NoQueue
        /\ \A r \in Procs, j \in Incidents : r # p \/ j # i => queue'[r][j] = queue[r][j]
    BY <1>1, <2>1 DEF TypeOK
  <2>4. ASSUME NEW r \in Procs, NEW j \in Incidents
        PROVE  /\ Ahead(r, j)' \subseteq Ahead(r, j)
               /\ r = p /\ j = i => Ahead(r, j)' = {}
    <3>1. CASE r = p /\ j = i
      <4>1. Waiting(NoQueue) = {}
        BY DEF Waiting, SeqSet, NoQueue
      <4>2. Ahead(r, j)' = Waiting(queue'[r][j])
        BY <1>7, <3>1, AheadWaitsNext
      <4>3. Ahead(r, j)' = {}
        BY <2>3, <3>1, <4>1, <4>2
      <4> QED BY <4>3
    <3>2. CASE r = p /\ j # i
      <4>1. queue'[r][j] = queue[r][j]
        BY <2>3, <3>2
      <4>2. Ahead(r, j)' = Waiting(queue'[r][j]) /\ Ahead(r, j) = Waiting(queue[r][j])
        BY <1>7, <3>2, AheadWaitsNext, AheadWaits
      <4> QED BY <3>2, <4>1, <4>2
    <3>3. CASE r # p
      BY <1>7, <2>2, <2>3, <3>3, AheadSame
    <3> QED BY <3>1, <3>2, <3>3
  <2>5. ASSUME NEW r \in Procs, NEW j \in Incidents, NEW t \in Ahead(r, j)'
        PROVE  t \in Ahead(r, j) /\ t \notin R
    <3>1. t \in Ahead(r, j) /\ ~(r = p /\ j = i)
      BY <2>4, <2>5
    <3>2. SeqSet(queue[p][i].pending) \subseteq Ahead(p, i)
      BY <1>1, AheadWaits DEF Waiting
    <3>3. t \notin Ahead(p, i)
      BY <1>1, <3>1, LinesApart
    <3> QED BY <3>1, <3>2, <3>3 DEF R
  <2>6. Narrows
    BY <2>1, <2>5, NarrowsBySettling DEF Completion
  <2>7. ASSUME NEW r \in Procs, NEW j \in Incidents
        PROVE  Tidy(r, j)'
    <3>1. CASE r = p /\ j = i
      BY <2>3, <3>1, TidyNone
    <3>2. CASE ~(r = p /\ j = i)
      <4>1. queue[r][j].worker = NoToken \/ queue[r][j].worker \in Token
        BY DEF TypeOK, Queue
      <4>2. loop'[r].op = "admitted" => loop'[r] = loop[r]
        BY <1>7
      <4> QED BY <1>6, <2>3, <3>2, <4>1, <4>2, TidyKept DEF Sorted, Workers
    <3> QED BY <3>1, <3>2
  <2>8. ASSUME NEW v \in Token, InLine(v, p, i)
        PROVE  task'[v].st \notin {"scheduled", "active"}
    <3>1. CASE v = w
      BY <1>2, <1>4, <3>1
    <3>2. CASE v # w
      BY <1>4, <1>12, <2>8, <3>2 DEF Workers, Alone, InLine
    <3> QED BY <3>1, <3>2
  <2>9. InLine(w, p, i)
    BY DEF InLine, i
  <2>10. \A v \in Token : task'[v].st = task[v].st \/ InLine(v, p, i)
    BY <1>4, <2>9
  <2>11. Lines'
    BY <1>5, <1>10, <1>11, <2>6, <2>7, LinesFramed
  <2>12. Workers'
    BY <1>1, <1>9, <2>1, <2>2, <2>8, <2>10, WorkersReleased
  <2> QED BY <2>11, <2>12
<1> QED BY <1>3, <1>13, <1>14

LEMMA LinesHandlerCancelled ==
    ASSUME IInv, Workers, Lines, NEW p \in Procs, NEW w \in DOMAIN disp, HandlerCancelled(p, w)
    PROVE  Lines' /\ Workers'
<1>1. /\ disp[w].proc = p /\ task[w].st = "active" /\ task[w].tok # NoToken
      /\ loop[p] = Idle /\ UNCHANGED <<adm, loop, log>> /\ LeaveDrain(p, w, {task[w].tok})
  BY DEF HandlerCancelled, Awaiting
<1>2. loop' = [loop EXCEPT ![p] = Idle] /\ loop[p].op # "admitted"
  BY <1>1 DEF IInv, Shape, TypeOK, Idle
<1>3. \A r \in Procs, j \in Incidents : \A t \in Ahead(r, j) : t \notin {task[w].tok}
  BY <1>1, HeldIsPast
<1> QED BY <1>1, <1>2, <1>3, LinesLeaveDrain

LEMMA LinesDrainReturn ==
    ASSUME IInv, Workers, Lines, NEW p \in Procs, DrainReturn(p)
    PROVE  Lines' /\ Workers'
<1>1. PICK w : w = loop[p].tok
  OBVIOUS
<1>2. /\ loop[p].op = "drain" /\ loop' = [loop EXCEPT ![p] = Idle]
      /\ LeaveDrain(p, w, {}) /\ UNCHANGED <<adm, log>>
  BY <1>1 DEF DrainReturn
<1>3. w \in DOMAIN disp /\ disp[w].proc = p /\ task[w].st = "active"
  BY <1>1, <1>2 DEF IInv, Shape, LoopOwnsItsToken, Of, Workers, Draining
<1>4. PICK S : S = {}
  OBVIOUS
<1>5. LeaveDrain(p, w, S) /\ \A r \in Procs, j \in Incidents : \A t \in Ahead(r, j) : t \notin S
  BY <1>2, <1>4
<1>6. loop[p].op # "admitted"
  BY <1>2
<1> QED BY <1>2, <1>3, <1>5, <1>6, LinesLeaveDrain

(* A step of the process p that leaves all queues but one, and fills that one *)
(* with nothing that was not ahead.                                           *)
LEMMA AheadStep ==
    ASSUME IInv, Kept, NEW p \in Procs, NEW i \in Incidents,
           \A r \in Procs \ {p} : loop'[r] = loop[r],
           loop'[p].op # "admitted",
           \A r \in Procs, j \in Incidents : r # p \/ j # i => queue'[r][j] = queue[r][j],
           Waiting(queue'[p][i]) \subseteq Ahead(p, i)
    PROVE  /\ Ahead(p, i)' = Waiting(queue'[p][i])
           /\ \A r \in Procs, j \in Incidents : Ahead(r, j)' \subseteq Ahead(r, j)
<1>1. \A j \in Incidents : Ahead(p, j)' = Waiting(queue'[p][j])
  BY AheadWaitsNext
<1>2. ASSUME NEW r \in Procs, NEW j \in Incidents
      PROVE  Ahead(r, j)' \subseteq Ahead(r, j)
  <2>1. CASE r = p /\ j = i
    BY <1>1, <2>1
  <2>2. CASE r = p /\ j # i
    <3>1. queue'[p][j] = queue[p][j]
      BY <2>2
    <3>2. Waiting(queue[p][j]) \subseteq Ahead(p, j)
      BY AheadWaits
    <3> QED BY <1>1, <2>2, <3>1, <3>2
  <2>3. CASE r # p
    BY <2>3, AheadSame DEF IInv, Shape
  <2> QED BY <2>1, <2>2, <2>3
<1> QED BY <1>1, <1>2

(* The other queues stay tidy if their workers stay on their way out.        *)
LEMMA OthersTidy ==
    ASSUME IInv, Workers, Sorted, NEW p \in Procs, NEW i \in Incidents,
           \A r \in Procs \ {p} : loop'[r] = loop[r],
           loop'[p].op # "admitted",
           \A r \in Procs, j \in Incidents : r # p \/ j # i => queue'[r][j] = queue[r][j],
           \A v \in Token : Stopping(v) /\ ~InLine(v, p, i) =>
               task'[v].st = "done" \/ task'[v].cancelling
                   \/ \A r \in Procs, j \in Incidents : queue[r][j].worker # v,
           NEW r \in Procs, NEW j \in Incidents, r # p \/ j # i
    PROVE  Tidy(r, j)'
<1>1. queue[r][j].worker = NoToken \/ queue[r][j].worker \in Token
  BY DEF TypeOK, Queue, IInv, Shape
<1>2. queue[r][j].worker # NoToken => ~InLine(queue[r][j].worker, p, i)
  BY DEF Workers, Manned, InLine
<1>3. loop'[r].op = "admitted" => loop'[r] = loop[r]
  OBVIOUS
<1>4. \/ queue[r][j].worker = NoToken
      \/ Stopping(queue[r][j].worker) =>
             \/ task'[queue[r][j].worker].st = "done"
             \/ task'[queue[r][j].worker].cancelling
  BY <1>1, <1>2
<1>5. queue'[r][j] = queue[r][j] /\ Tidy(r, j) /\ Manned
  BY DEF Sorted, Workers
<1> QED BY <1>3, <1>4, <1>5, TidyKept

(* The steps by which a line gets a new worker, and has none under way.      *)
LEMMA WorkersStarted ==
    ASSUME IInv, Workers, Kept, DOMAIN disp' = DOMAIN disp,
           NEW p \in Procs, NEW i \in Incidents, NEW t \in Token, InLine(t, p, i),
           queue'[p][i].worker = t, processing'[p][i], task'[t].st = "scheduled",
           \A r \in Procs, j \in Incidents : r # p \/ j # i =>
               queue'[r][j] = queue[r][j] /\ processing'[r][j] = processing[r][j],
           \A v \in Token : InLine(v, p, i) /\ v # t => task'[v].st \notin {"scheduled", "active"},
           \A v \in Token : task'[v].st = task[v].st \/ InLine(v, p, i),
           \A r \in Procs : loop'[r].op \in {"drain", "invoke"} =>
               task'[loop'[r].tok].st = "active"
    PROVE  Workers'
<1> USE DEF Workers, IInv, Shape
<1>1. DOMAIN disp \subseteq Token /\ t # NoToken
  BY TokensOfDisp DEF Token, NoToken
<1>2. Manned'
  <2>1. ASSUME NEW r \in Procs, NEW j \in Incidents, NEW w, w = queue'[r][j].worker
        PROVE  /\ processing'[r][j] <=> w # NoToken
               /\ w # NoToken => /\ w \in DOMAIN disp' /\ disp'[w].proc = r /\ disp'[w].inc = j
                                 /\ task'[w].st \in {"scheduled", "active", "done"}
               /\ w = NoToken => queue'[r][j] = NoQueue
    <3>1. CASE r = p /\ j = i
      <4>1. t \in DOMAIN disp' /\ disp'[t].proc = p /\ disp'[t].inc = i
        BY DEF InLine, Kept
      <4> QED BY <1>1, <2>1, <3>1, <4>1
    <3>2. CASE r # p \/ j # i
      <4>1. queue'[r][j] = queue[r][j] /\ processing'[r][j] = processing[r][j]
        BY <3>2
      <4>2. /\ processing[r][j] <=> w # NoToken
            /\ w # NoToken => /\ w \in DOMAIN disp /\ disp[w].proc = r /\ disp[w].inc = j
                              /\ task[w].st \in {"scheduled", "active", "done"}
            /\ w = NoToken => queue[r][j] = NoQueue
        BY <2>1, <4>1 DEF Manned, InLine
      <4>3. w # NoToken => task'[w].st = task[w].st
        BY <1>1, <3>2, <4>2 DEF InLine
      <4> QED BY <4>1, <4>2, <4>3 DEF Kept
    <3> QED BY <3>1, <3>2
  <2> QED BY <2>1 DEF Manned, InLine
<1>3. Alone'
  <2>1. ASSUME NEW v \in DOMAIN disp', task'[v].st \in {"scheduled", "active"},
               NEW r, r = disp'[v].proc, NEW j, j = disp'[v].inc
        PROVE  queue'[r][j].worker = v
    <3>1. v \in DOMAIN disp /\ v \in Token /\ r = disp[v].proc /\ j = disp[v].inc
      BY <1>1, <2>1 DEF Kept
    <3>2. r \in Procs /\ j \in Incidents
      BY <3>1, DispatchFields
    <3>3. CASE r = p /\ j = i
      BY <2>1, <3>1, <3>3 DEF InLine
    <3>4. CASE r # p \/ j # i
      <4>1. task'[v].st = task[v].st
        BY <3>1, <3>4 DEF InLine
      <4>2. queue[r][j].worker = v
        BY <2>1, <3>1, <4>1 DEF Alone
      <4> QED BY <3>2, <3>4, <4>2
    <3> QED BY <3>3, <3>4
  <2> QED BY <2>1 DEF Alone
<1>4. Unborn'
  BY DEF Unborn, InLine
<1>5. Draining'
  BY DEF Draining
<1> QED BY <1>2, <1>3, <1>4, <1>5

LEMMA LinesSubmitJoin ==
    ASSUME IInv, Workers, Lines, NEW p \in Procs, SubmitJoin(p)
    PROVE  Lines' /\ Workers'
<1> USE DEF Lines, IInv, Shape
<1>1. PICK t, i : t = loop[p].tok /\ i = disp[t].inc
  OBVIOUS
<1>2. /\ loop[p].op = "admitted" /\ queue[p][i].worker # NoToken
      /\ queue' = [queue EXCEPT ![p][i] = Placed(@, t)]
      /\ loop' = [loop EXCEPT ![p] = Idle]
      /\ UNCHANGED <<adm, disp, task, processing, log>>
  BY <1>1 DEF SubmitJoin, HasWorker
<1>3. t \in DOMAIN disp /\ t \in Token /\ i \in Incidents /\ t \in Ahead(p, i)
  BY <1>1, <1>2, DispatchFields DEF LoopOwnsItsToken, Of, Ahead
<1>4. PICK q \in Queue : q = queue[p][i]
  BY <1>3 DEF TypeOK
<1>5. PICK r : r = Placed(q, t)
  OBVIOUS
<1>6. /\ queue'[p][i] = r
      /\ \A s \in Procs, j \in Incidents : s # p \/ j # i => queue'[s][j] = queue[s][j]
  BY <1>2, <1>3, <1>4, <1>5 DEF TypeOK
<1>7. /\ Ordered(r) /\ r.worker = q.worker
      /\ r.deferred # <<>> => Stopping(r.worker)
  <2>1. Tidy(p, i)
    BY <1>3 DEF Sorted
  <2>2. /\ Ordered(q) /\ \A e \in Waiting(q) : e < t
        /\ q.deferred # <<>> => Stopping(q.worker)
    BY <1>1, <1>2, <1>4, <2>1 DEF Tidy
  <2> QED BY <1>3, <1>5, <2>2, PlacedOrdered
<1>8. Kept /\ DOMAIN disp' = DOMAIN disp
  BY <1>2 DEF Kept, TypeOK
<1>9. /\ \A s \in Procs \ {p} : loop'[s] = loop[s]
      /\ loop'[p].op = "idle" /\ loop'[p].undo = {}
  BY <1>2 DEF TypeOK, Idle
<1>10. Waiting(queue'[p][i]) \subseteq Ahead(p, i)
  BY <1>3, <1>4, <1>5, <1>6, AppendedFacts, AheadWaits
<1>11. \A s \in Procs, j \in Incidents : Ahead(s, j)' \subseteq Ahead(s, j)
  BY <1>3, <1>6, <1>8, <1>9, <1>10, AheadStep
<1>12. Narrows
  BY <1>2, <1>11, NarrowsByLeaving
<1>13. ASSUME NEW s \in Procs, NEW j \in Incidents
       PROVE  Tidy(s, j)'
  <2>1. CASE s = p /\ j = i
    <3>1. r.deferred # <<>> => task'[r.worker].st = "done" \/ task'[r.worker].cancelling
      BY <1>2, <1>7 DEF Stopping
    <3> QED BY <1>6, <1>7, <1>9, <2>1, <3>1, TidyNew
  <2>2. CASE s # p \/ j # i
    <3>1. \A v \in Token : Stopping(v) => task'[v].st = "done" \/ task'[v].cancelling
      BY <1>2 DEF Stopping
    <3> QED BY <1>3, <1>6, <1>9, <2>2, <3>1, OthersTidy
  <2> QED BY <2>1, <2>2
<1>14. \A s \in Procs : loop'[s].op \in {"drain", "invoke"} => loop'[s] = loop[s]
  BY <1>9
<1>15. \A s \in Procs : loop'[s].undo \subseteq loop[s].undo
  BY <1>9
<1>16. Lines'
  BY <1>2, <1>12, <1>13, <1>14, <1>15, LinesFramed
<1>17. ASSUME NEW s \in Procs, NEW j \in Incidents
       PROVE  /\ queue'[s][j].worker = queue[s][j].worker
              /\ queue[s][j].worker = NoToken => queue'[s][j] = queue[s][j]
  BY <1>2, <1>4, <1>6, <1>7
<1>18. \A s \in Procs : loop'[s].op \in {"drain", "invoke"} => task'[loop'[s].tok].st = "active"
  BY <1>2, <1>14 DEF Workers, Draining
<1>19. Workers'
  BY <1>2, <1>8, <1>17, <1>18, WorkersFramed
<1> QED BY <1>16, <1>19

(* An entry of _queues that is deleted holds nothing any more.               *)
LEMMA NothingAhead ==
    ASSUME IInv, Lines, NEW p \in Procs, NEW i \in Incidents, queue'[p][i] = NoQueue,
           Ahead(p, i)' = Waiting(queue'[p][i]),
           \A r \in Procs, j \in Incidents : Ahead(r, j)' \subseteq Ahead(r, j),
           NEW t \in Ahead(p, i), NEW r \in Procs, NEW j \in Incidents
    PROVE  t \notin Ahead(r, j)'
<1>1. Ahead(p, i)' = {}
  BY NoQueueFacts
<1>2. t \in Ahead(r, j) => r = p /\ j = i
  BY LinesApart DEF Lines, IInv, Shape
<1> QED BY <1>1, <1>2

LEMMA LinesSubmitStart ==
    ASSUME IInv, Workers, Lines, NEW p \in Procs, SubmitStart(p)
    PROVE  Lines' /\ Workers'
<1> USE DEF Lines, IInv, Shape
<1>1. PICK t, i : t = loop[p].tok /\ i = disp[t].inc
  OBVIOUS
<1>2. loop[p].op = "admitted" /\ queue[p][i].worker = NoToken /\ UNCHANGED <<adm, log>>
  BY <1>1 DEF SubmitStart, HasWorker
<1>3. t \in DOMAIN disp /\ t \in Token /\ i \in Incidents /\ t \in Ahead(p, i) /\ InLine(t, p, i)
  BY <1>1, <1>2, DispatchFields DEF LoopOwnsItsToken, Of, Ahead, InLine
<1>4. queue[p][i] = NoQueue
  BY <1>2, <1>3 DEF Workers, Manned
<1>5. ASSUME NEW v \in Token, InLine(v, p, i)
      PROVE  task[v].st \notin {"scheduled", "active"}
  BY <1>2, <1>5 DEF Workers, Alone, InLine, Token, NoToken
<1>6. CASE /\ queue' = [queue EXCEPT ![p][i] = Started(@, t)]
           /\ processing' = [processing EXCEPT ![p][i] = TRUE]
           /\ task' = Created(t) /\ loop' = [loop EXCEPT ![p] = Idle] /\ UNCHANGED disp
  <2>1. PICK q : q = Started(NoQueue, t)
    OBVIOUS
  <2>2. /\ queue'[p][i] = q /\ processing'[p][i]
        /\ \A r \in Procs, j \in Incidents : r # p \/ j # i =>
              queue'[r][j] = queue[r][j] /\ processing'[r][j] = processing[r][j]
    BY <1>3, <1>4, <1>6, <2>1 DEF TypeOK
  <2>3. Ordered(q) /\ q.worker = t /\ q.deferred = <<>>
    BY <1>3, <2>1, StartedOrdered
  <2>4. Kept /\ DOMAIN disp' = DOMAIN disp
    BY <1>6 DEF Kept, TypeOK
  <2>5. /\ \A r \in Procs \ {p} : loop'[r] = loop[r]
        /\ loop'[p].op = "idle" /\ loop'[p].undo = {}
    BY <1>6 DEF TypeOK, Idle
  <2>6. /\ task'[t].st = "scheduled" /\ task'[t].tok = NoToken
        /\ \A v \in Token : v # t => task'[v] = task[v]
    BY <1>3, <1>6 DEF Created, NoTask, TypeOK
  <2>7. Waiting(queue'[p][i]) \subseteq Ahead(p, i)
    BY <1>3, <2>1, <2>2, AppendedFacts, NoQueueFacts
  <2>8. \A r \in Procs, j \in Incidents : Ahead(r, j)' \subseteq Ahead(r, j)
    BY <1>3, <2>2, <2>4, <2>5, <2>7, AheadStep
  <2>9. Narrows
    BY <1>2, <1>6, <2>8, NarrowsByLeaving
  <2>10. ASSUME NEW r \in Procs, NEW j \in Incidents
         PROVE  Tidy(r, j)'
    <3>1. CASE r = p /\ j = i
      BY <2>2, <2>3, <2>5, <3>1, TidyNew
    <3>2. CASE r # p \/ j # i
      <4>1. \A v \in Token : Stopping(v) /\ ~InLine(v, p, i) =>
                task'[v].st = "done" \/ task'[v].cancelling
        BY <1>3, <2>6 DEF Stopping
      <4> QED BY <1>3, <2>2, <2>5, <3>2, <4>1, OthersTidy
    <3> QED BY <3>1, <3>2
  <2>11. ASSUME NEW r \in Procs, loop'[r].op \in {"drain", "invoke"}
         PROVE  /\ loop'[r] = loop[r] /\ loop[r].tok \in Token
                /\ task'[loop[r].tok] = task[loop[r].tok]
    <3>1. r # p /\ loop'[r] = loop[r] /\ Of(r, loop[r].tok)
      BY <2>5, <2>11 DEF LoopOwnsItsToken
    <3>2. loop[r].tok \in Token /\ loop[r].tok # t
      BY <1>3, <3>1, TokensOfDisp DEF Of, InLine
    <3> QED BY <2>6, <3>1, <3>2
  <2>12. \A v \in Token : task'[v].tok \in {task[v].tok, NoToken}
    BY <2>6
  <2>13. \A r \in Procs : loop'[r].undo \subseteq loop[r].undo
    BY <2>5
  <2>14. Lines'
    BY <1>2, <2>9, <2>10, <2>11, <2>12, <2>13, LinesFramed
  <2>15. \A v \in Token : InLine(v, p, i) /\ v # t => task'[v].st \notin {"scheduled", "active"}
    BY <1>5, <2>6
  <2>16. \A v \in Token : task'[v].st = task[v].st \/ InLine(v, p, i)
    BY <1>3, <2>6
  <2>17. \A r \in Procs : loop'[r].op \in {"drain", "invoke"} => task'[loop'[r].tok].st = "active"
    BY <2>11 DEF Workers, Draining
  <2>18. Workers'
    BY <1>3, <2>2, <2>3, <2>4, <2>6, <2>15, <2>16, <2>17, WorkersStarted
  <2> QED BY <2>14, <2>18
<1>7. CASE /\ queue' = [queue EXCEPT ![p][i] = NoQueue]
           /\ processing' = [processing EXCEPT ![p][i] = FALSE]
           /\ disp' = Settled({t}, "cancelled")
           /\ loop' = [loop EXCEPT ![p] = Undoing({t})] /\ UNCHANGED task
  <2>1. Kept /\ DOMAIN disp' = DOMAIN disp
    BY <1>7, SettledKeeps, SettledFacts DEF Completion, TypeOK
  <2>2. /\ queue'[p][i] = NoQueue
        /\ \A r \in Procs, j \in Incidents : r # p \/ j # i => queue'[r][j] = queue[r][j]
    BY <1>3, <1>7 DEF TypeOK
  <2>3. /\ \A r \in Procs \ {p} : loop'[r] = loop[r]
        /\ loop'[p].op = "undo" /\ loop'[p].undo = {t}
    BY <1>7 DEF TypeOK, Undoing
  <2>4. /\ Ahead(p, i)' = Waiting(queue'[p][i])
        /\ \A r \in Procs, j \in Incidents : Ahead(r, j)' \subseteq Ahead(r, j)
    BY <1>3, <2>1, <2>2, <2>3, NoQueueFacts, AheadStep
  <2>5. \A r \in Procs, j \in Incidents : t \notin Ahead(r, j)'
    BY <1>3, <2>2, <2>4, NothingAhead
  <2>6. \A r \in Procs, j \in Incidents : \A u \in Ahead(r, j)' : u \in Ahead(r, j) /\ u \notin {t}
    BY <2>4, <2>5
  <2>7. Narrows
    BY <1>2, <1>7, <2>6, NarrowsBySettling DEF Completion
  <2>8. ASSUME NEW r \in Procs, NEW j \in Incidents
        PROVE  Tidy(r, j)'
    <3>1. CASE r = p /\ j = i
      BY <2>2, <3>1, TidyNone
    <3>2. CASE r # p \/ j # i
      <4>1. \A v \in Token : Stopping(v) => task'[v].st = "done" \/ task'[v].cancelling
        BY <1>7 DEF Stopping
      <4> QED BY <1>3, <2>2, <2>3, <3>2, <4>1, OthersTidy
    <3> QED BY <3>1, <3>2
  <2>9. \A r \in Procs : loop'[r].op \in {"drain", "invoke"} => loop'[r] = loop[r]
    BY <2>3
  <2>10. \A r \in Procs : \A u \in loop'[r].undo :
            \/ u \in loop[r].undo
            \/ u \in DOMAIN disp /\ \A s \in Procs, j \in Incidents : u \notin Ahead(s, j)'
    BY <1>3, <2>3, <2>5
  <2>11. Lines'
    BY <1>2, <1>7, <2>7, <2>8, <2>9, <2>10, LinesFramed
  <2>12. \A r \in Procs : loop'[r].op \in {"drain", "invoke"} => task'[loop'[r].tok].st = "active"
    BY <1>7, <2>9 DEF Workers, Draining
  <2>13. \A v \in Token : InLine(v, p, i) => task'[v].st \notin {"scheduled", "active"}
    BY <1>5, <1>7
  <2>14. Workers'
    BY <1>3, <1>7, <2>1, <2>12, <2>13, WorkersReleased
  <2> QED BY <2>11, <2>14
<1> QED BY <1>1, <1>6, <1>7 DEF SubmitStart

LEMMA LinesInvokeHandler ==
    ASSUME IInv, Workers, Lines, NEW p \in Procs, InvokeHandler(p)
    PROVE  Lines' /\ Workers'
<1> USE DEF Lines, IInv, Shape
<1>1. PICK w, t : w = loop[p].tok /\ t = task[w].tok
  OBVIOUS
<1>2. /\ loop[p].op = "invoke" /\ log' = Append(log, t) /\ loop' = [loop EXCEPT ![p] = Idle]
      /\ UNCHANGED <<adm, disp, queue, task, processing>>
  BY <1>1 DEF InvokeHandler
<1>3. w \in DOMAIN disp /\ w \in Token /\ disp[w].proc = p /\ t # NoToken
  BY <1>1, <1>2, TokensOfDisp DEF LoopOwnsItsToken, Of, Turn, Invoking
<1>4. PICK i \in Incidents : i = disp[w].inc
  BY <1>3, DispatchFields
<1>5. InLine(t, p, i) /\ \A u \in Ahead(p, i) : t < u
  BY <1>1, <1>3, <1>4 DEF Held, InLine
<1>6. Kept /\ DOMAIN disp' = DOMAIN disp
  BY <1>2 DEF Kept, TypeOK
<1>7. /\ \A r \in Procs \ {p} : loop'[r] = loop[r]
      /\ loop'[p].op = "idle" /\ loop'[p].undo = {}
  BY <1>2 DEF TypeOK, Idle
<1>8. Waiting(queue'[p][i]) \subseteq Ahead(p, i)
  BY <1>2, AheadWaits
<1>9. \A r \in Procs, j \in Incidents : Ahead(r, j)' \subseteq Ahead(r, j)
  BY <1>2, <1>6, <1>7, <1>8, AheadStep
<1>10. Narrows
  BY <1>2, <1>9, NarrowsByLeaving
<1>11. /\ DOMAIN log' = DOMAIN log \cup {Len(log) + 1}
       /\ \A n \in DOMAIN log' : log'[n] = t \/ (n \in DOMAIN log /\ log'[n] = log[n])
  <2>1. log \in Seq(Token) /\ t \in Token
    BY <1>5, TokensOfDisp DEF InLine, TypeOK
  <2>2. /\ DOMAIN log = 1 .. Len(log) /\ Len(log) \in Nat
        /\ DOMAIN log' = 1 .. Len(log) + 1 /\ log'[Len(log) + 1] = t
        /\ \A n \in 1 .. Len(log) : log'[n] = log[n]
    BY <1>2, <2>1
  <2>3. DOMAIN log' = DOMAIN log \cup {Len(log) + 1}
    BY <2>2
  <2>4. ASSUME NEW n \in DOMAIN log'
        PROVE  log'[n] = t \/ (n \in DOMAIN log /\ log'[n] = log[n])
    <3>1. CASE n = Len(log) + 1
      BY <2>2, <3>1
    <3>2. CASE n # Len(log) + 1
      <4>1. n \in 1 .. Len(log)
        BY ONLY <2>2, <2>3, <3>2, n \in DOMAIN log'
      <4> QED BY <2>2, <4>1
    <3> QED BY <3>1, <3>2
  <2> QED BY <2>3, <2>4
<1>12. Homed' /\ Backed'
  BY <1>10, LinesKept
<1>13. Passed'
  <2>1. ASSUME NEW r \in Procs, NEW j \in Incidents, NEW u \in Ahead(r, j)',
               NEW n \in DOMAIN log', InLine(log'[n], r, j)
        PROVE  log'[n] < u
    <3>1. u \in Ahead(r, j)
      BY <1>9, <2>1
    <3>2. CASE log'[n] = t
      <4>1. r = p /\ j = i
        BY <1>5, <2>1, <3>2 DEF InLine
      <4> QED BY <1>5, <3>1, <3>2, <4>1
    <3>3. CASE n \in DOMAIN log /\ log'[n] = log[n]
      BY <2>1, <3>1, <3>3 DEF Passed
    <3> QED BY <1>11, <3>2, <3>3
  <2> QED BY <1>2, <2>1 DEF Passed, InLine
<1>14. Held'
  BY <1>2, <1>10, HeldKept
<1>15. Withdrawn'
  <2>1. ASSUME NEW r \in Procs, NEW u \in loop'[r].undo
        PROVE  u \in DOMAIN disp' /\ \A s \in Procs, j \in Incidents : u \notin Ahead(s, j)'
    BY <1>6, <1>7, <1>9, <2>1 DEF Withdrawn
  <2> QED BY <2>1 DEF Withdrawn
<1>16. Turn'
  <2>1. ASSUME NEW r \in Procs, loop'[r].op = "invoke"
        PROVE  /\ task[loop[r].tok].tok # NoToken
               /\ \A n \in DOMAIN log' :
                    InLine(log'[n], r, disp[loop[r].tok].inc) => log'[n] < task[loop[r].tok].tok
               /\ loop'[r] = loop[r]
    <3>1. r # p /\ loop'[r] = loop[r]
      BY <1>7, <2>1
    <3>2. \A n \in DOMAIN log' : InLine(log'[n], r, disp[loop[r].tok].inc) =>
              n \in DOMAIN log /\ log'[n] = log[n]
      BY <1>5, <1>11, <3>1 DEF InLine
    <3> QED BY <2>1, <3>1, <3>2 DEF Turn, Invoking
  <2> QED BY <1>2, <2>1 DEF Turn, Invoking, InLine
<1>17. Sorted'
  <2>1. \A v \in Token : Stopping(v) => task'[v].st = "done" \/ task'[v].cancelling
    BY <1>2 DEF Stopping
  <2>2. ASSUME NEW r \in Procs, NEW j \in Incidents
        PROVE  Tidy(r, j)'
    <3>1. queue[r][j].worker = NoToken \/ queue[r][j].worker \in Token
      BY DEF TypeOK, Queue
    <3>2. loop'[r].op = "admitted" => loop'[r] = loop[r]
      BY <1>7
    <3> QED BY <1>2, <2>1, <3>1, <3>2, TidyKept DEF Sorted, Workers
  <2> QED BY <2>2 DEF Sorted
<1>18. Lines'
  BY <1>12, <1>13, <1>14, <1>15, <1>16, <1>17
<1>19. \A r \in Procs : loop'[r].op \in {"drain", "invoke"} => task'[loop'[r].tok].st = "active"
  BY <1>2, <1>7 DEF Workers, Draining
<1>20. Workers'
  BY <1>2, <1>6, <1>19, WorkersFramed
<1> QED BY <1>18, <1>20

LEMMA LinesDrainTake ==
    ASSUME IInv, Workers, Lines, NEW p \in Procs, DrainTake(p)
    PROVE  Lines' /\ Workers'
<1> USE DEF Lines, IInv, Shape
<1>1. PICK w, i, t : w = loop[p].tok /\ i = disp[w].inc /\ t = Head(queue[p][i].pending)
  OBVIOUS
<1>2. /\ loop[p].op = "drain" /\ queue[p][i].worker = w /\ queue[p][i].pending # <<>>
      /\ queue' = [queue EXCEPT ![p][i].pending = Tail(@)]
      /\ UNCHANGED <<processing, log>>
  BY <1>1 DEF DrainTake
<1>3. w \in DOMAIN disp /\ w \in Token /\ i \in Incidents /\ InLine(w, p, i)
  BY <1>1, <1>2, DispatchFields DEF LoopOwnsItsToken, Of, InLine
<1>4. PICK q \in Queue : q = queue[p][i]
  BY <1>3 DEF TypeOK
<1>5. PICK r : r = [q EXCEPT !.pending = Tail(@)]
  OBVIOUS
<1>6. /\ queue'[p][i] = r
      /\ \A s \in Procs, j \in Incidents : s # p \/ j # i => queue'[s][j] = queue[s][j]
  BY <1>2, <1>3, <1>4, <1>5 DEF TypeOK
<1>7. Tidy(p, i) /\ Ordered(q) /\ (q.deferred # <<>> => Stopping(q.worker))
  BY <1>3, <1>4 DEF Sorted, Tidy
<1>8. /\ Ordered(r) /\ r.worker = q.worker /\ r.deferred = q.deferred
      /\ Waiting(r) \subseteq Waiting(q) \ {t}
      /\ \A e \in Waiting(r) : t < e
  <2>1. q.pending # <<>> /\ Head(q.pending) = t
    BY <1>1, <1>2, <1>4
  <2> QED BY <1>5, <1>7, <2>1, TakenOrdered
<1>9. t \in Ahead(p, i)
  BY <1>1, <1>2, <1>3, <1>4, TakenFacts, AheadWaits
<1>10. t \in Token /\ t # NoToken /\ InLine(t, p, i)
  BY <1>3, <1>9, LinesApart DEF InLine, Token, NoToken
<1>11. ASSUME Kept, \A s \in Procs \ {p} : loop'[s] = loop[s], loop'[p].op # "admitted"
       PROVE  /\ Ahead(p, i)' = Waiting(r)
              /\ \A s \in Procs, j \in Incidents :
                    Ahead(s, j)' \subseteq Ahead(s, j) /\ t \notin Ahead(s, j)'
  <2>1. Waiting(queue'[p][i]) \subseteq Ahead(p, i)
    BY <1>3, <1>4, <1>6, <1>8, AheadWaits
  <2>2. /\ Ahead(p, i)' = Waiting(queue'[p][i])
        /\ \A s \in Procs, j \in Incidents : Ahead(s, j)' \subseteq Ahead(s, j)
    BY <1>3, <1>6, <1>11, <2>1, AheadStep
  <2>3. \A s \in Procs, j \in Incidents : t \notin Ahead(s, j)'
    BY <1>3, <1>6, <1>8, <1>9, <2>2, LinesApart
  <2> QED BY <1>6, <2>2, <2>3
<1>12. ASSUME \A s \in Procs \ {p} : loop'[s] = loop[s], loop'[p].op # "admitted",
              \A v \in Token : Stopping(v) => task'[v].st = "done" \/ task'[v].cancelling,
              NEW s \in Procs, NEW j \in Incidents
       PROVE  Tidy(s, j)'
  <2>1. CASE s = p /\ j = i
    <3>1. r.deferred # <<>> => task'[r.worker].st = "done" \/ task'[r.worker].cancelling
      BY <1>2, <1>3, <1>4, <1>7, <1>8, <1>12
    <3> QED BY <1>6, <1>8, <1>12, <2>1, <3>1, TidyNew
  <2>2. CASE s # p \/ j # i
    BY <1>3, <1>6, <1>12, <2>2, OthersTidy
  <2> QED BY <2>1, <2>2
<1>13. ASSUME NEW s \in Procs, NEW j \in Incidents
       PROVE  /\ queue'[s][j].worker = queue[s][j].worker
              /\ queue[s][j].worker = NoToken => queue'[s][j] = queue[s][j]
  BY <1>2, <1>3, <1>4, <1>6, <1>8 DEF Token, NoToken
<1>14. CASE /\ CanMark(t) /\ adm' = MarkedAttempted(t)
            /\ task' = [task EXCEPT ![w].tok = t]
            /\ loop' = [loop EXCEPT ![p] = At("invoke", w)] /\ UNCHANGED disp
  <2>1. Kept /\ DOMAIN disp' = DOMAIN disp
    BY <1>14 DEF Kept, TypeOK
  <2>2. /\ \A s \in Procs \ {p} : loop'[s] = loop[s]
        /\ loop'[p].op = "invoke" /\ loop'[p].tok = w /\ loop'[p].undo = {}
    BY <1>14 DEF TypeOK, At
  <2>3. /\ task'[w].tok = t /\ \A v \in Token : v # w => task'[v] = task[v]
    BY <1>3, <1>14 DEF TypeOK, Task
  <2>4. \A v \in Token : task'[v].st = task[v].st /\ task'[v].cancelling = task[v].cancelling
    BY <1>3, <1>14 DEF TypeOK, Task
  <2>5. /\ Ahead(p, i)' = Waiting(r)
        /\ \A s \in Procs, j \in Incidents :
              Ahead(s, j)' \subseteq Ahead(s, j) /\ t \notin Ahead(s, j)'
    BY <1>11, <2>1, <2>2
  <2>6. ASSUME NEW s \in Procs, NEW j \in Incidents, NEW u \in Ahead(s, j)', NEW k \in disp[u].keys
        PROVE  adm'[k] = adm[k]
    <3>1. u \in Ahead(s, j) /\ u # t
      BY <2>5
    <3>2. u \in DOMAIN disp /\ k \in Keys
      BY <3>1, LinesApart DEF Once, DispatchesHaveKeys
    <3>3. adm[k] = [state |-> "queued", token |-> u]
      BY <3>1 DEF Backed, CanMark
    <3>4. k \notin disp[t].keys
      BY <1>14, <3>1, <3>3 DEF CanMark
    <3> QED BY <1>14, <3>2, <3>4 DEF MarkedAttempted
  <2>7. Narrows
    BY <1>14, <2>1, <2>5, <2>6 DEF Narrows
  <2>8. Homed' /\ Backed' /\ Passed'
    BY <1>2, <2>7, LinesKept, PassedKept DEF Once
  <2>9. Held'
    <3>1. ASSUME NEW v \in Token, task'[v].tok # NoToken, NEW s \in Procs, NEW j \in Incidents,
                 InLine(v, s, j)
          PROVE  InLine(task'[v].tok, s, j) /\ \A u \in Ahead(s, j)' : task'[v].tok < u
      <4>1. CASE v = w
        <5>1. s = p /\ j = i
          BY <1>3, <3>1, <4>1 DEF InLine
        <5> QED BY <1>8, <1>10, <2>3, <2>5, <4>1, <5>1
      <4>2. CASE v # w
        BY <2>3, <2>5, <3>1, <4>2 DEF Held
      <4> QED BY <4>1, <4>2
    <3>2. \A v \in Token : task'[v].tok # NoToken => v \in DOMAIN disp
      BY <1>3, <2>3 DEF Held
    <3> QED BY <1>14, <3>1, <3>2 DEF Held, InLine
  <2>10. Withdrawn'
    <3>1. ASSUME NEW s \in Procs, NEW u \in loop'[s].undo
          PROVE  u \in DOMAIN disp' /\ \A x \in Procs, j \in Incidents : u \notin Ahead(x, j)'
      BY <2>1, <2>2, <2>5, <3>1 DEF Withdrawn
    <3> QED BY <3>1 DEF Withdrawn
  <2>11. Turn'
    <3>1. ASSUME NEW s \in Procs, loop'[s].op = "invoke"
          PROVE  /\ task'[loop'[s].tok].tok # NoToken
                 /\ \A n \in DOMAIN log :
                      InLine(log[n], s, disp[loop'[s].tok].inc) => log[n] < task'[loop'[s].tok].tok
      <4>1. CASE s = p
        <5>1. \A n \in DOMAIN log : InLine(log[n], p, i) => log[n] < t
          BY <1>3, <1>9 DEF Passed
        <5> QED BY <1>1, <1>10, <2>2, <2>3, <4>1, <5>1
      <4>2. CASE s # p
        <5>1. loop'[s] = loop[s] /\ loop[s].tok \in Token /\ loop[s].tok # w
          BY <1>3, <2>2, <3>1, <4>2, TokensOfDisp DEF LoopOwnsItsToken, Of, InLine
        <5> QED BY <2>3, <3>1, <5>1 DEF Turn, Invoking
      <4> QED BY <4>1, <4>2
    <3> QED BY <1>2, <1>14, <3>1 DEF Turn, Invoking, InLine
  <2>12. Sorted'
    BY <1>12, <2>2, <2>4 DEF Sorted, Stopping
  <2>13. ASSUME NEW s \in Procs, loop'[s].op \in {"drain", "invoke"}
         PROVE  task'[loop'[s].tok].st = "active"
    <3>1. loop[s].op \in {"drain", "invoke"} /\ loop'[s].tok = loop[s].tok /\ loop[s].tok \in Token
      BY <1>1, <1>2, <1>3, <2>2, <2>13, TokensOfDisp DEF LoopOwnsItsToken, Of
    <3> QED BY <2>4, <3>1 DEF Workers, Draining
  <2>14. Workers'
    BY <1>2, <1>13, <2>1, <2>4, <2>13, WorkersFramed
  <2> QED BY <2>8, <2>9, <2>10, <2>11, <2>12, <2>14
<1>15. CASE disp' = Settled({t}, "exception") /\ UNCHANGED <<adm, task, loop>>
  <2>1. Kept /\ DOMAIN disp' = DOMAIN disp
    BY <1>15, SettledKeeps, SettledFacts DEF Completion, TypeOK
  <2>2. (\A s \in Procs \ {p} : loop'[s] = loop[s]) /\ loop'[p].op # "admitted"
    BY <1>2, <1>15
  <2>3. \A s \in Procs, j \in Incidents : \A u \in Ahead(s, j)' : u \in Ahead(s, j) /\ u \notin {t}
    BY <1>11, <2>1, <2>2
  <2>4. Narrows
    BY <1>15, <2>3, NarrowsBySettling DEF Completion
  <2>5. \A v \in Token : Stopping(v) => task'[v].st = "done" \/ task'[v].cancelling
    BY <1>15 DEF Stopping
  <2>6. \A s \in Procs, j \in Incidents : Tidy(s, j)'
    BY <1>12, <2>2, <2>5
  <2>7. Lines'
    BY <1>2, <1>15, <2>4, <2>6, LinesFramed
  <2>8. \A s \in Procs : loop'[s].op \in {"drain", "invoke"} => task'[loop'[s].tok].st = "active"
    BY <1>15 DEF Workers, Draining
  <2>9. Workers'
    BY <1>2, <1>13, <1>15, <2>1, <2>8, WorkersFramed
  <2> QED BY <2>7, <2>9
<1> QED BY <1>1, <1>14, <1>15 DEF DrainTake

LEMMA LinesDoneCallback ==
    ASSUME IInv, Workers, Lines, NEW p \in Procs, NEW w \in DOMAIN disp, DoneCallback(p, w)
    PROVE  Lines' /\ Workers'
<1> USE DEF Lines, IInv, Shape
<1>1. PICK i, over : i = disp[w].inc /\ over = [task EXCEPT ![w].st = "gone"]
  OBVIOUS
<1>2. w \in Token /\ i \in Incidents /\ InLine(w, p, i)
  BY <1>1, DispatchFields DEF DoneCallback, InLine
<1>3. PICK q \in Queue : q = queue[p][i]
  BY <1>2 DEF TypeOK
<1>4. loop[p].op = "idle" /\ loop[p].undo = {} /\ task[w].st = "done" /\ UNCHANGED <<adm, log>>
  BY DEF DoneCallback, Idle
<1>5. /\ over[w].st = "gone" /\ over[w].tok = task[w].tok
      /\ \A v \in Token : v # w => over[v] = task[v]
      /\ DOMAIN over = Token
  <2> DEFINE gone == [task[w] EXCEPT !.st = "gone"]
  <2>1. task[w] \in Task /\ task \in [Token -> Task]
    BY <1>2 DEF TypeOK
  <2>2. gone.st = "gone" /\ gone.tok = task[w].tok
    BY <2>1 DEF Task
  <2>3. over = [task EXCEPT ![w] = gone]
    BY <1>1
  <2> HIDE DEF gone
  <2> QED BY <1>2, <2>1, <2>2, <2>3
<1>6. \A r \in Procs : loop[r].op \in {"drain", "invoke"} =>
          loop[r].tok \in Token /\ task[loop[r].tok].st = "active" /\ loop[r].tok # w
  BY <1>4, TokensOfDisp DEF Workers, Draining, LoopOwnsItsToken, Of
<1>7. ASSUME q.worker = w, NEW v \in Token, v # w, InLine(v, p, i)
      PROVE  task[v].st \notin {"scheduled", "active"}
  BY <1>3, <1>7 DEF Workers, Alone, InLine
<1>8. CASE /\ q.worker # w /\ task' = over
           /\ UNCHANGED <<disp, queue, loop, processing>>
  <2>1. Kept /\ DOMAIN disp' = DOMAIN disp
    BY <1>8 DEF Kept, TypeOK
  <2>2. \A r \in Procs, j \in Incidents : Ahead(r, j)' = Ahead(r, j)
    BY <1>8, <2>1, AheadSame
  <2>3. Narrows
    BY <1>4, <1>8, <2>2, NarrowsByLeaving
  <2>4. \A r \in Procs, j \in Incidents : queue[r][j].worker # w
    BY <1>2, <1>3, <1>8 DEF Workers, Manned, InLine, Token, NoToken
  <2>5. ASSUME NEW r \in Procs, NEW j \in Incidents
        PROVE  Tidy(r, j)'
    <3>1. queue[r][j].worker = NoToken \/ queue[r][j].worker \in Token
      BY DEF TypeOK, Queue
    <3>2. \/ queue[r][j].worker = NoToken
          \/ task'[queue[r][j].worker] = task[queue[r][j].worker]
      BY <1>5, <1>8, <2>4, <3>1
    <3> QED BY <1>8, <3>2, TidyKept DEF Sorted, Workers, Stopping
  <2>6. \A v \in Token : task'[v].tok \in {task[v].tok, NoToken}
    BY <1>5, <1>8
  <2>7. \A r \in Procs : loop'[r].op \in {"drain", "invoke"} =>
            loop'[r] = loop[r] /\ task'[loop[r].tok] = task[loop[r].tok]
    BY <1>5, <1>6, <1>8
  <2>8. Lines'
    BY <1>4, <1>8, <2>3, <2>5, <2>6, <2>7, LinesFramed
  <2>9. ASSUME NEW v \in Token
        PROVE  \/ task'[v].st = task[v].st
               \/ /\ task[v].st = "done" /\ task'[v].st = "gone"
                  /\ \A r \in Procs, j \in Incidents : queue[r][j].worker # v
    BY <1>4, <1>5, <1>8, <2>4
  <2>10. \A r \in Procs : loop'[r].op \in {"drain", "invoke"} => task'[loop'[r].tok].st = "active"
    BY <1>6, <1>8, <2>7
  <2>11. Workers'
    BY <1>8, <2>1, <2>9, <2>10, WorkersFramed
  <2> QED BY <2>8, <2>11
<1>9. CASE /\ q.worker = w /\ q.deferred = <<>> /\ task' = over
           /\ Release(p, i, {}) /\ UNCHANGED loop
  <2>1. PICK S : S = SeqSet(q.pending) \cup {}
    OBVIOUS
  <2>2. /\ disp' = Settled(S, "cancelled") /\ queue' = [queue EXCEPT ![p][i] = NoQueue]
        /\ processing' = [processing EXCEPT ![p][i] = FALSE]
    BY <1>3, <1>9, <2>1 DEF Release
  <2>3. Kept /\ DOMAIN disp' = DOMAIN disp
    BY <2>2, SettledKeeps, SettledFacts DEF Completion, TypeOK
  <2>4. /\ queue'[p][i] = NoQueue
        /\ \A r \in Procs, j \in Incidents : r # p \/ j # i => queue'[r][j] = queue[r][j]
    BY <1>2, <2>2 DEF TypeOK
  <2>5. loop'[p].op # "admitted" /\ \A r \in Procs \ {p} : loop'[r] = loop[r]
    BY <1>4, <1>9
  <2>6. /\ Ahead(p, i)' = Waiting(queue'[p][i])
        /\ \A r \in Procs, j \in Incidents : Ahead(r, j)' \subseteq Ahead(r, j)
    BY <1>2, <2>3, <2>4, <2>5, NoQueueFacts, AheadStep
  <2>7. \A u \in S : u \in Ahead(p, i)
    BY <1>2, <1>3, <2>1, AheadWaits DEF Waiting
  <2>8. ASSUME NEW r \in Procs, NEW j \in Incidents, NEW u \in Ahead(r, j)'
        PROVE  u \in Ahead(r, j) /\ u \notin S
    BY <1>2, <2>4, <2>6, <2>7, <2>8, NothingAhead
  <2>9. Narrows
    BY <1>4, <2>2, <2>8, NarrowsBySettling DEF Completion
  <2>10. ASSUME NEW r \in Procs, NEW j \in Incidents
         PROVE  Tidy(r, j)'
    <3>1. CASE r = p /\ j = i
      BY <2>4, <3>1, TidyNone
    <3>2. CASE r # p \/ j # i
      <4>1. \A v \in Token : Stopping(v) /\ ~InLine(v, p, i) =>
                task'[v].st = "done" \/ task'[v].cancelling
        BY <1>2, <1>5, <1>9 DEF Stopping
      <4> QED BY <1>2, <2>4, <2>5, <3>2, <4>1, OthersTidy
    <3> QED BY <3>1, <3>2
  <2>11. \A v \in Token : task'[v].tok \in {task[v].tok, NoToken}
    BY <1>5, <1>9
  <2>12. \A r \in Procs : loop'[r].op \in {"drain", "invoke"} =>
            loop'[r] = loop[r] /\ task'[loop[r].tok] = task[loop[r].tok]
    BY <1>5, <1>6, <1>9
  <2>13. Lines'
    BY <1>4, <1>9, <2>9, <2>10, <2>11, <2>12, LinesFramed
  <2>14. \A v \in Token : InLine(v, p, i) => task'[v].st \notin {"scheduled", "active"}
    BY <1>5, <1>7, <1>9
  <2>15. \A v \in Token : task'[v].st = task[v].st \/ InLine(v, p, i)
    BY <1>2, <1>5, <1>9
  <2>16. \A r \in Procs : loop'[r].op \in {"drain", "invoke"} => task'[loop'[r].tok].st = "active"
    BY <1>6, <1>9, <2>12
  <2>17. Workers'
    BY <1>2, <2>2, <2>3, <2>14, <2>15, <2>16, WorkersReleased
  <2> QED BY <2>13, <2>17
<1>10. ASSUME q.deferred # <<>>, NEW u, u \in Waiting(q)
       PROVE  u \in Ahead(p, i) /\ InLine(u, p, i) /\ u \in Token
  BY <1>2, <1>3, <1>10, AheadWaits, LinesApart DEF InLine
<1>11. CASE /\ q.worker = w /\ q.deferred # <<>>
            /\ task' = [over EXCEPT ![Head(q.deferred)] = [NoTask EXCEPT !.st = "scheduled"]]
            /\ disp' = Settled(SeqSet(q.pending), "cancelled")
            /\ queue' = [queue EXCEPT ![p][i] =
                  [pending |-> q.deferred, deferred |-> <<>>, worker |-> Head(q.deferred)]]
            /\ UNCHANGED <<loop, processing>>
  <2>1. PICK t, n : t = Head(q.deferred) /\ n = [pending |-> q.deferred, deferred |-> <<>>, worker |-> t]
    OBVIOUS
  <2>2. /\ n \in Queue /\ Waiting(n) \subseteq Waiting(q) /\ t \in Token /\ t \in Waiting(q)
        /\ n.worker = t /\ n.deferred = <<>> /\ n.pending = q.deferred
    BY <1>11, <2>1, HandedOver
  <2>3. Ordered(n)
    <3>1. Ordered(q)
      BY <1>2, <1>3 DEF Sorted, Tidy
    <3> QED BY <2>1, <3>1, HandedOrdered
  <2>4. InLine(t, p, i)
    BY <1>10, <1>11, <2>2
  <2>5. /\ queue'[p][i] = n
        /\ \A r \in Procs, j \in Incidents : r # p \/ j # i => queue'[r][j] = queue[r][j]
    BY <1>2, <1>11, <2>1 DEF TypeOK
  <2>6. /\ task'[t].st = "scheduled" /\ task'[t].tok = NoToken
        /\ \A v \in Token : v # t => task'[v] = over[v]
    BY <1>5, <1>11, <2>1, <2>2 DEF NoTask
  <2>7. PICK S : S = SeqSet(q.pending)
    OBVIOUS
  <2>8. Kept /\ DOMAIN disp' = DOMAIN disp
    BY <1>11, SettledKeeps, SettledFacts DEF Completion, TypeOK
  <2>9. loop'[p].op # "admitted" /\ \A r \in Procs \ {p} : loop'[r] = loop[r]
    BY <1>4, <1>11
  <2>10. Waiting(queue'[p][i]) \subseteq Ahead(p, i)
    BY <1>2, <1>3, <2>2, <2>5, AheadWaits
  <2>11. /\ Ahead(p, i)' = Waiting(n)
         /\ \A r \in Procs, j \in Incidents : Ahead(r, j)' \subseteq Ahead(r, j)
    BY <1>2, <2>5, <2>8, <2>9, <2>10, AheadStep
  <2>12. \A u \in Waiting(n) : u \notin S
    <3>1. Ordered(q) /\ q.pending \in Seq(Token) /\ q.deferred \in Seq(Token)
      BY <1>2, <1>3, QueueFields DEF Sorted, Tidy
    <3>2. Waiting(n) = SeqSet(q.deferred)
      BY <2>2, NoQueueFacts DEF Waiting, NoQueue
    <3>3. SeqSet(q.pending) \subseteq Token
      BY <3>1, SeqSetFacts
    <3>4. \A a \in SeqSet(q.pending), b \in SeqSet(q.deferred) : a < b
      BY <3>1 DEF Ordered
    <3>5. ASSUME NEW u \in Waiting(n), u \in S PROVE FALSE
      <4>1. u \in Int /\ u < u
        BY <2>7, <3>2, <3>3, <3>4, <3>5 DEF Token
      <4> QED BY <4>1
    <3> QED BY <3>5
  <2>13. \A u \in S : u \in Ahead(p, i)
    BY <1>2, <1>3, <2>7, AheadWaits DEF Waiting
  <2>14. ASSUME NEW r \in Procs, NEW j \in Incidents, NEW u \in Ahead(r, j)'
         PROVE  u \in Ahead(r, j) /\ u \notin S
    <3>1. CASE r = p /\ j = i
      BY <2>11, <2>12, <2>14, <3>1
    <3>2. CASE r # p \/ j # i
      <4>1. u \notin Ahead(p, i)
        BY <1>2, <2>11, <2>14, <3>2, LinesApart
      <4> QED BY <2>11, <2>13, <2>14, <4>1
    <3> QED BY <3>1, <3>2
  <2>15. Narrows
    BY <1>4, <1>11, <2>7, <2>14, NarrowsBySettling DEF Completion
  <2>16. ASSUME NEW r \in Procs, NEW j \in Incidents
         PROVE  Tidy(r, j)'
    <3>1. CASE r = p /\ j = i
      BY <2>2, <2>3, <2>5, <2>9, <3>1, TidyNew
    <3>2. CASE r # p \/ j # i
      <4>1. \A v \in Token : Stopping(v) /\ ~InLine(v, p, i) =>
                task'[v].st = "done" \/ task'[v].cancelling
        BY <1>2, <1>5, <2>4, <2>6 DEF Stopping
      <4> QED BY <1>2, <2>5, <2>9, <3>2, <4>1, OthersTidy
    <3> QED BY <3>1, <3>2
  <2>17. \A v \in Token : task'[v].tok \in {task[v].tok, NoToken}
    BY <1>2, <1>5, <2>6
  <2>18. ASSUME NEW r \in Procs, loop'[r].op \in {"drain", "invoke"}
         PROVE  loop'[r] = loop[r] /\ task'[loop[r].tok] = task[loop[r].tok]
    <3>1. loop'[r] = loop[r] /\ loop[r].tok # w /\ loop[r].tok \in Token /\ Of(r, loop[r].tok) /\ r # p
      BY <1>4, <1>6, <1>11, <2>18 DEF LoopOwnsItsToken
    <3>2. loop[r].tok # t
      BY <2>4, <3>1 DEF Of, InLine
    <3> QED BY <1>5, <2>6, <3>1, <3>2
  <2>19. Lines'
    BY <1>4, <1>11, <2>15, <2>16, <2>17, <2>18, LinesFramed
  <2>20. ASSUME NEW v \in Token, InLine(v, p, i), v # t
         PROVE  task'[v].st \notin {"scheduled", "active"}
    <3>1. CASE v = w
      BY <1>5, <2>6, <2>20, <3>1
    <3>2. CASE v # w
      <4>1. task'[v] = task[v]
        BY <1>5, <2>6, <2>20, <3>2
      <4>2. task[v].st \notin {"scheduled", "active"}
        BY <1>7, <1>11, <2>20, <3>2
      <4> QED BY <4>1, <4>2
    <3> QED BY <3>1, <3>2
  <2>21. \A v \in Token : task'[v].st = task[v].st \/ InLine(v, p, i)
    BY <1>2, <1>5, <2>4, <2>6
  <2>22. ASSUME NEW r \in Procs, loop'[r].op \in {"drain", "invoke"}
         PROVE  task'[loop'[r].tok].st = "active"
    <3>1. loop'[r] = loop[r] /\ task'[loop[r].tok] = task[loop[r].tok]
      BY <2>18, <2>22
    <3>2. task[loop[r].tok].st = "active"
      BY <1>6, <2>22, <3>1
    <3> QED BY <3>1, <3>2
  <2>23. processing'[p][i] /\ processing' = processing
    BY <1>2, <1>3, <1>11 DEF Workers, Manned, Token, NoToken
  <2>24. Workers'
    BY <1>2, <2>2, <2>4, <2>5, <2>6, <2>8, <2>20, <2>21, <2>22, <2>23, WorkersStarted
  <2> QED BY <2>19, <2>24
<1>12. CASE /\ q.worker = w /\ q.deferred # <<>> /\ task' = over
            /\ disp' = SettledTwo(SeqSet(q.deferred), SeqSet(q.pending))
            /\ queue' = [queue EXCEPT ![p][i] = NoQueue]
            /\ processing' = [processing EXCEPT ![p][i] = FALSE]
            /\ loop' = [loop EXCEPT ![p] = Undoing(SeqSet(q.deferred))]
  <2>1. PICK S, R : S = SeqSet(q.deferred) /\ R = SeqSet(q.pending)
    OBVIOUS
  <2>2. Kept /\ DOMAIN disp' = DOMAIN disp
    BY <1>12, SettledTwoKeeps DEF SettledTwo
  <2>3. /\ queue'[p][i] = NoQueue
        /\ \A r \in Procs, j \in Incidents : r # p \/ j # i => queue'[r][j] = queue[r][j]
    BY <1>2, <1>12 DEF TypeOK
  <2>4. /\ \A r \in Procs \ {p} : loop'[r] = loop[r]
        /\ loop'[p].op \in {"idle", "undo"} /\ loop'[p].undo \subseteq S
    BY <1>12, <2>1 DEF TypeOK, Undoing, Idle
  <2>5. /\ Ahead(p, i)' = Waiting(queue'[p][i])
        /\ \A r \in Procs, j \in Incidents : Ahead(r, j)' \subseteq Ahead(r, j)
    BY <1>2, <2>2, <2>3, <2>4, NoQueueFacts, AheadStep
  <2>6. \A u \in S \cup R : u \in Ahead(p, i) /\ u \in DOMAIN disp
    BY <1>10, <1>12, <2>1 DEF Waiting, InLine
  <2>7. \A u \in S \cup R, r \in Procs, j \in Incidents : u \notin Ahead(r, j)'
    BY <1>2, <2>3, <2>5, <2>6, NothingAhead
  <2>8. ASSUME NEW r \in Procs, NEW j \in Incidents, NEW u \in Ahead(r, j)'
        PROVE  u \in Ahead(r, j) /\ disp'[u].completion = disp[u].completion
    <3>1. u \in Ahead(r, j) /\ u \in DOMAIN disp /\ u \notin S /\ u \notin R
      BY <2>5, <2>7, <2>8, LinesApart
    <3> QED BY <1>12, <2>1, <3>1, SettledTwoOthers
  <2>9. Narrows
    BY <1>4, <2>2, <2>8 DEF Narrows
  <2>10. ASSUME NEW r \in Procs, NEW j \in Incidents
         PROVE  Tidy(r, j)'
    <3>1. CASE r = p /\ j = i
      BY <2>3, <3>1, TidyNone
    <3>2. CASE r # p \/ j # i
      <4>1. \A v \in Token : Stopping(v) /\ ~InLine(v, p, i) =>
                task'[v].st = "done" \/ task'[v].cancelling
        BY <1>2, <1>5, <1>12 DEF Stopping
      <4>2. loop'[p].op # "admitted"
        BY <2>4
      <4> QED BY <1>2, <2>3, <2>4, <3>2, <4>1, <4>2, OthersTidy
    <3> QED BY <3>1, <3>2
  <2>11. \A v \in Token : task'[v].tok \in {task[v].tok, NoToken}
    BY <1>5, <1>12
  <2>12. \A r \in Procs : loop'[r].op \in {"drain", "invoke"} =>
            loop'[r] = loop[r] /\ task'[loop[r].tok] = task[loop[r].tok]
    BY <1>5, <1>6, <1>12, <2>4
  <2>13. \A r \in Procs : \A u \in loop'[r].undo :
            \/ u \in loop[r].undo
            \/ u \in DOMAIN disp /\ \A s \in Procs, j \in Incidents : u \notin Ahead(s, j)'
    BY <2>4, <2>6, <2>7
  <2>14. Lines'
    BY <1>4, <2>9, <2>10, <2>11, <2>12, <2>13, LinesFramed
  <2>15. \A v \in Token : InLine(v, p, i) => task'[v].st \notin {"scheduled", "active"}
    BY <1>5, <1>7, <1>12
  <2>16. \A v \in Token : task'[v].st = task[v].st \/ InLine(v, p, i)
    BY <1>2, <1>5, <1>12
  <2>17. \A r \in Procs : loop'[r].op \in {"drain", "invoke"} => task'[loop'[r].tok].st = "active"
    BY <1>6, <1>12, <2>12
  <2>18. Workers'
    BY <1>2, <1>12, <2>2, <2>15, <2>16, <2>17, WorkersReleased
  <2> QED BY <2>14, <2>18
<1> QED BY <1>1, <1>3, <1>8, <1>9, <1>11, <1>12 DEF DoneCallback, FinishReturns

(* An admission puts one dispatch at the end of its line.                    *)
LEMMA LinesSubmitAdmit ==
    ASSUME IInv, Workers, Lines, NEW p \in Procs, NEW i \in Incidents, NEW K \in SUBSET Keys,
           SubmitAdmit(p, i, K)
    PROVE  Lines' /\ Workers'
<1> USE DEF Lines, IInv, Shape
<1>1. PICK t : t = Len(disp) + 1
  OBVIOUS
<1>2. /\ loop[p] = Idle /\ adm' = Admitted(t, Fresh(K)) /\ loop' = [loop EXCEPT ![p] = At("admitted", t)]
      /\ UNCHANGED <<queue, task, processing, log>>
  BY <1>1 DEF SubmitAdmit
<1>3. /\ Kept /\ DOMAIN disp' = DOMAIN disp \cup {t} /\ t \in Token \ DOMAIN disp
      /\ disp'[t].proc = p /\ disp'[t].keys = Fresh(K)
  BY <1>1, AdmitKeeps
<1>4. /\ disp'[t].inc = i /\ disp'[t].completion = "pending"
      /\ \A u \in DOMAIN disp : disp'[u] = disp[u] /\ u \in Int /\ u < t
  <2>1. disp' = Append(disp, [proc |-> p, inc |-> i, keys |-> Fresh(K), completion |-> "pending"])
    BY DEF SubmitAdmit
  <2>2. disp \in Seq(Dispatch) /\ DOMAIN disp = 1 .. Len(disp) /\ Len(disp) \in Nat
    BY TokensOfDisp DEF TypeOK
  <2>3. disp'[t] = [proc |-> p, inc |-> i, keys |-> Fresh(K), completion |-> "pending"]
    BY <1>1, <2>1, <2>2
  <2>4. \A u \in DOMAIN disp : disp'[u] = disp[u] /\ u \in Int /\ u < t
    BY <1>1, <2>1, <2>2
  <2> QED BY <2>3, <2>4
<1>5. /\ \A r \in Procs \ {p} : loop'[r] = loop[r]
      /\ loop'[p].op = "admitted" /\ loop'[p].tok = t /\ loop'[p].undo = {}
      /\ loop[p].op = "idle"
  BY <1>2 DEF TypeOK, At, Idle
<1>6. ASSUME NEW r \in Procs, NEW j \in Incidents, NEW u \in Ahead(r, j)'
      PROVE  (u \in Ahead(r, j) /\ u \in DOMAIN disp) \/ (u = t /\ r = p /\ j = i)
  <2>1. CASE u \in Waiting(queue[r][j])
    BY <2>1, AheadWaits, LinesApart
  <2>2. CASE u \notin Waiting(queue[r][j])
    <3>1. u = loop'[r].tok /\ loop'[r].op = "admitted" /\ disp'[u].inc = j
      BY <1>2, <1>6, <2>2 DEF Ahead, Waiting, SeqSet
    <3>2. CASE r = p
      BY <1>4, <1>5, <3>1, <3>2
    <3>3. CASE r # p
      <4>1. loop[r].op = "admitted" /\ u = loop[r].tok /\ u \in DOMAIN disp
        BY <1>5, <3>1, <3>3 DEF LoopOwnsItsToken, Of
      <4> QED BY <1>4, <3>1, <4>1 DEF Ahead
    <3> QED BY <3>2, <3>3
  <2> QED BY <2>1, <2>2
<1>7. \A u, r, j : u \in DOMAIN disp => (InLine(u, r, j)' <=> InLine(u, r, j))
  BY <1>3, <1>4 DEF InLine
<1>8. Homed'
  <2>1. ASSUME NEW r \in Procs, NEW j \in Incidents, NEW u \in Ahead(r, j)'
        PROVE  u \in DOMAIN disp' /\ disp'[u].proc = r /\ disp'[u].inc = j
    <3>1. CASE u \in Ahead(r, j) /\ u \in DOMAIN disp
      BY <1>3, <1>4, <3>1 DEF Homed, InLine
    <3>2. CASE u = t /\ r = p /\ j = i
      BY <1>3, <1>4, <3>2
    <3> QED BY <1>6, <2>1, <3>1, <3>2
  <2> QED BY <2>1 DEF Homed, InLine
<1>9. Backed'
  <2>1. ASSUME NEW r \in Procs, NEW j \in Incidents, NEW u \in Ahead(r, j)'
        PROVE  /\ disp'[u].completion = "pending"
               /\ \A k \in disp'[u].keys : adm'[k] = [state |-> "queued", token |-> u]
    <3>1. CASE u \in Ahead(r, j) /\ u \in DOMAIN disp
      <4>1. /\ disp[u].completion = "pending"
            /\ \A k \in disp[u].keys : adm[k] = [state |-> "queued", token |-> u] /\ k \in Keys
        BY <3>1 DEF Backed, CanMark, Once, DispatchesHaveKeys
      <4>2. \A k \in disp[u].keys : k \notin Fresh(K)
        BY <4>1 DEF Fresh, NoRow
      <4> QED BY <1>2, <1>4, <3>1, <4>1, <4>2 DEF Admitted
    <3>2. CASE u = t /\ r = p /\ j = i
      BY <1>2, <1>3, <1>4, <3>2 DEF Admitted, Fresh
    <3> QED BY <1>6, <2>1, <3>1, <3>2
  <2> QED BY <2>1 DEF Backed, CanMark
<1>10. Withdrawn'
  <2>1. ASSUME NEW r \in Procs, NEW u \in loop'[r].undo
        PROVE  u \in DOMAIN disp' /\ \A s \in Procs, j \in Incidents : u \notin Ahead(s, j)'
    <3>1. u \in DOMAIN disp /\ \A s \in Procs, j \in Incidents : u \notin Ahead(s, j)
      BY <1>5, <2>1 DEF Withdrawn
    <3> QED BY <1>3, <1>6, <3>1
  <2> QED BY <2>1 DEF Withdrawn
<1>11. Passed'
  <2>1. ASSUME NEW r \in Procs, NEW j \in Incidents, NEW u \in Ahead(r, j)', NEW n \in DOMAIN log,
               disp'[log[n]].proc = r, disp'[log[n]].inc = j
        PROVE  log[n] < u
    <3>1. log[n] \in DOMAIN disp
      BY DEF Once, LoggedAreSpent
    <3>2. InLine(log[n], r, j)
      BY <1>4, <2>1, <3>1 DEF InLine
    <3>3. CASE u \in Ahead(r, j)
      BY <3>2, <3>3 DEF Passed
    <3>4. CASE u = t
      BY <1>4, <3>1, <3>4
    <3> QED BY <1>6, <3>3, <3>4
  <2> QED BY <1>2, <2>1 DEF Passed, InLine
<1>12. Held'
  <2>1. ASSUME NEW w \in Token, task[w].tok # NoToken
        PROVE  /\ w \in DOMAIN disp'
               /\ \A r \in Procs, j \in Incidents :
                     (disp'[w].proc = r /\ disp'[w].inc = j) =>
                        /\ task[w].tok \in DOMAIN disp' /\ disp'[task[w].tok].proc = r
                        /\ disp'[task[w].tok].inc = j
                        /\ \A u \in Ahead(r, j)' : task[w].tok < u
    <3>1. w \in DOMAIN disp
      BY <2>1 DEF Held
    <3>2. ASSUME NEW r \in Procs, NEW j \in Incidents, disp[w].proc = r, disp[w].inc = j
          PROVE  InLine(task[w].tok, r, j) /\ \A u \in Ahead(r, j)' : task[w].tok < u
      <4>1. InLine(task[w].tok, r, j) /\ \A u \in Ahead(r, j) : task[w].tok < u
        BY <2>1, <3>1, <3>2 DEF Held, InLine
      <4>2. task[w].tok < t
        BY <1>4, <4>1 DEF InLine
      <4> QED BY <1>6, <4>1, <4>2
    <3> QED BY <1>3, <1>4, <3>1, <3>2 DEF InLine
  <2> QED BY <1>2, <2>1 DEF Held, InLine
<1>13. Turn'
  <2>1. ASSUME NEW r \in Procs, loop'[r].op = "invoke"
        PROVE  /\ task[loop'[r].tok].tok # NoToken
               /\ \A n \in DOMAIN log :
                     (disp'[log[n]].proc = r /\ disp'[log[n]].inc = disp'[loop'[r].tok].inc) =>
                         log[n] < task[loop'[r].tok].tok
    <3>1. loop'[r] = loop[r] /\ loop[r].tok \in DOMAIN disp
      BY <1>5, <2>1 DEF LoopOwnsItsToken, Of
    <3>2. \A n \in DOMAIN log : log[n] \in DOMAIN disp
      BY DEF Once, LoggedAreSpent
    <3> QED BY <1>4, <2>1, <3>1, <3>2 DEF Turn, Invoking, InLine
  <2> QED BY <1>2, <2>1 DEF Turn, Invoking, InLine
<1>14. Sorted'
  <2>1. ASSUME NEW r \in Procs, NEW j \in Incidents
        PROVE  Tidy(r, j)'
    <3>1. CASE r # p
      <4>1. queue[r][j].worker = NoToken \/ queue[r][j].worker \in Token
        BY DEF TypeOK, Queue
      <4>2. loop'[r] = loop[r]
        BY <1>5, <3>1
      <4> QED BY <1>2, <4>1, <4>2, TidyKept DEF Sorted, Workers, Stopping
    <3>2. CASE r = p
      <4>1. Tidy(p, j)
        BY <3>2 DEF Sorted
      <4>2. \A u \in Waiting(queue[p][j]) : u < t
        BY <1>4, AheadWaits, LinesApart
      <4>3. Ordered(queue[r][j])'
        BY <1>2, <3>2, <4>1 DEF Tidy, Ordered, Rising, SeqSet
      <4>4. queue'[r][j].deferred # <<>> => Stopping(queue[r][j].worker)'
        BY <1>2, <3>2, <4>1 DEF Tidy, Stopping
      <4>5. \A u \in Waiting(queue[r][j])' : u < loop'[r].tok
        BY <1>2, <1>5, <3>2, <4>2 DEF Waiting, SeqSet
      <4> QED BY <4>3, <4>4, <4>5 DEF Tidy
    <3> QED BY <3>1, <3>2
  <2> QED BY <2>1 DEF Sorted
<1>15. Manned'
  BY <1>2, <1>7 DEF Workers, Manned, InLine
<1>16. Alone'
  <2>1. task[t].st = "none"
    BY <1>3 DEF Workers, Unborn
  <2>2. ASSUME NEW v \in DOMAIN disp', task[v].st \in {"scheduled", "active"}
        PROVE  queue[disp'[v].proc][disp'[v].inc].worker = v
    BY <1>3, <1>4, <2>1, <2>2 DEF Workers, Alone
  <2> QED BY <1>2, <2>2 DEF Alone
<1>17. Unborn'
  BY <1>2, <1>3 DEF Workers, Unborn
<1>18. Draining'
  BY <1>2, <1>5 DEF Workers, Draining
<1> QED BY <1>8, <1>9, <1>10, <1>11, <1>12, <1>13, <1>14, <1>15, <1>16, <1>17, <1>18 DEF Workers

(* A crash empties all the lines of its process and leaves the others.       *)
LEMMA LinesCrash ==
    ASSUME IInv, Workers, Lines, NEW p \in Procs, Crash(p)
    PROVE  Lines' /\ Workers'
<1> USE DEF Lines, IInv, Shape
<1>1. PICK mine : mine = {t \in DOMAIN disp : disp[t].proc = p}
  OBVIOUS
<1>2. /\ disp' = Settled(mine, "lost") /\ UNCHANGED <<adm, log>>
      /\ queue' = [queue EXCEPT ![p] = [i \in Incidents |-> NoQueue]]
      /\ loop' = [loop EXCEPT ![p] = Idle]
      /\ processing' = [processing EXCEPT ![p] = [i \in Incidents |-> FALSE]]
      /\ task' = [t \in Token |-> IF t \in mine /\ task[t].st # "none"
                                 THEN [NoTask EXCEPT !.st = "gone"] ELSE task[t]]
  BY <1>1 DEF Crash
<1>3. Kept /\ DOMAIN disp' = DOMAIN disp
  BY <1>2, SettledKeeps, SettledFacts DEF Completion, TypeOK
<1>4. /\ \A r \in Procs \ {p} : loop'[r] = loop[r]
      /\ loop'[p].op = "idle" /\ loop'[p].undo = {}
  BY <1>2 DEF TypeOK, Idle
<1>5. \A j \in Incidents :
        /\ queue'[p][j] = NoQueue /\ ~processing'[p][j]
        /\ \A r \in Procs \ {p} : queue'[r][j] = queue[r][j] /\ processing'[r][j] = processing[r][j]
  BY <1>2 DEF TypeOK
<1>6. \A v \in Token :
        /\ v \in mine => task'[v].st \in {"none", "gone"} /\ task'[v].tok \in {task[v].tok, NoToken}
        /\ v \notin mine => task'[v] = task[v]
  BY <1>2 DEF NoTask
<1>7. ASSUME NEW r \in Procs, NEW j \in Incidents
      PROVE  IF r = p THEN Ahead(r, j)' = {} ELSE Ahead(r, j)' = Ahead(r, j)
  <2>1. CASE r = p
    <3>1. Ahead(r, j)' = Waiting(queue'[r][j])
      BY <1>4, <2>1, AheadWaitsNext
    <3> QED BY <1>5, <2>1, <3>1, NoQueueFacts
  <2>2. CASE r # p
    BY <1>3, <1>4, <1>5, <2>2, AheadSame
  <2> QED BY <2>1, <2>2
<1>8. ASSUME NEW r \in Procs, NEW j \in Incidents, NEW u \in Ahead(r, j)'
      PROVE  u \in Ahead(r, j) /\ u \notin mine
  BY <1>1, <1>7, <1>8, LinesApart
<1>9. Narrows
  BY <1>2, <1>8, NarrowsBySettling DEF Completion
<1>10. ASSUME NEW r \in Procs, NEW j \in Incidents
       PROVE  Tidy(r, j)'
  <2>1. CASE r = p
    BY <1>5, <2>1, TidyNone
  <2>2. CASE r # p
    <3>1. queue[r][j].worker = NoToken \/ queue[r][j].worker \in Token
      BY DEF TypeOK, Queue
    <3>2. queue[r][j].worker # NoToken => task'[queue[r][j].worker] = task[queue[r][j].worker]
      BY <1>1, <1>6, <2>2, <3>1 DEF Workers, Manned, InLine
    <3> QED BY <1>4, <1>5, <2>2, <3>2, TidyKept DEF Sorted, Workers, Stopping
  <2> QED BY <2>1, <2>2
<1>11. ASSUME NEW r \in Procs, loop'[r].op \in {"drain", "invoke"}
       PROVE  /\ loop'[r] = loop[r] /\ loop[r].tok \in Token
              /\ task'[loop[r].tok] = task[loop[r].tok]
  <2>1. r # p /\ loop'[r] = loop[r] /\ Of(r, loop[r].tok)
    BY <1>4, <1>11 DEF LoopOwnsItsToken
  <2>2. loop[r].tok \in Token /\ loop[r].tok \notin mine
    BY <1>1, <2>1, TokensOfDisp DEF Of
  <2> QED BY <1>6, <2>1, <2>2
<1>12. \A v \in Token : task'[v].tok \in {task[v].tok, NoToken}
  BY <1>6
<1>13. \A r \in Procs : loop'[r].undo \subseteq loop[r].undo
  BY <1>4
<1>14. Lines'
  BY <1>2, <1>9, <1>10, <1>11, <1>12, <1>13, LinesFramed
<1>15. DOMAIN disp \subseteq Token
  BY TokensOfDisp
<1>16. Manned'
  <2>1. ASSUME NEW r \in Procs, NEW j \in Incidents, NEW w, w = queue'[r][j].worker
        PROVE  /\ processing'[r][j] <=> w # NoToken
               /\ w # NoToken => /\ w \in DOMAIN disp' /\ disp'[w].proc = r /\ disp'[w].inc = j
                                 /\ task'[w].st \in {"scheduled", "active", "done"}
               /\ w = NoToken => queue'[r][j] = NoQueue
    <3>1. CASE r = p
      BY <1>5, <2>1, <3>1, NoQueueOrdered
    <3>2. CASE r # p
      <4>1. queue'[r][j] = queue[r][j] /\ processing'[r][j] = processing[r][j]
        BY <1>5, <3>2
      <4>2. /\ processing[r][j] <=> w # NoToken
            /\ w # NoToken => /\ w \in DOMAIN disp /\ disp[w].proc = r /\ disp[w].inc = j
                              /\ task[w].st \in {"scheduled", "active", "done"}
            /\ w = NoToken => queue[r][j] = NoQueue
        BY <2>1, <4>1 DEF Workers, Manned, InLine
      <4>3. w # NoToken => task'[w] = task[w]
        BY <1>1, <1>6, <1>15, <3>2, <4>2
      <4> QED BY <1>3, <4>1, <4>2, <4>3 DEF Kept
    <3> QED BY <3>1, <3>2
  <2> QED BY <2>1 DEF Manned, InLine
<1>17. Alone'
  <2>1. ASSUME NEW v \in DOMAIN disp', task'[v].st \in {"scheduled", "active"},
               NEW r, r = disp'[v].proc, NEW j, j = disp'[v].inc
        PROVE  queue'[r][j].worker = v
    <3>1. v \in DOMAIN disp /\ v \in Token /\ r = disp[v].proc /\ j = disp[v].inc
      BY <1>3, <1>15, <2>1 DEF Kept
    <3>2. r \in Procs /\ j \in Incidents
      BY <3>1, DispatchFields
    <3>3. r # p /\ task'[v] = task[v]
      BY <1>1, <1>6, <2>1, <3>1
    <3> QED BY <1>5, <2>1, <3>1, <3>2, <3>3 DEF Workers, Alone
  <2> QED BY <2>1 DEF Alone
<1>18. Unborn'
  BY <1>1, <1>3, <1>6 DEF Workers, Unborn
<1>19. Draining'
  BY <1>11 DEF Workers, Draining
<1> QED BY <1>14, <1>16, <1>17, <1>18, <1>19 DEF Workers

-----------------------------------------------------------------------------
(* The invariant of the lines and of their workers.                          *)
LinesInv == IInv /\ Workers /\ Lines

LEMMA LinesInit == Init => LinesInv
<1> SUFFICES ASSUME Init PROVE LinesInv
  OBVIOUS
<1> USE DEF Init, NoQueue, NoTask, Idle
<1>1. IInv
  BY IInvInit
<1>2. \A p \in Procs, i \in Incidents : Ahead(p, i) = {}
  BY DEF Ahead, Waiting, SeqSet
<1>3. Homed /\ Backed /\ Passed
  BY <1>2 DEF Homed, Backed, Passed
<1>4. Withdrawn /\ Held /\ Turn
  BY DEF Withdrawn, Held, Turn
<1>5. Sorted
  BY DEF Sorted, Tidy, Ordered, Rising, Waiting, SeqSet
<1>6. Manned
  BY DEF Manned
<1>7. Alone /\ Unborn /\ Draining
  BY DEF Alone, Unborn, Draining
<1> QED BY <1>1, <1>3, <1>4, <1>5, <1>6, <1>7 DEF LinesInv, Lines, Workers

LEMMA LinesStutter ==
    ASSUME IInv, Workers, Lines, UNCHANGED vars
    PROVE  Lines' /\ Workers'
<1> USE DEF Lines, IInv, Shape
<1>1. UNCHANGED <<adm, disp, queue, task, loop, processing, log>>
  BY DEF vars
<1>2. Kept /\ DOMAIN disp' = DOMAIN disp
  BY <1>1 DEF Kept, TypeOK
<1>3. Narrows
  BY <1>1, <1>2, AheadSame, NarrowsByLeaving
<1>4. \A r \in Procs, j \in Incidents : Tidy(r, j)'
  BY <1>1, TidyKept DEF Sorted, Workers, Stopping
<1>5. Lines'
  BY <1>1, <1>3, <1>4, LinesFramed
<1>6. Workers'
  BY <1>1, <1>2, WorkersFramed DEF Workers, Draining
<1> QED BY <1>5, <1>6

LEMMA LinesStep == LinesInv /\ [Next]_vars => LinesInv'
<1> SUFFICES ASSUME LinesInv, [Next]_vars PROVE LinesInv'
  OBVIOUS
<1> USE DEF LinesInv
<1>1. IInv'
  BY IInvStep
<1>2. ASSUME NEW p \in Procs, NEW i \in Incidents, NEW K \in SUBSET Keys, SubmitAdmit(p, i, K)
      PROVE  Lines' /\ Workers'
  BY <1>2, LinesSubmitAdmit
<1>3. ASSUME NEW p \in Procs, LoopGoesOn(p)
      PROVE  Lines' /\ Workers'
  BY <1>3, LinesPreparationFails, LinesSubmitJoin, LinesSubmitStart, LinesRollback,
     LinesDrainTake, LinesDrainReturn, LinesInvokeHandler DEF LoopGoesOn
<1>4. ASSUME NEW p \in Procs, NEW w \in DOMAIN disp, TaskGoesOn(p, w) \/ Cancel(p, w)
      PROVE  Lines' /\ Workers'
  BY <1>4, LinesWorkerFirstStep, LinesHandlerEnds, LinesHandlerCancelled, LinesDoneCallback,
     LinesCancel DEF TaskGoesOn
<1>5. ASSUME NEW p \in Procs, Crash(p)
      PROVE  Lines' /\ Workers'
  BY <1>5, LinesCrash
<1>6. CASE UNCHANGED vars
  BY <1>1, <1>6, LinesStutter
<1>7. CASE Next
  BY <1>1, <1>2, <1>3, <1>4, <1>5, <1>7 DEF Next
<1> QED BY <1>1, <1>6, <1>7

(* What a queue says is true of the table, of the worker and of the correlator: *)
(* whatever waits still holds its queued rows, and an incident counts as being  *)
(* processed exactly while a worker has it, for any number of processes,        *)
(* crashes, cancellations and failures.                                         *)
THEOREM QueuesAreExact == Spec => []QueueIsExact
<1>1. LinesInv => QueueIsExact
  <2> SUFFICES ASSUME LinesInv PROVE QueueIsExact
    OBVIOUS
  <2> USE DEF LinesInv, IInv, Shape
  <2>1. QueuedIsBacked
    BY AheadWaits DEF QueuedIsBacked, Lines, Backed, Waiting
  <2>2. ProcessingIsExact
    BY DEF ProcessingIsExact, Workers, Manned, Alone, InLine
  <2> QED BY <2>1, <2>2 DEF QueueIsExact
<1> QED BY <1>1, LinesInit, LinesStep, PTL DEF Spec

(* Whatever step is taken, dispatches stay what they are, completions aside.  *)
LEMMA DispatchesKept ==
    ASSUME IInv, [Next]_vars
    PROVE  Kept
<1> USE DEF IInv, Shape
<1>1. ASSUME UNCHANGED disp PROVE Kept
  BY <1>1 DEF Kept, TypeOK
<1>2. ASSUME NEW S, NEW o \in Completion, disp' = Settled(S, o) PROVE Kept
  BY <1>2, SettledKeeps
<1>3. ASSUME NEW p \in Procs, NEW i \in Incidents, NEW K \in SUBSET Keys, SubmitAdmit(p, i, K)
      PROVE  Kept
  BY <1>3, AdmitKeeps
<1>4. ASSUME NEW p \in Procs, SubmitJoin(p) \/ Rollback(p) \/ InvokeHandler(p)
      PROVE  Kept
  BY <1>1, <1>4 DEF SubmitJoin, Rollback, InvokeHandler
<1>5. ASSUME NEW p \in Procs, PreparationFails(p) \/ SubmitStart(p) \/ DrainTake(p) \/ Crash(p)
      PROVE  Kept
  BY <1>1, <1>2, <1>5 DEF PreparationFails, SubmitStart, DrainTake, Crash, Completion
<1>6. ASSUME NEW p \in Procs, DrainReturn(p)
      PROVE  Kept
  BY <1>6, LeaveDrainShape DEF DrainReturn, LoopOwnsItsToken, Of
<1>7. ASSUME NEW p \in Procs, NEW w \in DOMAIN disp, TaskGoesOn(p, w) \/ Cancel(p, w)
      PROVE  Kept
  <2>1. CASE WorkerFirstStep(p, w) \/ Cancel(p, w)
    BY <1>1, <2>1 DEF WorkerFirstStep, Cancel
  <2>2. CASE HandlerEnds(p, w)
    BY <1>2, <2>2 DEF HandlerEnds, Completion
  <2>3. CASE HandlerCancelled(p, w)
    BY <2>3, LeaveDrainShape DEF HandlerCancelled
  <2>4. CASE DoneCallback(p, w)
    <3>1. \/ UNCHANGED disp
          \/ \E S : disp' = Settled(S, "cancelled")
          \/ \E S, R : disp' = SettledTwo(S, R)
      BY <2>4 DEF DoneCallback, Release
    <3> QED BY <1>1, <1>2, <3>1, SettledTwoKeeps DEF Completion
  <2> QED BY <1>7, <2>1, <2>2, <2>3, <2>4 DEF TaskGoesOn
<1>8. CASE UNCHANGED vars
  BY <1>1, <1>8 DEF vars
<1>9. CASE Next
  BY <1>3, <1>4, <1>5, <1>6, <1>7, <1>9 DEF Next, LoopGoesOn
<1> QED BY <1>8, <1>9

(* What is invoked next is later than all that its line has seen.             *)
LEMMA InOrderStep == LinesInv /\ InOrder /\ [Next]_vars => InOrder'
<1> SUFFICES ASSUME LinesInv, InOrder, [Next]_vars PROVE InOrder'
  OBVIOUS
<1> USE DEF LinesInv, IInv, Shape, Once
<1>1. \A n \in DOMAIN log : log[n] \in DOMAIN disp
  BY DEF LoggedAreSpent
<1>2. ASSUME UNCHANGED log, Kept PROVE InOrder'
  BY <1>1, <1>2 DEF InOrder, Kept
<1>3. ASSUME NEW p \in Procs, InvokeHandler(p) PROVE InOrder'
  <2>1. PICK w, t : w = loop[p].tok /\ t = task[w].tok
    OBVIOUS
  <2>2. loop[p].op = "invoke" /\ log' = Append(log, t) /\ UNCHANGED disp
    BY <1>3, <2>1 DEF InvokeHandler
  <2>3. w \in DOMAIN disp /\ w \in Token /\ disp[w].proc = p
    BY <2>1, <2>2, TokensOfDisp DEF LoopOwnsItsToken, Of
  <2>4. PICK i \in Incidents : i = disp[w].inc
    BY <2>3, DispatchFields
  <2>5. t # NoToken
    BY <2>1, <2>2 DEF Lines, Turn, Invoking
  <2>6. InLine(t, p, i)
    BY <2>1, <2>3, <2>4, <2>5 DEF Lines, Held, InLine
  <2>7. \A n \in DOMAIN log : InLine(log[n], p, i) => log[n] < t
    BY <2>1, <2>2, <2>4 DEF Lines, Turn, Invoking
  <2>8. /\ log \in Seq(Token) /\ t \in Token
    BY <2>6, TokensOfDisp DEF InLine, TypeOK
  <2>9. /\ DOMAIN log = 1 .. Len(log) /\ Len(log) \in Nat
        /\ DOMAIN log' = 1 .. Len(log) + 1 /\ log'[Len(log) + 1] = t
        /\ \A n \in 1 .. Len(log) : log'[n] = log[n]
    BY <2>2, <2>8
  <2>10. ASSUME NEW m \in DOMAIN log', NEW n \in DOMAIN log', m < n,
                disp[log'[m]].proc = disp[log'[n]].proc, disp[log'[m]].inc = disp[log'[n]].inc
         PROVE  log'[m] < log'[n]
    <3>1. m \in 1 .. Len(log) /\ log'[m] = log[m]
      BY <2>9, <2>10
    <3>2. CASE n = Len(log) + 1
      <4>1. log'[n] = t
        BY <2>9, <3>2
      <4>2. InLine(log[m], p, i)
        BY <1>1, <2>6, <2>9, <2>10, <3>1, <4>1 DEF InLine
      <4> QED BY <2>7, <2>9, <3>1, <4>1, <4>2
    <3>3. CASE n # Len(log) + 1
      <4>1. n \in 1 .. Len(log)
        BY <2>9, <3>3
      <4> QED BY <2>9, <2>10, <3>1, <4>1 DEF InOrder
    <3> QED BY <3>2, <3>3
  <2> QED BY <2>2, <2>10 DEF InOrder
<1>4. ASSUME NEW p \in Procs,
             \/ \E i \in Incidents, K \in SUBSET Keys : SubmitAdmit(p, i, K)
             \/ PreparationFails(p) \/ SubmitJoin(p) \/ SubmitStart(p) \/ Rollback(p)
             \/ DrainTake(p) \/ DrainReturn(p) \/ Crash(p)
      PROVE  UNCHANGED log
  BY <1>4 DEF SubmitAdmit, PreparationFails, SubmitJoin, SubmitStart, Rollback, DrainTake,
       DrainReturn, Crash
<1>5. ASSUME NEW p \in Procs, NEW w \in DOMAIN disp, TaskGoesOn(p, w) \/ Cancel(p, w)
      PROVE  UNCHANGED log
  BY <1>5 DEF TaskGoesOn, WorkerFirstStep, HandlerEnds, HandlerCancelled, DoneCallback, Cancel
<1>6. UNCHANGED log \/ \E p \in Procs : InvokeHandler(p)
  BY <1>4, <1>5 DEF Next, LoopGoesOn, vars
<1> QED BY <1>2, <1>3, <1>6, DispatchesKept

(* The dispatches of an incident are handled one at a time and in the order in  *)
(* which the process admitted them, through every cancellation, deferral and    *)
(* hand-over to a successor, for any number of processes and dispatches.        *)
THEOREM IncidentsHandledInTurn == Spec => []HandledInTurn
<1>1. LinesInv => NoOverlap
  BY DEF LinesInv, Workers, Alone, NoOverlap
<1>2. Init => InOrder
  BY DEF Init, InOrder
<1>3. LinesInv /\ InOrder => HandledInTurn
  BY <1>1 DEF HandledInTurn
<1> QED BY <1>2, <1>3, LinesInit, LinesStep, InOrderStep, PTL DEF Spec
=============================================================================
