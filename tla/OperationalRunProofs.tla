------------------------- MODULE OperationalRunProofs -------------------------
(***************************************************************************)
(* Theorems about the runs of module OperationalRun.  What a run may assume *)
(* of itself depends on the place it is in; Inv says so place by place, and *)
(* the safety properties follow from it.                                    *)
(***************************************************************************)
EXTENDS OperationalRun, BreakerProofs, FiniteSetTheorems, TLAPS

Answered == {"applied", "conflict"}
Ended == {"reporting", "scoring", "over"}

(* Before remediation a run has done nothing. *)
Early(r) ==
    pc[r] \in {"idle", "queued", "agents"} =>
        thread[r] = "none" /\ decision[r] = "none" /\ outcome[r] = "open"

(* A run that may still act has observed what it did before. *)
Acting(r) ==
    pc[r] \in {"deciding", "preparing", "waiting"} \cup Held =>
        /\ outcome[r] = "open"
        /\ thread[r] # "none" => thread[r] \in Answered /\ seen[r] = "failed"

Deciding(r) ==
    /\ pc[r] \in {"preparing", "waiting", "applying"} \cup Held => plan[r].action \in Actions
    /\ pc[r] \in {"deciding", "preparing"} /\ decision[r] = "approved" => thread[r] # "none"
    /\ pc[r] = "waiting" => decision[r] # "none"
    /\ pc[r] \in Held => decision[r] = "approved"

(* A mutation runs under the record that says so. *)
Mutating(r) ==
    /\ pc[r] = "starting" => record[r].phase = "applying"
    /\ pc[r] = "applying" =>
          record[r].phase = "applying" /\ outcome[r] = "open"
          /\ decision[r] = "approved" /\ thread[r] # "none"
    /\ pc[r] = "observing" =>
          outcome[r] = "open" /\ decision[r] = "approved" /\ thread[r] \in Answered
    /\ thread[r] \in {"flying", "unknown"} =>
          /\ pc[r] \in {"applying", "over"}
          /\ record[r].phase = "applying" \/ record[r].state = "uncertain"

(* How remediation ended is settled before the verifier speaks. *)
Ruling(r) ==
    /\ pc[r] \in {"verifying", "reporting", "scoring"} => outcome[r] # "open"
    /\ verdict[r] # "none" => pc[r] \in Ended /\ outcome[r] # "open"
    /\ outcome[r] = "done" => decision[r] = "approved" /\ thread[r] # "none"

(* No run is under way in a dead process. *)
Stopped(r) == ~up => pc[r] \in {"idle", "over"}

Local(r) == Early(r) /\ Acting(r) /\ Deciding(r) /\ Mutating(r) /\ Ruling(r) /\ Stopped(r)

Inv == TypeOK /\ \A r \in Incidents : Local(r)

(* A bounded event takes one from its bound. *)
LEMMA SpendsFacts ==
    ASSUME budget \in Bounds, NEW what \in {"faults", "cancels", "crashes", "pauses", "resets"},
           Spends(what)
    PROVE  budget' \in Bounds /\ (what # "resets" => budget'.resets = budget.resets)
                  /\ (what = "resets" => budget'.resets < MaxResets)
                  /\ (what # "pauses" => budget'.pauses = budget.pauses)
                  /\ (what = "pauses" => budget'.pauses < MaxPauses)
BY RunAssumption DEF Spends, Bounds

(* The records of the journal that a run writes are records. *)
LEMMA RecordFacts ==
    /\ Unbegun \in Records /\ Working \in Records /\ Applying \in Records
    /\ \A s \in {"completed", "failed", "cancelled", "interrupted", "uncertain"} :
          Over(s) \in Records /\ Over(s).state = s
    /\ Applying.phase = "applying"
    /\ \A rec \in Records : rec.phase = "applying" => rec.state = "running"
BY DEF Records, Unbegun, Working, Applying, Over

(* A plan is an action and the version it displays. *)
LEMMA PlanFacts ==
    /\ NoPlan \in Plans
    /\ \A a \in Actions \cup {"none"}, v \in Nat :
          Plan(a, v) \in Plans /\ Plan(a, v).action = a /\ Plan(a, v).version = v
    /\ \A p \in Plans : p.version \in Nat /\ p.action \in Actions \cup {"none"}
BY DEF NoPlan, Plans, Plan

(* What Local(q) speaks of does not change. *)
Same(q) ==
    /\ up' = up /\ pc'[q] = pc[q] /\ record'[q] = record[q] /\ plan'[q] = plan[q]
    /\ decision'[q] = decision[q] /\ thread'[q] = thread[q] /\ seen'[q] = seen[q]
    /\ outcome'[q] = outcome[q] /\ verdict'[q] = verdict[q]

(* Nothing that concerns a run changed, so what held of it still holds. *)
LEMMA SameLocal ==
    ASSUME NEW q \in Incidents, Local(q), Same(q)
    PROVE  Local(q)'
BY DEF Local, Same, Early, Acting, Deciding, Mutating, Ruling, Stopped

Mine(r) ==
    \/ Step(r) \/ Lands(r) \/ Admit(r) \/ Faults(r) \/ IsCancelled(r)
    \/ \E d \in {"approved", "rejected"} : Answers(r, d)

(* A step of one run leaves every other run as it was. *)
LEMMA OthersStay ==
    ASSUME TypeOK, NEW r \in Incidents, NEW q \in Incidents, q # r, Mine(r)
    PROVE  Same(q)
<1> USE DEF TypeOK, Same, Goes, Notes, process, remediation, world
<1>1. CASE Enters(r)
  BY <1>1 DEF Enters
<1>2. CASE IsRefused(r)
  BY <1>2 DEF IsRefused, Settles
<1>3. CASE Diagnosed(r)
  BY <1>3 DEF Diagnosed
<1>4. CASE Concludes(r)
  BY <1>4 DEF Concludes
<1>5. CASE \E a \in Actions : Proposes(r, a)
  BY <1>5, ZenonT(30) DEF Proposes
<1>6. CASE \E a \in Actions : IsBarred(r, a)
  BY <1>6 DEF IsBarred
<1>7. CASE Prepared(r)
  BY <1>7 DEF Prepared
<1>8. CASE Unprepared(r)
  BY <1>8 DEF Unprepared
<1>9. CASE IsDenied(r)
  BY <1>9 DEF IsDenied
<1>10. CASE StartsMutation(r)
  BY <1>10 DEF StartsMutation
<1>22. CASE IsCleared(r)
  BY <1>22 DEF IsCleared
<1>23. CASE NotesStart(r)
  BY <1>23 DEF NotesStart
<1>11. CASE Returned(r)
  BY <1>11 DEF Returned
<1>12. CASE \E o \in {"passed", "failed", "unknown"} : Observes(r, o)
  BY <1>12 DEF Observes
<1>13. CASE \E v \in {"passed", "failed", "inconclusive"} : Verified(r, v)
  BY <1>13 DEF Verified
<1>14. CASE Completes(r)
  BY <1>14 DEF Completes
<1>15. CASE Finishes(r)
  BY <1>15 DEF Finishes
<1>16. CASE Fails(r)
  BY <1>16 DEF Fails, Settles
<1>17. CASE Lands(r)
  BY <1>17 DEF Lands
<1>18. CASE Admit(r)
  BY <1>18 DEF Admit
<1>19. CASE Faults(r)
  BY <1>19 DEF Faults
<1>20. CASE IsCancelled(r)
  BY <1>20 DEF IsCancelled
<1>21. CASE \E d \in {"approved", "rejected"} : Answers(r, d)
  BY <1>21 DEF Answers
<1> HIDE DEF TypeOK, Same, Goes, Notes, process, remediation, world
<1> QED
  BY <1>1, <1>2, <1>3, <1>4, <1>5, <1>6, <1>7, <1>8, <1>9, <1>10, <1>11, <1>12, <1>13, <1>14,
     <1>15, <1>16, <1>17, <1>18, <1>19, <1>20, <1>21, <1>22, <1>23, Zenon DEF Mine, Step

(* A step of a run keeps what the invariant says of that run. *)
LEMMA OwnStays ==
    ASSUME TypeOK, NEW r \in Incidents, Local(r), Mine(r)
    PROVE  Local(r)'
<1> USE RecordFacts, PlanFacts DEF TypeOK, At, Goes, Notes, process, remediation, world, Answered, Ended,
        Local, Early, Acting, Deciding, Mutating, Ruling, Stopped, Held
<1>1. CASE Enters(r)
  BY <1>1 DEF Enters
<1>2. CASE IsRefused(r)
  BY <1>2 DEF IsRefused, Settles
<1>3. CASE Diagnosed(r)
  BY <1>3 DEF Diagnosed
<1>4. CASE Concludes(r)
  BY <1>4 DEF Concludes
<1>5. CASE \E a \in Actions : Proposes(r, a)
  <2>1. PICK a \in Actions : Proposes(r, a)
    BY <1>5
  <2>2. Plan(a, 0).action \in Actions
    OBVIOUS
  <2>3. \/ pc'[r] = "deciding" /\ plan'[r] = plan[r]
        \/ pc'[r] = "preparing" /\ plan'[r].action \in Actions
    <3>1. \/ plan' = [plan EXCEPT ![r] = Plan(a, 0)] /\ pc' = [pc EXCEPT ![r] = "preparing"]
          \/ plan' = plan /\ pc' = pc
      BY <2>1 DEF Proposes
    <3>2. pc[r] = "deciding" /\ plan \in [Incidents -> Plans]
          /\ pc \in [Incidents -> Inside \cup {"idle", "queued", "over"}]
      BY <2>1 DEF Proposes
    <3> QED BY ONLY <2>2, <3>1, <3>2, r \in Incidents
  <2>4. pc[r] = "deciding" /\ up' = up /\ record' = record /\ decision' = decision /\ thread' = thread
        /\ seen' = seen /\ outcome' = outcome /\ verdict' = verdict
    BY <2>1 DEF Proposes
  <2>5. Local(r)
    OBVIOUS
  <2> QED BY ONLY <2>3, <2>4, <2>5
<1>6. CASE \E a \in Actions : IsBarred(r, a)
  <2>1. PICK a \in Actions : IsBarred(r, a)
    BY <1>6
  <2>2. UNCHANGED <<process, pc, record, plan, decision, thread, seen, outcome, verdict>>
    BY <2>1 DEF IsBarred
  <2>3. Same(r)
    BY ONLY <2>2 DEF Same, process
  <2> QED BY <2>3, SameLocal
<1>7. CASE Prepared(r)
  BY <1>7 DEF Prepared
<1>8. CASE Unprepared(r)
  BY <1>8 DEF Unprepared
<1>9. CASE IsDenied(r)
  <2> DEFINE d == Denial(decision[r])
  <2>1. d \in {"rejected", "timeout", "permit_invalid"}
    BY <1>9 DEF IsDenied, Denial
  <2>2. decision' = [decision EXCEPT ![r] = d] /\ outcome' = [outcome EXCEPT ![r] = d]
    BY <1>9 DEF IsDenied
  <2> HIDE DEF d
  <2>3. decision'[r] = d /\ outcome'[r] = d
    BY <2>2
  <2> QED BY <1>9, <2>1, <2>3 DEF IsDenied
<1>10. CASE StartsMutation(r)
  BY <1>10 DEF StartsMutation
<1>22. CASE IsCleared(r)
  BY <1>22 DEF IsCleared, MayStart
<1>23. CASE NotesStart(r)
  BY <1>23 DEF NotesStart
<1>11. CASE Returned(r)
  BY <1>11 DEF Returned
<1>12. CASE \E o \in {"passed", "failed", "unknown"} : Observes(r, o)
  BY <1>12 DEF Observes, Continues
<1>13. CASE \E v \in {"passed", "failed", "inconclusive"} : Verified(r, v)
  BY <1>13 DEF Verified
<1>14. CASE Completes(r)
  BY <1>14 DEF Completes
<1>15. CASE Finishes(r)
  BY <1>15 DEF Finishes
<1>16. CASE Fails(r)
  BY <1>16 DEF Fails, Settles, Ending, Breaks
<1>17. CASE Lands(r)
  BY <1>17 DEF Lands
<1>18. CASE Admit(r)
  BY <1>18 DEF Admit
<1>19. CASE Faults(r)
  BY <1>19 DEF Faults, Ending, MayFault, Awaits, Inside
<1>20. CASE IsCancelled(r)
  <2>1. pc[r] \in Awaits \cup {"queued"} /\ pc'[r] = "over"
    <3>1. pc[r] \in Awaits \cup {"queued"} /\ pc' = [pc EXCEPT ![r] = "over"]
      BY ONLY <1>20 DEF IsCancelled, Goes
    <3> QED BY <3>1
  <2>0. UNCHANGED <<remediation, outcome, verdict>>
    BY <1>20 DEF IsCancelled
  <2>2. CASE pc[r] \in {"queued", "scoring"}
    BY <1>20, <2>0, <2>1, <2>2 DEF IsCancelled
  <2>3. CASE pc[r] \notin {"queued", "scoring"}
    <3>0. \/ record' = [record EXCEPT ![r] = Over(Ending(r, "cancelled"))]
          \/ record' = record
      BY ONLY <1>20, <2>3 DEF IsCancelled, Notes
    <3>1. record'[r] = Over(Ending(r, "cancelled")) \/ record' = record
      BY ONLY <3>0, r \in Incidents, record \in [Incidents -> Records]
    <3>2. thread[r] \in {"flying", "unknown"} =>
             record'[r].phase = "applying" \/ record'[r].state = "uncertain"
      BY <2>1, <3>1 DEF Ending, Awaits
    <3> QED BY <2>0, <2>1, <3>2
  <2> QED BY <2>2, <2>3
<1>21. CASE \E d \in {"approved", "rejected"} : Answers(r, d)
  BY <1>21 DEF Answers
<1> QED
  BY <1>1, <1>2, <1>3, <1>4, <1>5, <1>6, <1>7, <1>8, <1>9, <1>10, <1>11, <1>12, <1>13, <1>14,
     <1>15, <1>16, <1>17, <1>18, <1>19, <1>20, <1>21, <1>22, <1>23, Zenon DEF Mine, Step

(* A step of a run keeps the types. *)
LEMMA OwnTyped ==
    ASSUME TypeOK, NEW r \in Incidents, Local(r), Mine(r)
    PROVE  TypeOK'
<1> USE RecordFacts, PlanFacts DEF TypeOK, At, Goes, Notes, process, remediation, world,
                                   Awaits, Inside, Held
<1>0. \A res, why : Left(breaker, r, res, why) \in Breaker
  BY LeftFacts DEF LeavesOf
<1>1. CASE Enters(r)
  <2>1. breaker' \in Breaker
    BY <1>1, EnteredFacts DEF Enters
  <2> QED BY <1>1, <2>1 DEF Enters
<1>2. CASE IsRefused(r)
  <2>1. budget' \in Bounds
    BY <1>2, SpendsFacts DEF IsRefused, Settles
  <2>2. record' \in [Incidents -> Records]
    BY <1>2, SMTT(30) DEF IsRefused, Settles
  <2> QED BY <1>2, <2>1, <2>2 DEF IsRefused
<1>3. CASE Diagnosed(r)
  <2>0. /\ pc' = [pc EXCEPT ![r] = "deciding"] \/ pc' = [pc EXCEPT ![r] = "verifying"]
        /\ \/ outcome' = outcome
           \/ \E o \in {"manual", "target_mismatch"} : outcome' = [outcome EXCEPT ![r] = o]
    BY ONLY <1>3 DEF Diagnosed, Goes
  <2>1. outcome' \in [Incidents -> {"open", "manual", "target_mismatch", "unprepared",
                                      "no_action", "rejected", "timeout", "permit_invalid",
                                      "done"}]
    BY ONLY <2>0, r \in Incidents, TypeOK DEF TypeOK
  <2>2. pc' \in [Incidents -> Inside \cup {"idle", "queued", "over"}]
    BY ONLY <2>0, r \in Incidents, TypeOK DEF TypeOK, Awaits, Inside, Held
  <2> QED BY <1>3, <2>1, <2>2 DEF Diagnosed
<1>4. CASE Concludes(r)
  BY <1>4 DEF Concludes
<1>5. CASE \E a \in Actions : Proposes(r, a)
  <2>1. PICK a \in Actions : Proposes(r, a)
    BY <1>5
  <2>2. breaker' \in Breaker
    BY <2>1, CheckedFacts DEF Proposes
  <2>3. turns' \in [Incidents -> 0 .. MaxTurns]
    BY <2>1, RunAssumption DEF Proposes, TurnsLeft
  <2>4. plan' \in [Incidents -> Plans]
    <3>1. Plan(a, 0) \in Plans
      OBVIOUS
    <3>2. plan' = [plan EXCEPT ![r] = Plan(a, 0)] \/ plan' = plan
      BY <2>1 DEF Proposes
    <3> QED BY ONLY <3>1, <3>2, plan \in [Incidents -> Plans], r \in Incidents
  <2>5. pc' \in [Incidents -> Inside \cup {"idle", "queued", "over"}]
    <3>1. pc' = [pc EXCEPT ![r] = "preparing"] \/ pc' = pc
      BY ONLY <2>1 DEF Proposes, Goes
    <3> QED BY ONLY <3>1, r \in Incidents, TypeOK DEF TypeOK, Awaits, Inside, Held
  <2> QED BY <2>1, <2>2, <2>3, <2>4, <2>5 DEF Proposes
<1>6. CASE \E a \in Actions : IsBarred(r, a)
  BY <1>6, RunAssumption DEF IsBarred, TurnsLeft
<1>7. CASE Prepared(r)
  <2>1. Plan(plan[r].action, version) \in Plans
    OBVIOUS
  <2> QED BY <1>7, <2>1 DEF Prepared
<1>8. CASE Unprepared(r)
  BY <1>8 DEF Unprepared
<1>9. CASE IsDenied(r)
  <2> DEFINE d == Denial(decision[r])
  <2>1. d \in {"rejected", "timeout", "permit_invalid"}
    BY <1>9 DEF IsDenied, Local, Deciding, Denial
  <2>2. decision' = [decision EXCEPT ![r] = d] /\ outcome' = [outcome EXCEPT ![r] = d]
    BY <1>9 DEF IsDenied
  <2> HIDE DEF d
  <2>3. outcome' \in [Incidents -> {"open", "manual", "target_mismatch", "unprepared",
                                      "no_action", "rejected", "timeout", "permit_invalid",
                                      "done"}]
    BY <2>1, <2>2
  <2>4. decision' \in [Incidents -> {"none", "pending", "approved", "rejected", "timeout",
                                       "permit_invalid"}]
    BY <2>1, <2>2
  <2> QED BY <1>9, <2>3, <2>4 DEF IsDenied
<1>10. CASE StartsMutation(r)
  BY <1>10 DEF StartsMutation
<1>22. CASE IsCleared(r)
  BY <1>22 DEF IsCleared
<1>23. CASE NotesStart(r)
  BY <1>23 DEF NotesStart
<1>11. CASE Returned(r)
  BY <1>11 DEF Returned, Local, Deciding
<1>12. CASE \E o \in {"passed", "failed", "unknown"} : Observes(r, o)
  <2>0. /\ pc' = [pc EXCEPT ![r] = "deciding"] \/ pc' = [pc EXCEPT ![r] = "verifying"]
        /\ outcome' = outcome \/ outcome' = [outcome EXCEPT ![r] = "done"]
    BY ONLY <1>12 DEF Observes, Goes
  <2>1. outcome' \in [Incidents -> {"open", "manual", "target_mismatch", "unprepared",
                                      "no_action", "rejected", "timeout", "permit_invalid",
                                      "done"}]
    BY ONLY <2>0, r \in Incidents, TypeOK DEF TypeOK
  <2>2. pc' \in [Incidents -> Inside \cup {"idle", "queued", "over"}]
    BY ONLY <2>0, r \in Incidents, TypeOK DEF TypeOK, Awaits, Inside, Held
  <2> QED BY <1>12, <2>1, <2>2 DEF Observes
<1>13. CASE \E v \in {"passed", "failed", "inconclusive"} : Verified(r, v)
  BY <1>13 DEF Verified
<1>14. CASE Completes(r)
  BY <1>14 DEF Completes
<1>15. CASE Finishes(r)
  <2>1. breaker' \in Breaker
    BY <1>0, <1>15 DEF Finishes, Resolved
  <2> QED BY <1>15, <2>1 DEF Finishes
<1>16. CASE Fails(r)
  <2>1. budget' \in Bounds
    BY <1>16, SpendsFacts DEF Fails, Settles
  <2>2. breaker' \in Breaker
    BY <1>0, <1>16 DEF Fails
  <2>3. Over(Ending(r, "failed")) \in Records
    BY DEF Ending
  <2>4. record' \in [Incidents -> Records]
    <3>1. record' = [record EXCEPT ![r] = Over(Ending(r, "failed"))] \/ record' = record
      BY <1>16 DEF Fails, Settles
    <3> QED BY ONLY <2>3, <3>1, record \in [Incidents -> Records], r \in Incidents
  <2> QED BY <1>16, <2>1, <2>2, <2>4 DEF Fails
<1>17. CASE Lands(r)
  <2>0. /\ \/ /\ version' = version + 1
              /\ landed' = [landed EXCEPT ![plan[r].version] = @ + 1]
           \/ version' = version /\ landed' = landed
        /\ \E t \in {"applied", "unknown", "conflict"} : thread' = [thread EXCEPT ![r] = t]
    BY ONLY <1>17 DEF Lands, world
  <2>1. version' \in Nat /\ landed' \in [0 .. MaxVersion -> Nat]
    <3> DEFINE D == 0 .. MaxVersion
    <3>1. version \in Nat /\ landed \in [D -> Nat]
      BY ONLY TypeOK DEF TypeOK
    <3> HIDE DEF D
    <3>2. \A v \in D : landed[v] + 1 \in Nat
      BY ONLY <3>1
    <3>3. landed' \in [D -> Nat]
      BY ONLY <2>0, <3>1, <3>2
    <3>4. version' \in Nat
      BY ONLY <2>0, <3>1
    <3> QED BY ONLY <3>3, <3>4 DEF D
  <2>2. thread' \in [Incidents -> {"none", "flying", "applied", "conflict", "unknown"}]
    BY ONLY <2>0, r \in Incidents, TypeOK DEF TypeOK
  <2>3. UNCHANGED <<process, pc, record, turns, plan, decision, barred, seen, outcome, verdict,
                    slipped>>
    BY <1>17 DEF Lands
  <2> QED BY ONLY <2>1, <2>2, <2>3, TypeOK DEF TypeOK, process
<1>18. CASE Admit(r)
  BY <1>18 DEF Admit
<1>19. CASE Faults(r)
  <2>1. budget' \in Bounds
    BY <1>19, SpendsFacts DEF Faults
  <2>2. breaker' \in Breaker
    <3>1. \E res \in BOOLEAN : breaker' = Left(breaker, r, res, "system_error")
      BY <1>19 DEF Faults, Resolved
    <3> QED BY <1>0, <3>1
  <2>3. Over(Ending(r, "failed")) \in Records
    BY DEF Ending
  <2>4. record' \in [Incidents -> Records]
    <3>1. record' = [record EXCEPT ![r] = Over(Ending(r, "failed"))] \/ record' = record
      BY <1>19 DEF Faults
    <3> QED BY ONLY <2>3, <3>1, record \in [Incidents -> Records], r \in Incidents
  <2> QED BY <1>19, <2>1, <2>2, <2>4 DEF Faults
<1>20. CASE IsCancelled(r)
  <2>1. budget' \in Bounds
    BY <1>20, SpendsFacts DEF IsCancelled
  <2>2. breaker' \in Breaker
    BY <1>0, <1>20 DEF IsCancelled
  <2>3. Over(Ending(r, "cancelled")) \in Records
    BY DEF Ending
  <2>4. record' \in [Incidents -> Records]
    <3>1. record' = [record EXCEPT ![r] = Over(Ending(r, "cancelled"))] \/ record' = record
      BY <1>20 DEF IsCancelled
    <3> QED BY ONLY <2>3, <3>1, record \in [Incidents -> Records], r \in Incidents
  <2> QED BY <1>20, <2>1, <2>2, <2>4 DEF IsCancelled
<1>21. CASE \E d \in {"approved", "rejected"} : Answers(r, d)
  BY <1>21 DEF Answers
<1> QED
  BY <1>1, <1>2, <1>3, <1>4, <1>5, <1>6, <1>7, <1>8, <1>9, <1>10, <1>11, <1>12, <1>13, <1>14,
     <1>15, <1>16, <1>17, <1>18, <1>19, <1>20, <1>21, <1>22, <1>23, Zenon DEF Mine, Step

(* A step of the process or of an operator. *)
Common == Crash \/ Restart \/ OperatorPauses \/ OperatorResets

(* Deaths, restarts, pauses and resets keep the types. *)
LEMMA CommonTyped ==
    ASSUME TypeOK, Common
    PROVE  TypeOK'
<1> USE RecordFacts DEF TypeOK, remediation, world, Awaits, Inside, Held
<1>1. CASE Crash
  <2>1. budget' \in Bounds
    BY <1>1, SpendsFacts DEF Crash
  <2> QED BY <1>1, <2>1 DEF Crash
<1>2. CASE Restart
  <2>1. \A rec \in Records : Reconciled(rec) \in Records
    BY DEF Reconciled
  <2>2. record' \in [Incidents -> Records]
    BY <1>2, <2>1 DEF Restart
  <2> QED BY <1>2, <2>2, ClosedFacts DEF Restart
<1>3. CASE OperatorPauses
  <2>1. budget' \in Bounds
    BY <1>3, SpendsFacts DEF OperatorPauses
  <2>2. breaker' \in Breaker
    BY <1>3, PausedFacts DEF OperatorPauses
  <2> QED BY <1>3, <2>1, <2>2 DEF OperatorPauses
<1>4. CASE OperatorResets
  <2>1. budget' \in Bounds
    BY <1>4, SpendsFacts DEF OperatorResets
  <2> QED BY <1>4, <2>1, ClosedFacts DEF OperatorResets, Reset
<1> QED BY <1>1, <1>2, <1>3, <1>4 DEF Common

(* Deaths, restarts, pauses and resets keep what the invariant says of each run. *)
LEMMA CommonLocal ==
    ASSUME TypeOK, NEW r \in Incidents, Local(r), Common
    PROVE  Local(r)'
<1> USE RecordFacts DEF TypeOK, remediation, world, Local, Early, Acting, Deciding, Mutating,
        Ruling, Stopped, Answered, Ended, Held
<1>1. CASE Crash
  BY <1>1 DEF Crash
<1>2. CASE Restart
  <2>1. record'[r] = Reconciled(record[r]) /\ UNCHANGED <<pc, remediation, outcome, verdict>>
    BY <1>2 DEF Restart
  <2>2. /\ record[r] \in Records
        /\ record[r].phase = "applying" => record[r].state = "running"
    OBVIOUS
  <2>3. record[r].phase = "applying" \/ record[r].state = "uncertain" =>
           record'[r].state = "uncertain"
    BY <2>1, <2>2 DEF Reconciled
  <2>4. pc[r] \in {"idle", "over"} /\ up'
    BY <1>2 DEF Restart
  <2> QED BY <2>1, <2>3, <2>4
<1>3. CASE OperatorPauses
  BY <1>3 DEF OperatorPauses
<1>4. CASE OperatorResets
  BY <1>4 DEF OperatorResets
<1> QED BY <1>1, <1>2, <1>3, <1>4 DEF Common

(* A new process satisfies the invariant. *)
LEMMA InitInv == Init => Inv
<1> SUFFICES ASSUME Init PROVE Inv
  OBVIOUS
<1>1. TypeOK
  BY ClosedFacts, RunAssumption, RecordFacts, PlanFacts DEF Init, TypeOK, Bounds
<1>2. \A r \in Incidents : Local(r)
  BY DEF Init, Local, Early, Acting, Deciding, Mutating, Ruling, Stopped, Held
<1> QED BY <1>1, <1>2 DEF Inv

(* A step is one of a run or one of the process and its operators. *)
LEMMA NextCases ==
    ASSUME [Next]_vars
    PROVE  (\E r \in Incidents : Mine(r)) \/ Common \/ UNCHANGED vars
BY Zenon DEF Next, Mine, Common

(* Every step keeps the invariant. *)
LEMMA StepInv == Inv /\ [Next]_vars => Inv'
<1> SUFFICES ASSUME Inv, [Next]_vars PROVE Inv'
  OBVIOUS
<1>0. TypeOK /\ \A q \in Incidents : Local(q)
  BY DEF Inv
<1>1. CASE \E r \in Incidents : Mine(r)
  <2>1. PICK r \in Incidents : Mine(r)
    BY <1>1
  <2>2. ASSUME NEW q \in Incidents PROVE Local(q)'
    <3>1. CASE q = r
      BY <1>0, <2>1, <3>1, OwnStays
    <3>2. CASE q # r
      BY <1>0, <2>1, <3>2, OthersStay, SameLocal
    <3> QED BY <3>1, <3>2
  <2> QED BY <1>0, <2>1, <2>2, OwnTyped DEF Inv
<1>2. CASE Common
  BY <1>0, <1>2, CommonTyped, CommonLocal DEF Inv
<1>3. CASE UNCHANGED vars
  <2>1. TypeOK'
    BY <1>0, <1>3 DEF TypeOK, vars, process, remediation, world
  <2>2. ASSUME NEW q \in Incidents PROVE Local(q)'
    <3>1. Same(q)
      BY <1>3 DEF Same, vars, process, remediation, world
    <3> QED BY <1>0, <3>1, SameLocal
  <2> QED BY <2>1, <2>2 DEF Inv
<1> QED BY <1>1, <1>2, <1>3, NextCases

(* The invariant of the runs holds however handle_incident proceeds, fails or dies. *)
THEOREM Invariance == Spec => []Inv
BY InitInv, StepInv, PTL DEF Spec

(* Every variable keeps its type (handle_incident and what it calls). *)
THEOREM TypeCorrect == Spec => []TypeOK
<1>1. Inv => TypeOK
  BY DEF Inv
<1> QED BY <1>1, Invariance, PTL

(* However a run ends, a mutation whose outcome is not known is journaled as   *)
(* applying or uncertain: the except clauses and reconcile_restart.           *)
THEOREM UnknownMutationsAreSaid == Spec => []UnknownIsSaid
<1>1. Inv => UnknownIsSaid
  BY DEF Inv, Local, Mutating, UnknownIsSaid
<1> QED BY <1>1, Invariance, PTL

(* resolved is False for every run whose remediation was barred or denied.     *)
THEOREM ResolutionIsEarned == Spec => []ResolvedIsEarned
<1>1. Inv => ResolvedIsEarned
  <2> SUFFICES ASSUME Inv, NEW r \in Incidents, Resolved(r)
               PROVE  outcome[r] = "manual" \/ (decision[r] = "approved" /\ thread[r] # "none")
    BY DEF ResolvedIsEarned
  <2>1. verdict[r] = "passed" /\ ~Blocked(r) /\ Local(r)
    BY DEF Inv, Resolved
  <2>2. outcome[r] \in {"open", "manual", "target_mismatch", "unprepared", "no_action", "rejected",
                        "timeout", "permit_invalid", "done"}
    BY DEF Inv, TypeOK
  <2> QED BY <2>1, <2>2 DEF Local, Ruling, Blocked
<1> QED BY <1>1, Invariance, PTL

-----------------------------------------------------------------------------
(* Only StartsMutation makes a mutation fly. *)
LEMMA FliesByStart ==
    ASSUME Inv, [Next]_vars, NEW r \in Incidents, thread'[r] = "flying", thread[r] # "flying"
    PROVE  StartsMutation(r)
<1> USE DEF TypeOK, Goes, Notes, process, remediation, world
<1>0. TypeOK
  BY DEF Inv
<1>1. CASE \E q \in Incidents : Mine(q)
  <2>1. PICK q \in Incidents : Mine(q)
    BY <1>1
  <2>2. q = r
    <3> HIDE DEF TypeOK
    <3>1. q # r => thread'[r] = thread[r]
      BY <1>0, <2>1, OthersStay DEF Same
    <3> QED BY <3>1
  <2>3. ~StartsMutation(r) => thread' = thread \/ thread'[r] # "flying"
    <3>1. CASE Step(r)
      BY <3>1 DEF Step, Enters, IsRefused, Diagnosed, Concludes, Proposes, IsBarred, Prepared,
                  Unprepared, IsDenied, IsCleared, NotesStart, Returned, Observes, Verified,
                  Completes, Finishes, Fails
    <3>2. CASE Lands(r)
      BY <1>0, <3>2 DEF Lands
    <3>3. CASE ~Step(r) /\ ~Lands(r)
      BY <2>1, <2>2, <3>3 DEF Mine, Admit, Faults, IsCancelled, Answers
    <3> QED BY <3>1, <3>2, <3>3
  <2> QED BY <2>3
<1>2. CASE Common
  BY <1>2 DEF Common, Crash, Restart, OperatorPauses, OperatorResets
<1>3. CASE UNCHANGED vars
  BY <1>3 DEF vars
<1> QED BY <1>1, <1>2, <1>3, NextCases

(* A run acts again only after what it did returned and was observed to have     *)
(* left the incident as it was: the continue of call_agent's loop.               *)
THEOREM RunsActInformed == Spec => StartsAreInformed
<1>1. Inv /\ [Next]_vars =>
         [\A r \in Incidents :
             thread'[r] = "flying" /\ thread[r] \notin {"none", "flying"} =>
                 thread[r] # "unknown" /\ seen[r] = "failed"]_vars
  <2> SUFFICES ASSUME Inv, [Next]_vars, NEW r \in Incidents, thread'[r] = "flying",
                      thread[r] \notin {"none", "flying"}
               PROVE  thread[r] # "unknown" /\ seen[r] = "failed"
    OBVIOUS
  <2>1. pc[r] = "starting"
    BY FliesByStart DEF StartsMutation, At
  <2> QED BY <2>1 DEF Inv, Local, Acting, Answered, Held
<1> QED BY <1>1, Invariance, PTL DEF Spec, StartsAreInformed

-----------------------------------------------------------------------------
(* A step of a run neither resets nor pauses. *)
LEMMA OwnKeepsResets ==
    ASSUME Inv, NEW r \in Incidents, Mine(r)
    PROVE  up' = up /\ budget'.resets = budget.resets /\ budget'.pauses = budget.pauses
<1>0. budget \in Bounds
  BY DEF Inv, TypeOK
<1>1. CASE Step(r)
  BY <1>0, <1>1, SpendsFacts
     DEF Step, Enters, IsRefused, Settles, Diagnosed, Concludes, Proposes, IsBarred, Prepared,
         Unprepared, IsDenied, IsCleared, NotesStart, StartsMutation, Returned, Observes, Verified,
         Completes, Finishes,
         Fails, process
<1>2. CASE ~Step(r)
  BY <1>0, <1>2, SpendsFacts DEF Mine, Lands, Admit, Faults, IsCancelled, Answers, process
<1> QED BY <1>1, <1>2

(* Whoever has the loop, has it alone, and while it was asked for a mutation no   *)
(* other slipped; an open breaker that nobody paused has nobody at the brink.     *)
Brink ==
    /\ slipped <= 1
    /\ ~breaker.tripped => slipped = 0
    /\ \A r \in Incidents : pc[r] \in Held => slipped = 0 /\ HasLoop(r)
    /\ budget.pauses = MaxPauses =>
          /\ slipped = 0
          /\ breaker.tripped => \A r \in Incidents : pc[r] \notin Held

(* A run without the loop, or that lets it go, brings nobody to the brink. *)
Elsewhere(r) ==
    /\ HasLoop(r) /\ pc'[r] \notin Held /\ slipped' = slipped
    /\ breaker.tripped => breaker'.tripped

(* Only the three steps of a start come to the brink or leave it with a mutation. *)
LEMMA OwnBrink ==
    ASSUME Inv, NEW r \in Incidents, Mine(r)
    PROVE  \/ UNCHANGED <<pc, breaker, slipped>>
           \/ IsCleared(r) \/ NotesStart(r) \/ StartsMutation(r)
           \/ Elsewhere(r)
<1>0. TypeOK /\ breaker \in Breaker
  BY DEF Inv, TypeOK
<1> USE DEF At, Goes, process, world, Held
<1>p. \A there : Goes(r, there) => pc'[r] = there
  BY <1>0 DEF TypeOK
<1>l. \A res \in BOOLEAN : \A why :
        breaker' = Left(breaker, r, res, why) /\ breaker.tripped => breaker'.tripped
  <2> TAKE res \in BOOLEAN
  <2> TAKE why
  <2>1. breaker.tripped => Left(breaker, r, res, why).tripped
    <3>1. CASE res
      BY <1>0, <3>1, LeftStreak
    <3>2. CASE ~res /\ why \in Designed
      BY <1>0, <3>2, LeftStreak
    <3>3. CASE ~res /\ why \notin Designed
      BY <1>0, <3>3, LeftStreak
    <3> QED BY <3>1, <3>2, <3>3
  <2> QED BY <2>1
<1>1. CASE Enters(r)
  BY <1>0, <1>1, <1>p, StreakKept DEF Enters, Elsewhere
<1>2. CASE IsRefused(r)
  BY <1>2, <1>p DEF IsRefused, Elsewhere
<1>3. CASE Diagnosed(r)
  BY <1>3, <1>p DEF Diagnosed, Elsewhere
<1>4. CASE Concludes(r)
  BY <1>4, <1>p DEF Concludes, Elsewhere
<1>5. CASE \E a \in Actions : Proposes(r, a)
  <2>1. /\ pc[r] = "deciding" /\ HasLoop(r) /\ (Goes(r, "preparing") \/ pc' = pc)
        /\ slipped' = slipped /\ breaker' = Checked(breaker, r, TRUE)
    BY <1>5 DEF Proposes
  <2>2. breaker'.tripped = breaker.tripped
    BY <1>0, <2>1, StreakKept
  <2>3. pc'[r] \in {"preparing", "deciding"}
    BY <1>p, <2>1
  <2> QED BY <2>1, <2>2, <2>3 DEF Elsewhere
<1>6. CASE \E a \in Actions : IsBarred(r, a)
  BY <1>6 DEF IsBarred
<1>7. CASE Prepared(r)
  BY <1>7, <1>p DEF Prepared, Elsewhere
<1>8. CASE Unprepared(r)
  BY <1>8, <1>p DEF Unprepared, Elsewhere
<1>9. CASE IsDenied(r)
  BY <1>9, <1>p DEF IsDenied, Elsewhere
<1>11. CASE Returned(r)
  BY <1>11, <1>p DEF Returned, Elsewhere
<1>12. CASE \E o \in {"passed", "failed", "unknown"} : Observes(r, o)
  BY <1>12, <1>p DEF Observes, Elsewhere
<1>13. CASE \E v \in {"passed", "failed", "inconclusive"} : Verified(r, v)
  BY <1>13, <1>p DEF Verified, Elsewhere
<1>14. CASE Completes(r)
  BY <1>14, <1>p DEF Completes, Elsewhere
<1>15. CASE Finishes(r)
  BY <1>15, <1>p, <1>l DEF Finishes, Resolved, Elsewhere
<1>16. CASE Fails(r)
  <2>1. HasLoop(r) /\ slipped' = slipped /\ Goes(r, "over")
        /\ breaker' = Left(breaker, r, FALSE, "system_error")
    BY <1>16 DEF Fails, Breaks
  <2> QED BY <1>p, <1>l, <2>1 DEF Elsewhere
<1>17. CASE Lands(r)
  BY <1>17 DEF Lands
<1>18. CASE Admit(r)
  BY <1>18, <1>p DEF Admit, Elsewhere
<1>19. CASE Faults(r)
  <2>1. /\ HasLoop(r) /\ slipped' = slipped /\ Goes(r, "over")
        /\ \E res \in BOOLEAN : breaker' = Left(breaker, r, res, "system_error")
    BY <1>19 DEF Faults, MayFault, Resolved
  <2> QED BY <1>p, <1>l, <2>1 DEF Elsewhere
<1>20. CASE IsCancelled(r)
  <2>1. /\ HasLoop(r) /\ slipped' = slipped /\ Goes(r, "over")
        /\ breaker' = breaker \/ breaker' = Left(breaker, r, FALSE, "")
    BY <1>20 DEF IsCancelled
  <2> QED BY <1>p, <1>l, <2>1 DEF Elsewhere
<1>21. CASE \E d \in {"approved", "rejected"} : Answers(r, d)
  BY <1>21 DEF Answers
<1> QED
  BY <1>1, <1>2, <1>3, <1>4, <1>5, <1>6, <1>7, <1>8, <1>9, <1>11, <1>12, <1>13, <1>14,
     <1>15, <1>16, <1>17, <1>18, <1>19, <1>20, <1>21, Zenon DEF Mine, Step

(* Every step keeps at most one run at the brink. *)
LEMMA StepBrink == Inv /\ Brink /\ [Next]_vars => Brink'
<1> SUFFICES ASSUME Inv, Brink, [Next]_vars PROVE Brink'
  OBVIOUS
<1>0. TypeOK /\ budget \in Bounds /\ breaker \in Breaker /\ slipped \in Nat
  BY DEF Inv, TypeOK
<1>1. CASE \E r \in Incidents : Mine(r)
  <2>1. PICK r \in Incidents : Mine(r)
    BY <1>1
  <2>2. budget'.pauses = budget.pauses
    BY <2>1, OwnKeepsResets
  <2>3. \A q \in Incidents : q # r => pc'[q] = pc[q]
    BY <1>0, <2>1, OthersStay DEF Same
  <2>4. CASE UNCHANGED <<pc, breaker, slipped>>
    BY <2>2, <2>4 DEF Brink, HasLoop
  <2>5. ASSUME HasLoop(r), slipped' = slipped, breaker'.tripped = breaker.tripped,
               slipped = 0, budget.pauses = MaxPauses => ~breaker.tripped
        PROVE  Brink'
    BY <2>2, <2>3, <2>5 DEF Brink, HasLoop
  <2>6. CASE IsCleared(r)
    BY <2>5, <2>6 DEF IsCleared, MayStart, At, process, world, Brink
  <2>7. CASE NotesStart(r)
    BY <2>5, <2>7 DEF NotesStart, At, process, world, Brink, Held
  <2>8. ASSUME HasLoop(r), pc'[r] \notin Held PROVE \A q \in Incidents : pc'[q] \notin Held
    BY <2>3, <2>8 DEF HasLoop
  <2>9. CASE StartsMutation(r)
    <3>1. /\ HasLoop(r) /\ pc[r] \in Held /\ pc'[r] \notin Held /\ breaker' = breaker
          /\ slipped' = IF breaker.tripped THEN slipped + 1 ELSE slipped
      BY <1>0, <2>9 DEF StartsMutation, At, Goes, process, Held, TypeOK
    <3>2. slipped = 0 /\ (budget.pauses = MaxPauses => ~breaker.tripped)
      BY <3>1 DEF Brink
    <3> QED BY <2>2, <2>8, <3>1, <3>2 DEF Brink
  <2>10. CASE Elsewhere(r)
    BY <2>2, <2>8, <2>10 DEF Elsewhere, Brink
  <2> QED BY <2>1, <2>4, <2>6, <2>7, <2>9, <2>10, OwnBrink
<1>2. CASE Crash
  <2>1. \A q \in Incidents : pc'[q] \notin Held
    BY <1>2 DEF Crash, Held
  <2>2. slipped' = slipped /\ breaker' = breaker /\ budget'.pauses = budget.pauses
    BY <1>0, <1>2, SpendsFacts DEF Crash, world
  <2> QED BY <2>1, <2>2 DEF Brink
<1>3. CASE Restart
  <2>1. \A q \in Incidents : pc[q] \notin Held
    BY <1>3 DEF Restart, Inv, Local, Stopped, Held
  <2>2. pc' = pc /\ slipped' = 0
    BY <1>3 DEF Restart
  <2> QED BY <2>1, <2>2 DEF Brink
<1>4. CASE OperatorPauses
  <2>1. pc' = pc /\ slipped' = slipped /\ breaker' = Paused(breaker) /\ budget'.pauses < MaxPauses
    BY <1>0, <1>4, SpendsFacts DEF OperatorPauses, world
  <2>2. breaker'.tripped
    BY <1>0, <2>1, StreakKept
  <2>3. budget'.pauses # MaxPauses
    BY <1>0, <1>4, <2>1, RunAssumption DEF OperatorPauses, Spends, Bounds
  <2> QED BY <2>1, <2>2, <2>3 DEF Brink, HasLoop
<1>5. CASE OperatorResets
  BY <1>5 DEF OperatorResets, Brink
<1>6. CASE UNCHANGED vars
  BY <1>6 DEF vars, process, world, Brink, HasLoop
<1> QED BY <1>1, <1>2, <1>3, <1>4, <1>5, <1>6, NextCases DEF Common

(* Once the breaker is open at most one mutation still starts, that of the run that *)
(* had passed require_closed when an operator paused the breaker, and none if it     *)
(* opened by itself: call_agent after the wait for the decision.                    *)
THEOREM OpenBreakerStops == Spec => []OpenBreakerHolds
<1>1. Init => Brink
  BY ClosedFacts DEF Init, Brink, Held, Closed
<1>2. Brink => OpenBreakerHolds
  BY DEF Brink, OpenBreakerHolds
<1> QED BY <1>1, <1>2, StepBrink, Invariance, PTL DEF Spec

-----------------------------------------------------------------------------
(* Of each version at most one mutation was applied, and none of the current one. *)
Spent(v) == landed[v] <= IF v < version THEN 1 ELSE 0
OneEach == \A v \in DOMAIN landed : Spent(v)

(* The update of the object that Lands makes, and what it leaves alone. *)
LEMMA LandedFacts ==
    ASSUME TypeOK, NEW v \in DOMAIN landed
    PROVE  v \in Nat /\ landed[v] \in Nat /\ version \in Nat
<1>1. MaxVersion \in Nat
  <2>1. Cardinality(Incidents) \in Nat
    BY RunAssumption, FS_CardinalityType
  <2> QED BY <2>1, RunAssumption DEF MaxVersion
<1> QED BY <1>1 DEF TypeOK

(* No step applies a second mutation to a version that was left behind. *)
LEMMA StepOneEach == Inv /\ OneEach /\ [Next]_vars => OneEach'
<1> SUFFICES ASSUME Inv, OneEach, [Next]_vars PROVE OneEach'
  OBVIOUS
<1>0. TypeOK /\ TypeOK'
  BY StepInv DEF Inv
<1>1. CASE UNCHANGED <<version, landed>>
  BY <1>1 DEF OneEach, Spent
<1>2. ASSUME NEW r \in Incidents, Lands(r), ~UNCHANGED <<version, landed>>
      PROVE  OneEach'
  <2> SUFFICES ASSUME NEW v \in DOMAIN landed' PROVE Spent(v)'
    BY DEF OneEach
  <2>1. /\ plan[r].version = version /\ version' = version + 1
        /\ landed' = [landed EXCEPT ![version] = @ + 1]
    BY <1>2 DEF Lands, Matches
  <2>2. v \in DOMAIN landed /\ landed[v] \in Nat /\ v \in Nat /\ version \in Nat
    <3>1. DOMAIN landed' = DOMAIN landed
      BY <2>1
    <3> QED BY <1>0, <3>1, LandedFacts
  <2>3. landed[v] <= IF v < version THEN 1 ELSE 0
    BY <2>2 DEF OneEach, Spent
  <2> QED BY <2>1, <2>2, <2>3 DEF Spent
<1>3. (\E r \in Incidents : Lands(r)) \/ UNCHANGED <<version, landed>>
  <2>1. CASE \E r \in Incidents : Mine(r)
    <3>1. PICK r \in Incidents : Mine(r)
      BY <2>1
    <3>2. CASE Step(r)
      BY <3>2 DEF world, Step, Enters, IsRefused, Diagnosed, Concludes, Proposes, IsBarred, Prepared,
                  Unprepared, IsDenied, IsCleared, NotesStart, StartsMutation, Returned, Observes,
                  Verified, Completes,
                  Finishes, Fails
    <3>3. CASE ~Step(r)
      BY <3>1, <3>3 DEF world, Mine, Admit, Faults, IsCancelled, Answers
    <3> QED BY <3>2, <3>3
  <2>2. CASE Common
    BY <2>2 DEF world, Common, Crash, Restart, OperatorPauses, OperatorResets
  <2>3. CASE UNCHANGED vars
    BY <2>3 DEF vars, world
  <2> QED BY <2>1, <2>2, <2>3, NextCases
<1> QED BY <1>1, <1>2, <1>3

(* Two mutations approved on one displayed version are not both applied: the     *)
(* resourceVersion test of _tests.                                               *)
THEOREM NothingOverwritten == Spec => []NoOverwrite
<1>1. Init => OneEach
  BY DEF Init, OneEach, Spent
<1>2. Inv /\ OneEach => NoOverwrite
  <2> SUFFICES ASSUME Inv, OneEach, NEW v \in DOMAIN landed PROVE landed[v] <= 1
    BY DEF NoOverwrite
  <2> QED BY LandedFacts DEF Inv, OneEach, Spent
<1> QED BY <1>1, <1>2, StepOneEach, Invariance, PTL DEF Spec

-----------------------------------------------------------------------------
InFlight == {r \in Incidents : pc[r] \in Inside}
Counted == up /\ budget.resets = MaxResets => breaker.active = Cardinality(InFlight)

Stays == InFlight' = InFlight /\ breaker'.active = breaker.active
Joins(r) ==
    /\ r \notin InFlight /\ InFlight' = InFlight \cup {r}
    /\ breaker'.active = breaker.active + 1
Leaves(r) ==
    /\ r \in InFlight /\ InFlight' = InFlight \ {r}
    /\ breaker'.active = IF breaker.active > 0 THEN breaker.active - 1 ELSE 0

(* The size of the set of runs in flight when one enters or leaves it. *)
LEMMA CountFacts ==
    /\ Cardinality(InFlight) \in Nat
    /\ \A r : r \notin InFlight => Cardinality(InFlight \cup {r}) = Cardinality(InFlight) + 1
    /\ \A r : r \in InFlight => /\ Cardinality(InFlight \ {r}) = Cardinality(InFlight) - 1
                                /\ Cardinality(InFlight) > 0
<1>1. IsFiniteSet(InFlight)
  BY RunAssumption, FS_Subset DEF InFlight
<1>2. \A r : r \in InFlight => IsFiniteSet(InFlight \ {r}) /\ Cardinality(InFlight \ {r}) \in Nat
  BY <1>1, FS_RemoveElement, FS_CardinalityType
<1> QED BY <1>1, <1>2, FS_CardinalityType, FS_AddElement, FS_RemoveElement

(* A run that moves between two places enters, leaves or stays among those in flight. *)
LEMMA Moves ==
    ASSUME TypeOK, NEW r \in Incidents, NEW there, Goes(r, there)
    PROVE  /\ pc[r] \in Inside /\ there \in Inside => InFlight' = InFlight
           /\ pc[r] \notin Inside /\ there \notin Inside => InFlight' = InFlight
           /\ pc[r] \notin Inside /\ there \in Inside =>
                 r \notin InFlight /\ InFlight' = InFlight \cup {r}
           /\ pc[r] \in Inside /\ there \notin Inside =>
                 r \in InFlight /\ InFlight' = InFlight \ {r}
<1>1. \A q \in Incidents : pc'[q] = IF q = r THEN there ELSE pc[q]
  BY DEF TypeOK, Goes
<1> QED BY <1>1 DEF InFlight

(* A step of a run keeps the count of the breaker exact. *)
LEMMA OwnCounts ==
    ASSUME Inv, NEW r \in Incidents, Mine(r)
    PROVE  Stays \/ Joins(r) \/ Leaves(r)
<1>0. TypeOK /\ breaker \in Breaker
  BY DEF Inv, TypeOK
<1>a. ASSUME NEW there, Goes(r, there), breaker'.active = breaker.active,
             (pc[r] \in Inside) <=> (there \in Inside)
      PROVE  Stays
  BY <1>0, <1>a, Moves DEF Stays
<1>b. ASSUME pc' = pc, breaker' = breaker
      PROVE  Stays
  BY <1>b DEF Stays, InFlight
<1>c. ASSUME Goes(r, "over"), pc[r] \in Inside, NEW res, NEW why,
             breaker' = Left(breaker, r, res, why)
      PROVE  Leaves(r)
  <2>1. breaker'.active = IF breaker.active > 0 THEN breaker.active - 1 ELSE 0
    <3>1. LeavesOf(breaker, r, Left(breaker, r, res, why))
      BY <1>0, LeftFacts
    <3> QED BY <1>c, <3>1 DEF LeavesOf, Fewer
  <2>2. "over" \notin Inside
    BY DEF Awaits, Inside, Held
  <2> QED BY <1>0, <1>c, <2>1, <2>2, Moves DEF Leaves
<1>1. CASE Enters(r)
  <2>1. breaker'.active = breaker.active + 1
    BY <1>0, <1>1, EnteredFacts DEF Enters
  <2>2. Goes(r, "agents") /\ pc[r] \notin Inside /\ "agents" \in Inside
    BY <1>1 DEF Enters, At, Awaits, Inside, Held
  <2> QED BY <1>0, <2>1, <2>2, Moves DEF Joins
<1>2. CASE IsRefused(r)
  BY <1>2, <1>a DEF IsRefused, At, Awaits, Inside, Held
<1>3. CASE Diagnosed(r)
  BY <1>3, <1>a DEF Diagnosed, At, Awaits, Inside, Held, process
<1>4. CASE Concludes(r)
  BY <1>4, <1>a DEF Concludes, At, Awaits, Inside, Held, process
<1>5. CASE \E a \in Actions : Proposes(r, a)
  <2>1. pc[r] = "deciding" /\ (Goes(r, "preparing") \/ pc' = pc)
        /\ breaker' = Checked(breaker, r, TRUE)
    BY <1>5 DEF Proposes, At
  <2>2. breaker'.active = breaker.active
    BY <1>0, <2>1, CheckedFacts
  <2>3. CASE Goes(r, "preparing")
    BY <2>1, <2>2, <2>3, <1>a DEF Awaits, Inside, Held
  <2>4. CASE pc' = pc
    BY <2>2, <2>4 DEF Stays, InFlight
  <2> QED BY <2>1, <2>3, <2>4
<1>6. CASE \E a \in Actions : IsBarred(r, a)
  BY <1>6, <1>b DEF IsBarred, process
<1>7. CASE Prepared(r)
  BY <1>7, <1>a DEF Prepared, At, Awaits, Inside, Held, process
<1>8. CASE Unprepared(r)
  BY <1>8, <1>a DEF Unprepared, At, Awaits, Inside, Held, process
<1>9. CASE IsDenied(r)
  BY <1>9, <1>a DEF IsDenied, At, Awaits, Inside, Held, process
<1>10. CASE StartsMutation(r)
  BY <1>10, <1>a DEF StartsMutation, At, Awaits, Inside, Held, process
<1>22. CASE IsCleared(r)
  BY <1>22, <1>a DEF IsCleared, At, Awaits, Inside, Held, process
<1>23. CASE NotesStart(r)
  BY <1>23, <1>a DEF NotesStart, At, Awaits, Inside, Held, process
<1>11. CASE Returned(r)
  BY <1>11, <1>a DEF Returned, At, Awaits, Inside, Held, process
<1>12. CASE \E o \in {"passed", "failed", "unknown"} : Observes(r, o)
  BY <1>12, <1>a DEF Observes, At, Awaits, Inside, Held, process
<1>13. CASE \E v \in {"passed", "failed", "inconclusive"} : Verified(r, v)
  BY <1>13, <1>a DEF Verified, At, Awaits, Inside, Held, process
<1>14. CASE Completes(r)
  BY <1>14, <1>a DEF Completes, At, Awaits, Inside, Held, process
<1>15. CASE Finishes(r)
  BY <1>15, <1>c DEF Finishes, Resolved, At, Awaits, Inside, Held
<1>16. CASE Fails(r)
  BY <1>16, <1>c DEF Fails, Breaks, At, Awaits, Inside, Held
<1>17. CASE Lands(r)
  BY <1>17, <1>b DEF Lands, process
<1>18. CASE Admit(r)
  BY <1>18, <1>a DEF Admit, At, Awaits, Inside, Held, process
<1>19. CASE Faults(r)
  BY <1>19, <1>c DEF Faults, MayFault
<1>20. CASE IsCancelled(r)
  <2>1. CASE pc[r] = "queued"
    BY <1>20, <2>1, <1>a DEF IsCancelled, Awaits, Inside, Held
  <2>2. CASE pc[r] # "queued"
    BY <1>20, <2>2, <1>c DEF IsCancelled, Inside
  <2> QED BY <2>1, <2>2
<1>21. CASE \E d \in {"approved", "rejected"} : Answers(r, d)
  BY <1>21, <1>b DEF Answers, process
<1> QED
  BY <1>1, <1>2, <1>3, <1>4, <1>5, <1>6, <1>7, <1>8, <1>9, <1>10, <1>11, <1>12, <1>13, <1>14,
     <1>15, <1>16, <1>17, <1>18, <1>19, <1>20, <1>21, <1>22, <1>23, Zenon DEF Mine, Step

(* Every step keeps the count exact until the first reset. *)
LEMMA StepCounted == Inv /\ Counted /\ [Next]_vars => Counted'
<1> SUFFICES ASSUME Inv, Counted, [Next]_vars, (up /\ budget.resets = MaxResets)'
             PROVE  breaker'.active = Cardinality(InFlight')
  BY DEF Counted
<1>0. TypeOK /\ breaker \in Breaker /\ budget \in Bounds
  BY DEF Inv, TypeOK
<1>1. CASE \E r \in Incidents : Mine(r)
  <2>1. PICK r \in Incidents : Mine(r)
    BY <1>1
  <2>2. breaker.active = Cardinality(InFlight)
    BY <2>1, OwnKeepsResets DEF Counted
  <2> QED BY <2>1, <2>2, OwnCounts, CountFacts DEF Stays, Joins, Leaves
<1>2. CASE Crash
  BY <1>2 DEF Crash
<1>3. CASE Restart
  <2>1. InFlight' = InFlight /\ breaker'.active = 0
    BY <1>3, ClosedFacts DEF Restart, InFlight
  <2>2. InFlight = {}
    BY <1>3 DEF Restart, Inv, Local, Stopped, InFlight, Awaits, Inside, Held
  <2> QED BY <2>1, <2>2, FS_EmptySet
<1>4. CASE OperatorPauses
  <2>1. budget'.resets = budget.resets /\ breaker'.active = breaker.active /\ InFlight' = InFlight
    BY <1>0, <1>4, SpendsFacts, PausedFacts DEF OperatorPauses, InFlight
  <2> QED BY <1>4, <2>1 DEF Counted, OperatorPauses
<1>5. CASE OperatorResets
  <2>1. budget'.resets < MaxResets
    BY <1>0, <1>5, SpendsFacts DEF OperatorResets
  <2> QED BY <2>1, RunAssumption
<1>6. CASE UNCHANGED vars
  BY <1>6 DEF vars, process, InFlight, Counted
<1> QED BY <1>1, <1>2, <1>3, <1>4, <1>5, <1>6, NextCases DEF Common

(* No way to end a run leaks a place of the breaker or gives it up twice: the    *)
(* finally clause of handle_incident.                                            *)
THEOREM PlacesAreCounted == Spec => []ActiveIsExact
<1>1. Init => Counted
  <2> SUFFICES ASSUME Init PROVE Counted
    OBVIOUS
  <2>1. InFlight = {}
    BY DEF Init, InFlight, Awaits, Inside, Held
  <2> QED BY <2>1, ClosedFacts, FS_EmptySet DEF Init, Counted
<1>2. Counted => ActiveIsExact
  BY DEF Counted, ActiveIsExact, InFlight
<1> QED BY <1>1, <1>2, StepCounted, Invariance, PTL DEF Spec
=============================================================================
