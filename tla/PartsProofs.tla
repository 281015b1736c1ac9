----------------------------- MODULE PartsProofs -----------------------------
(***************************************************************************)
(* Theorems about the components that MCParts checks side by side, a       *)
(* section for each: the circuit breaker, the governed runs of Stage 4,    *)
(* the callbacks of the trainer, the stream of thoughts, the audit trail   *)
(* and the journal of a training group.  Each theorem is about the         *)
(* specification of one component alone.                                   *)
(***************************************************************************)
EXTENDS MCParts, BreakerProofs, SequenceTheorems, FiniteSetTheorems, WellFoundedInduction,
        TLAPS

-----------------------------------------------------------------------------
(***************************************************************************)
(* Theorems about the breaker among the runs that use it.  Its counters     *)
(* bound what really happened: active bounds the runs under way, spent the  *)
(* mutating calls of the hour that no late thread has forgotten, calls the  *)
(* calls of a run, each as long as no reset forgets them.                   *)
(***************************************************************************)

RunPlaces ==
    /\ IsFiniteSet(running) /\ breaker.active <= Cardinality(running)
    /\ resets = 0 => /\ breaker.active = Cardinality(running)
                     /\ Cardinality(running) <= MaxConcurrent

Quota ==
    /\ breaker.stale => granted = 0
    /\ granted <= breaker.spent + MaxMutations * late

Calls == resets = 0 => \A i \in Incidents : made[i] <= breaker.calls[i]

BreakerInv == TypeOK /\ RunPlaces /\ Quota /\ Calls

(* A reset leaves an empty history of endings. *)
LEMMA NothingEnded == <<>> \in Seq(Outcome) /\ Len(<<>>) <= MaxEnds
<1>1. \A Values : <<>> \in Seq(Values) /\ Len(<<>>) = 0
  OBVIOUS
<1> QED BY <1>1, BoundAssumption

(* A thread that forgets the hour's calls once more gives their quota once more. *)
LEMMA QuotaTimes ==
    /\ \A n \in Nat : MaxMutations * n \in Nat
    /\ \A n \in Nat : MaxMutations * (n + 1) = MaxMutations * n + MaxMutations
    /\ \A n \in Nat : MaxMutations * (1 + n) = MaxMutations * n + MaxMutations
    /\ MaxMutations * 0 = 0
BY BreakerAssumption

(* A new breaker satisfies the invariant. *)
LEMMA BreakerInitInv == Init => BreakerInv
<1> SUFFICES ASSUME Init PROVE BreakerInv
  OBVIOUS
<1>1. TypeOK
  <2>1. /\ resets \in 0 .. MaxResets /\ made \in [Incidents -> Nat] /\ granted \in Nat
        /\ late \in Nat /\ asker \in [Askers -> {"out", "stale", "marked"}]
    BY BoundAssumption DEF Init
  <2> QED BY <2>1, NothingEnded, ClosedFacts DEF Init, TypeOK
<1>2. RunPlaces /\ Quota /\ Calls
  BY ClosedFacts, FS_EmptySet, BreakerAssumption, QuotaTimes DEF Init, RunPlaces, Quota, Calls
<1> QED BY <1>1, <1>2 DEF BreakerInv

(* Every method keeps the types. *)
LEMMA BreakerTyped == TypeOK /\ [Next]_vars => TypeOK'
<1> SUFFICES ASSUME TypeOK, [Next]_vars PROVE TypeOK'
  OBVIOUS
<1>1. ASSUME NEW i \in Incidents, Start(i) PROVE TypeOK'
  BY <1>1, EnteredFacts DEF TypeOK, Start
<1>2. ASSUME NEW i \in Incidents, NEW mutating \in BOOLEAN, Call(i, mutating) PROVE TypeOK'
  <2>1. breaker' \in Breaker
    BY <1>2, CheckedFacts DEF TypeOK, Call
  <2> QED BY <1>2, <2>1 DEF TypeOK, Call
<1>3. ASSUME NEW i \in Incidents, NEW out \in Outcome, Finish(i, out) PROVE TypeOK'
  <2>1. LeavesOf(breaker, i, Left(breaker, i, out[1], out[2]))
    BY LeftFacts DEF TypeOK
  <2>2. ended' \in Seq(Outcome) /\ Len(ended') <= MaxEnds
    BY <1>3, BoundAssumption DEF TypeOK, Finish
  <2> QED BY <1>3, <2>1, <2>2 DEF TypeOK, Finish, LeavesOf
<1>4. CASE HourPasses
  BY <1>4 DEF TypeOK, HourPasses, Breaker
<1>5. CASE Pause
  BY <1>5, PausedFacts DEF TypeOK, Pause
<1>8. ASSUME NEW t \in Askers, FindsStale(t) \/ MarksHour(t) \/ ZeroesCount(t) PROVE TypeOK'
  <2>0. breaker \in Breaker /\ 0 \in 0 .. MaxMutations
    BY BreakerAssumption DEF TypeOK
  <2>1. [breaker EXCEPT !.stale = FALSE] \in Breaker
    BY ONLY <2>0 DEF Breaker
  <2>2. [breaker EXCEPT !.spent = 0] \in Breaker
    BY ONLY <2>0 DEF Breaker
  <2>3. breaker' \in Breaker
    BY <1>8, <2>1, <2>2 DEF TypeOK, FindsStale, MarksHour, ZeroesCount
  <2>4. asker' \in [Askers -> {"out", "stale", "marked"}] /\ late' \in Nat
    BY <1>8 DEF TypeOK, FindsStale, MarksHour, ZeroesCount
  <2>5. UNCHANGED <<running, made, granted, ended, paused, resets>>
    BY <1>8 DEF FindsStale, MarksHour, ZeroesCount
  <2> QED BY <2>3, <2>4, <2>5 DEF TypeOK
<1>6. CASE ResetBreaker
  <2>1. resets' \in 0 .. MaxResets
    BY <1>6, BoundAssumption DEF TypeOK, ResetBreaker
  <2> QED BY <1>6, <2>1, NothingEnded, ClosedFacts DEF TypeOK, ResetBreaker, Reset
<1>7. CASE UNCHANGED vars
  BY <1>7 DEF TypeOK, vars
<1> QED BY <1>1, <1>2, <1>3, <1>4, <1>5, <1>6, <1>7, <1>8 DEF Next

(* Every method keeps places, quota and calls within their limits. *)
LEMMA BreakerBounds == BreakerInv /\ [Next]_vars => (RunPlaces /\ Quota /\ Calls)'
<1> SUFFICES ASSUME BreakerInv, [Next]_vars PROVE (RunPlaces /\ Quota /\ Calls)'
  OBVIOUS
<1>0. TypeOK /\ RunPlaces /\ Quota /\ Calls /\ breaker \in Breaker
  BY DEF BreakerInv, TypeOK
<1>t. /\ breaker.active \in Nat /\ breaker.spent \in Nat /\ breaker.stale \in BOOLEAN
      /\ breaker.calls \in [Incidents -> 0 .. MaxCalls] /\ granted \in Nat
      /\ made \in [Incidents -> Nat] /\ running \subseteq Incidents
      /\ Cardinality(running) \in Nat /\ late \in Nat
      /\ breaker.spent <= MaxMutations /\ MaxMutations \in Nat
  BY <1>0, BreakerAssumption, FS_CardinalityType DEF Breaker, TypeOK, RunPlaces
<1>m. PICK more \in Nat : more = MaxMutations * late
  BY <1>t, QuotaTimes
<1>q. (breaker.stale => granted = 0) /\ granted <= breaker.spent + more
  BY <1>0, <1>m DEF Quota
<1>k. ASSUME late' = late, breaker'.stale => granted' = 0, granted' <= breaker'.spent + more
      PROVE  Quota'
  BY <1>k, <1>m DEF Quota
<1>1. ASSUME NEW i \in Incidents, Start(i) PROVE (RunPlaces /\ Quota /\ Calls)'
  <2>1. /\ IsFiniteSet(running')
        /\ Cardinality(running') = Cardinality(running) + 1
    BY <1>0, <1>1, FS_AddElement DEF RunPlaces, Start
  <2>2. /\ breaker'.active = breaker.active + 1 /\ breaker'.calls = breaker.calls
        /\ breaker'.spent = breaker.spent /\ breaker'.stale = breaker.stale
        /\ breaker.active < MaxConcurrent
    BY <1>0, <1>1, EnteredFacts DEF Start, Admits
  <2>3. resets' = resets /\ granted' = granted /\ made' = made /\ late' = late
    BY <1>1 DEF Start
  <2>4. Quota'
    BY <1>q, <1>k, <2>2, <2>3
  <2> QED BY <1>0, <1>t, <2>1, <2>2, <2>3, <2>4, BreakerAssumption DEF RunPlaces, Calls
<1>2. ASSUME NEW i \in Incidents, NEW mutating \in BOOLEAN, Call(i, mutating)
      PROVE (RunPlaces /\ Quota /\ Calls)'
  <2> DEFINE ok == Grants(breaker, i, mutating)
  <2>1. /\ breaker'.active = breaker.active /\ ~breaker'.stale
        /\ ok => breaker'.calls = [breaker.calls EXCEPT ![i] = @ + 1]
        /\ breaker'.calls = breaker.calls \/ breaker'.calls = [breaker.calls EXCEPT ![i] = @ + 1]
        /\ ok /\ mutating => breaker'.spent = (IF breaker.stale THEN 0 ELSE breaker.spent) + 1
        /\ ~(ok /\ mutating) => breaker'.spent = IF breaker.stale THEN 0 ELSE breaker.spent
    BY <1>0, <1>2, CheckedFacts DEF Call
  <2>2. /\ made' = IF ok THEN [made EXCEPT ![i] = @ + 1] ELSE made
        /\ granted' = IF ok /\ mutating THEN granted + 1 ELSE granted
        /\ running' = running /\ resets' = resets /\ late' = late
    BY <1>2 DEF Call
  <2> HIDE DEF ok
  <2>3. RunPlaces'
    BY <1>0, <2>1, <2>2 DEF RunPlaces
  <2>4. Quota'
    BY <1>t, <1>m, <1>q, <1>k, <2>1, <2>2
  <2>5. Calls'
    <3> SUFFICES ASSUME resets = 0, NEW j \in Incidents PROVE made'[j] <= breaker'.calls[j]
      BY <2>2 DEF Calls
    <3>1. made[j] <= breaker.calls[j] /\ made[j] \in Nat /\ breaker.calls[j] \in Nat
      BY <1>0, <1>t, BreakerAssumption DEF Calls
    <3> QED BY <1>t, <2>1, <2>2, <3>1
  <2> QED BY <2>3, <2>4, <2>5
<1>3. ASSUME NEW i \in Incidents, NEW out \in Outcome, Finish(i, out)
      PROVE (RunPlaces /\ Quota /\ Calls)'
  <2>1. /\ breaker'.active = Fewer(breaker.active) /\ breaker'.spent = breaker.spent
        /\ breaker'.calls = [breaker.calls EXCEPT ![i] = 0] /\ breaker'.stale = breaker.stale
    <3>1. LeavesOf(breaker, i, Left(breaker, i, out[1], out[2]))
      BY <1>0, LeftFacts
    <3> QED BY <1>3, <3>1 DEF LeavesOf, Finish
  <2>2. /\ running' = running \ {i} /\ i \in running /\ made' = [made EXCEPT ![i] = 0]
        /\ granted' = granted /\ resets' = resets /\ late' = late
    BY <1>3 DEF Finish
  <2>3. /\ IsFiniteSet(running') /\ Cardinality(running') = Cardinality(running) - 1
        /\ Cardinality(running') \in Nat
    BY <1>0, <2>2, FS_RemoveElement, FS_CardinalityType DEF RunPlaces
  <2>4. RunPlaces'
    BY <1>0, <1>t, <2>1, <2>2, <2>3, BreakerAssumption DEF RunPlaces, Fewer
  <2>5. Quota'
    BY <1>q, <1>k, <2>1, <2>2
  <2>6. Calls'
    BY <1>0, <1>t, <2>1, <2>2 DEF Calls
  <2> QED BY <2>4, <2>5, <2>6
<1>4. CASE HourPasses
  <2>1. /\ breaker'.active = breaker.active /\ breaker'.stale /\ breaker'.calls = breaker.calls
        /\ breaker'.spent = breaker.spent
    BY <1>0, <1>4 DEF HourPasses, Breaker
  <2>2. /\ granted' = 0 /\ late' = 0 /\ running' = running /\ made' = made /\ resets' = resets
    BY <1>4 DEF HourPasses
  <2>3. Quota'
    BY <1>t, <2>1, <2>2, QuotaTimes DEF Quota
  <2> QED BY <1>0, <2>1, <2>2, <2>3 DEF RunPlaces, Calls
<1>5. CASE Pause
  <2>1. /\ breaker'.active = breaker.active /\ breaker'.calls = breaker.calls
        /\ breaker'.spent = breaker.spent /\ breaker'.stale = breaker.stale
    BY <1>0, <1>5, PausedFacts DEF Pause
  <2>2. /\ granted' = granted /\ late' = late /\ running' = running /\ made' = made
        /\ resets' = resets
    BY <1>5 DEF Pause
  <2>3. Quota'
    BY <1>q, <1>k, <2>1, <2>2
  <2> QED BY <1>0, <2>1, <2>2, <2>3 DEF RunPlaces, Calls
<1>8. ASSUME NEW t \in Askers, FindsStale(t) \/ MarksHour(t) \/ ZeroesCount(t)
      PROVE (RunPlaces /\ Quota /\ Calls)'
  <2>1. /\ breaker'.active = breaker.active /\ breaker'.calls = breaker.calls
        /\ breaker'.stale => breaker.stale
        /\ ~ZeroesCount(t) => breaker'.spent = breaker.spent
        /\ ZeroesCount(t) => breaker'.spent = 0
    BY <1>0, <1>8 DEF FindsStale, MarksHour, ZeroesCount, Breaker
  <2>2. granted' = granted /\ running' = running /\ made' = made /\ resets' = resets
    BY <1>8 DEF FindsStale, MarksHour, ZeroesCount
  <2>3. CASE late' = late /\ granted' <= breaker'.spent + more
    BY <1>0, <1>q, <1>k, <2>1, <2>2, <2>3 DEF RunPlaces, Calls
  <2>4. CASE ZeroesCount(t) /\ granted > 0
    <3>1. late' = late + 1
      BY <2>4 DEF ZeroesCount
    <3>2. MaxMutations * late' = more + MaxMutations
      BY <1>t, <1>m, <3>1, QuotaTimes
    <3>3. Quota'
      BY <1>t, <1>q, <2>1, <2>2, <2>4, <3>2 DEF Quota
    <3> QED BY <1>0, <2>1, <2>2, <3>3 DEF RunPlaces, Calls
  <2>5. CASE ~(ZeroesCount(t) /\ granted > 0)
    <3>1. late' = late
      BY <1>8, <2>5 DEF FindsStale, MarksHour, ZeroesCount
    <3> QED BY <1>t, <1>m, <1>q, <2>1, <2>2, <2>3, <2>5, <3>1
  <2> QED BY <2>4, <2>5
<1>6. CASE ResetBreaker
  <2>1. breaker'.active = 0 /\ breaker'.spent = 0 /\ ~breaker'.stale
    BY <1>6, ClosedFacts DEF ResetBreaker, Reset
  <2>2. granted' = 0 /\ late' = 0 /\ running' = running /\ resets' # 0
    BY <1>0, <1>6, BoundAssumption DEF ResetBreaker, TypeOK
  <2>3. Quota'
    BY <2>1, <2>2, QuotaTimes DEF Quota
  <2> QED BY <1>0, <1>t, <2>1, <2>2, <2>3 DEF RunPlaces, Calls
<1>7. CASE UNCHANGED vars
  <2>1. Quota'
    BY <1>0, <1>7 DEF Quota, vars
  <2> QED BY <1>0, <1>7, <2>1 DEF RunPlaces, Calls, vars
<1> QED BY <1>1, <1>2, <1>3, <1>4, <1>5, <1>6, <1>7, <1>8 DEF Next

-----------------------------------------------------------------------------
(* Streaks: why the breaker is open. *)

\* In the endings s, those from a to z that count as failures, if none is a success.
Fails(s, a, z) == {n \in a .. z : ~s[n][1] /\ s[n][2] \notin Designed}

Unbroken(s, a, z) == \A n \in a .. z : ~s[n][1]

\* failures counts the streak that begins at a.
Since(a) ==
    /\ Unbroken(ended, a, Len(ended))
    /\ a > 1 => ended[a - 1][1]
    /\ breaker.failures = Cardinality(Fails(ended, a, Len(ended)))

Streak == \E a \in 1 .. Len(ended) + 1 : Since(a)

\* A streak of the length of the threshold.
Enough(s) ==
    \E a, z \in 1 .. Len(s) : Unbroken(s, a, z) /\ Cardinality(Fails(s, a, z)) >= Threshold

Cause == breaker.tripped <=> (paused \/ Enough(ended))

StreakInv == TypeOK /\ Streak /\ Cause

(* The failures of a streak are finitely many. *)
LEMMA FailsFinite ==
    ASSUME NEW s, NEW a \in Int, NEW z \in Int
    PROVE  IsFiniteSet(Fails(s, a, z)) /\ Cardinality(Fails(s, a, z)) \in Nat
<1>1. IsFiniteSet(a .. z) /\ Fails(s, a, z) \in SUBSET (a .. z)
  BY FS_Interval DEF Fails
<1>2. IsFiniteSet(Fails(s, a, z))
  BY <1>1, FS_Subset
<1> QED BY <1>2, FS_CardinalityType

(* A streak that begins later has no more of them. *)
LEMMA FailsFewer ==
    ASSUME NEW s, NEW a \in Int, NEW b \in Int, NEW z \in Int, a =< b
    PROVE  Cardinality(Fails(s, b, z)) =< Cardinality(Fails(s, a, z))
<1>1. IsFiniteSet(Fails(s, a, z)) /\ Fails(s, b, z) \in SUBSET Fails(s, a, z)
  BY FailsFinite DEF Fails
<1> QED BY <1>1, FS_Subset

(* What Append does to the endings.                                        *)
LEMMA Appended ==
    ASSUME NEW s \in Seq(Outcome), NEW out \in Outcome, NEW t, t = Append(s, out)
    PROVE  /\ Len(s) \in Nat /\ Len(t) = Len(s) + 1 /\ t[Len(s) + 1] = out
           /\ \A n \in 1 .. Len(s) : t[n] = s[n]
  OBVIOUS

(* An ending that is appended leaves the streaks before it.                *)
LEMMA StreakBefore ==
    ASSUME NEW s \in Seq(Outcome), NEW out \in Outcome, NEW t, t = Append(s, out),
           NEW a \in 1 .. Len(s) + 1, NEW z \in 0 .. Len(s)
    PROVE  Fails(t, a, z) = Fails(s, a, z) /\ (Unbroken(t, a, z) <=> Unbroken(s, a, z))
<1>1. \A n \in a .. z : t[n] = s[n]
  BY Appended
<1> QED BY <1>1 DEF Fails, Unbroken

(* It counts once in the streak it ends, if it counts.                     *)
LEMMA FailsNext ==
    ASSUME NEW s \in Seq(Outcome), NEW out \in Outcome, NEW t, t = Append(s, out),
           NEW a \in 1 .. Len(s) + 1
    PROVE  Cardinality(Fails(t, a, Len(s) + 1)) =
             Cardinality(Fails(s, a, Len(s)))
               + (IF ~out[1] /\ out[2] \notin Designed THEN 1 ELSE 0)
<1> DEFINE L == Len(s)
<1>1. /\ L \in Nat /\ t[L + 1] = out /\ Len(t) = L + 1
      /\ Fails(t, a, L) = Fails(s, a, L)
  <2>1. L \in Nat /\ t[L + 1] = out /\ Len(t) = L + 1
    BY Appended
  <2>2. L \in 0 .. Len(s)
    BY <2>1
  <2>3. Fails(t, a, L) = Fails(s, a, L)
    BY <2>2, StreakBefore
  <2> QED BY <2>1, <2>3
<1>2. a .. (L + 1) = (a .. L) \cup {L + 1}
  BY <1>1
<1>3. IsFiniteSet(Fails(s, a, L)) /\ Cardinality(Fails(s, a, L)) \in Nat
  BY <1>1, FailsFinite
<1>4. L + 1 \notin Fails(s, a, L)
  BY <1>1 DEF Fails
<1>5. CASE ~out[1] /\ out[2] \notin Designed
  <2>1. Fails(t, a, L + 1) = Fails(s, a, L) \cup {L + 1}
    BY <1>1, <1>2, <1>5 DEF Fails
  <2>2. Cardinality(Fails(s, a, L) \cup {L + 1}) = Cardinality(Fails(s, a, L)) + 1
    BY <1>3, <1>4, FS_AddElement
  <2> QED BY <1>5, <2>1, <2>2
<1>6. CASE ~(~out[1] /\ out[2] \notin Designed)
  <2>1. Fails(t, a, L + 1) = Fails(s, a, L)
    BY <1>1, <1>2, <1>6 DEF Fails
  <2> QED BY <1>3, <1>6, <2>1
<1> QED BY <1>5, <1>6

(* A streak long enough stays one.                                         *)
LEMMA EnoughStays ==
    ASSUME NEW s \in Seq(Outcome), NEW out \in Outcome, NEW t, t = Append(s, out), Enough(s)
    PROVE  Enough(t)
<1>1. PICK a \in 1 .. Len(s), z \in 1 .. Len(s) :
        Unbroken(s, a, z) /\ Cardinality(Fails(s, a, z)) >= Threshold
  BY DEF Enough
<1>2. Len(s) \in Nat /\ Len(t) = Len(s) + 1
  BY Appended
<1>3. a \in 1 .. Len(t) /\ z \in 1 .. Len(t) /\ a \in 1 .. Len(s) + 1 /\ z \in 0 .. Len(s)
  BY <1>1, <1>2
<1>4. Fails(t, a, z) = Fails(s, a, z) /\ (Unbroken(t, a, z) <=> Unbroken(s, a, z))
  BY ONLY <1>3, StreakBefore, s \in Seq(Outcome), out \in Outcome, t = Append(s, out)
<1>5. Unbroken(t, a, z) /\ Cardinality(Fails(t, a, z)) >= Threshold
  BY <1>1, <1>4
<1> QED BY <1>3, <1>5 DEF Enough

(* A streak that is long enough for the first time ends with the last ending. *)
LEMMA EnoughNew ==
    ASSUME NEW s \in Seq(Outcome), NEW out \in Outcome, NEW t, t = Append(s, out),
           Enough(t), ~Enough(s)
    PROVE  ~out[1] /\ \E b \in 1 .. Len(s) + 1 :
               Unbroken(t, b, Len(s) + 1) /\ Cardinality(Fails(t, b, Len(s) + 1)) >= Threshold
<1>1. PICK a \in 1 .. Len(t), z \in 1 .. Len(t) :
        Unbroken(t, a, z) /\ Cardinality(Fails(t, a, z)) >= Threshold
  BY DEF Enough
<1>2. Len(s) \in Nat /\ Len(t) = Len(s) + 1 /\ t[Len(s) + 1] = out
  BY Appended
<1>3. a =< z
  <2>1. CASE a > z
    <3>1. Fails(t, a, z) = {}
      BY <1>2, <2>1 DEF Fails
    <3>2. Cardinality({}) = 0
      BY FS_EmptySet
    <3> QED BY <1>1, <3>1, <3>2, BreakerAssumption
  <2> QED BY <1>2, <2>1
<1>4. z = Len(s) + 1
  <2>1. CASE z # Len(s) + 1
    <3>1. a \in 1 .. Len(s) /\ z \in 1 .. Len(s)
      BY <1>2, <1>3, <2>1
    <3>2. a \in 1 .. Len(s) + 1 /\ z \in 0 .. Len(s)
      BY <1>2, <3>1
    <3>3. Fails(t, a, z) = Fails(s, a, z) /\ (Unbroken(t, a, z) <=> Unbroken(s, a, z))
      BY ONLY <3>2, StreakBefore, s \in Seq(Outcome), out \in Outcome, t = Append(s, out)
    <3> QED BY <1>1, <3>1, <3>3 DEF Enough
  <2> QED BY <2>1
<1>5. ~out[1]
  BY <1>1, <1>2, <1>3, <1>4 DEF Unbroken
<1> QED BY <1>1, <1>2, <1>4, <1>5

(* Where nothing ended there is no streak.                                 *)
LEMMA NoStreak ==
    /\ Len(<<>>) = 0 /\ ~Enough(<<>>)
    /\ Unbroken(<<>>, 1, 0) /\ Cardinality(Fails(<<>>, 1, 0)) = 0
<1>1. Len(<<>>) = 0
  OBVIOUS
<1>2. Fails(<<>>, 1, 0) = {} /\ Cardinality({}) = 0
  BY FS_EmptySet DEF Fails
<1> QED BY <1>1, <1>2 DEF Enough, Unbroken

(* The end of a run keeps the count of the streak and the reason to be open. *)
LEMMA FinishStreak ==
    ASSUME StreakInv, NEW i \in Incidents, NEW out \in Outcome, Finish(i, out)
    PROVE  (Streak /\ Cause)'
<1> DEFINE L == Len(ended)
           counted == ~out[1] /\ out[2] \notin Designed
<1>0. /\ breaker \in Breaker /\ ended \in Seq(Outcome) /\ paused' = paused /\ L \in Nat
      /\ ended' = Append(ended, out) /\ out[1] \in BOOLEAN
      /\ breaker.failures \in Nat /\ breaker.tripped \in BOOLEAN
  <2>1. breaker \in Breaker /\ ended \in Seq(Outcome)
    BY DEF StreakInv, TypeOK
  <2>2. paused' = paused /\ ended' = Append(ended, out)
    BY DEF Finish
  <2>3. L \in Nat /\ breaker.failures \in Nat /\ breaker.tripped \in BOOLEAN
    BY <2>1 DEF Breaker
  <2>4. out[1] \in BOOLEAN
    <3>1. CASE out = <<TRUE, "">>
      BY <3>1
    <3>2. CASE \E r \in Reasons : out = <<FALSE, r>>
      BY <3>2
    <3> QED BY <3>1, <3>2 DEF Outcome
  <2> QED BY <2>1, <2>2, <2>3, <2>4
<1>1. /\ out[1] => breaker'.failures = 0 /\ breaker'.tripped = breaker.tripped
      /\ ~out[1] /\ ~counted => breaker'.failures = breaker.failures
                                /\ breaker'.tripped = breaker.tripped
      /\ counted => /\ breaker'.failures = breaker.failures + 1
                    /\ breaker'.tripped = (breaker.tripped \/ breaker.failures + 1 >= Threshold)
  BY <1>0, LeftStreak DEF Finish
<1>2. /\ Len(ended') = L + 1 /\ ended'[L + 1] = out
      /\ \A n \in 1 .. L : ended'[n] = ended[n]
  BY <1>0, Appended
<1>3. PICK a \in 1 .. L + 1 : Since(a)
  BY DEF StreakInv, Streak
<1>4. Cause
  BY DEF StreakInv
<1>5. CASE out[1]
  <2> PICK next \in Nat : next = L + 2
    BY <1>0
  <2>1. Since(next)'
    <3>1. Fails(ended', L + 2, L + 1) = {}
      BY <1>0 DEF Fails
    <3>2. Cardinality({}) = 0
      BY FS_EmptySet
    <3>3. Unbroken(ended', L + 2, L + 1)
      BY <1>0 DEF Unbroken
    <3>4. ended'[(L + 2) - 1][1]
      BY <1>0, <1>2, <1>5
    <3> QED BY <1>1, <1>2, <1>5, <3>1, <3>2, <3>3, <3>4 DEF Since
  <2>2. Streak'
    <3>1. next \in 1 .. Len(ended') + 1
      BY <1>0, <1>2
    <3> QED BY <2>1, <3>1 DEF Streak
  <2>3. Enough(ended') <=> Enough(ended)
    BY <1>0, <1>5, EnoughStays, EnoughNew
  <2> QED BY <1>0, <1>1, <1>4, <1>5, <2>2, <2>3 DEF Cause
<1>6. CASE ~out[1]
  <2>1. Cardinality(Fails(ended', a, L + 1)) = breaker'.failures
    <3>1. Cardinality(Fails(ended', a, L + 1))
            = Cardinality(Fails(ended, a, L)) + (IF counted THEN 1 ELSE 0)
      BY <1>0, FailsNext
    <3>2. Cardinality(Fails(ended, a, L)) = breaker.failures
      BY <1>3 DEF Since
    <3> QED BY <1>0, <1>1, <1>6, <3>1, <3>2
  <2>2. Unbroken(ended', a, L + 1)
    <3>1. Unbroken(ended, a, L)
      BY <1>3 DEF Since
    <3> QED BY <1>0, <1>2, <1>6, <3>1 DEF Unbroken
  <2>3. a > 1 => ended'[a - 1][1]
    <3>1. a > 1 => ended[a - 1][1] /\ a - 1 \in 1 .. L
      BY <1>0, <1>3 DEF Since
    <3> QED BY <1>2, <3>1
  <2>4. Streak'
    <3>1. a \in 1 .. (L + 1) + 1
      BY <1>0
    <3> QED BY <1>2, <2>1, <2>2, <2>3, <3>1 DEF Streak, Since
  <2>5. breaker'.tripped => paused \/ Enough(ended')
    <3>1. CASE breaker.tripped
      BY <1>0, <1>4, <3>1, EnoughStays DEF Cause
    <3>2. CASE counted /\ breaker'.failures >= Threshold
      <4>1. a \in 1 .. L + 1 /\ L + 1 \in 1 .. L + 1
        BY <1>0
      <4> QED BY <1>2, <2>1, <2>2, <3>2, <4>1 DEF Enough
    <3> QED BY <1>0, <1>1, <1>6, <3>1, <3>2
  <2>6. paused \/ Enough(ended) => breaker'.tripped
    BY <1>0, <1>1, <1>4, <1>6 DEF Cause
  <2>7. Enough(ended') /\ ~Enough(ended) => breaker'.tripped
    <3> SUFFICES ASSUME Enough(ended'), ~Enough(ended) PROVE breaker'.tripped
      OBVIOUS
    <3>1. PICK b \in 1 .. L + 1 :
            Unbroken(ended', b, L + 1) /\ Cardinality(Fails(ended', b, L + 1)) >= Threshold
      BY <1>0, EnoughNew
    <3>2. a =< b
      <4>1. CASE a > b
        <5>1. a - 1 \in b .. (L + 1) /\ a > 1
          BY <1>0, <4>1
        <5> QED BY <2>3, <3>1, <5>1 DEF Unbroken
      <4> QED BY <1>0, <4>1
    <3>3. Cardinality(Fails(ended', b, L + 1)) =< breaker'.failures
      BY <1>0, <2>1, <3>2, FailsFewer
    <3>4. breaker'.failures >= Threshold
      <4>1. Cardinality(Fails(ended', b, L + 1)) \in Nat
        BY <1>0, FailsFinite
      <4>2. breaker'.failures \in Nat
        BY <1>0, <1>1, <1>6
      <4> QED BY <3>1, <3>3, <4>1, <4>2, BreakerAssumption
    <3>5. CASE counted
      BY <1>1, <3>4, <3>5
    <3>6. CASE ~counted
      <4>1. Cardinality(Fails(ended, a, L)) >= Threshold
        BY <1>1, <1>3, <1>6, <3>4, <3>6 DEF Since
      <4>2. a \in 1 .. L
        <5>1. CASE a = L + 1
          <6>1. Fails(ended, a, L) = {}
            BY <1>0, <5>1 DEF Fails
          <6>2. Cardinality({}) = 0
            BY FS_EmptySet
          <6> QED BY <4>1, <6>1, <6>2, BreakerAssumption
        <5> QED BY <1>0, <5>1
      <4>3. L \in 1 .. L
        BY <1>0, <4>2
      <4> QED BY <1>3, <4>1, <4>2, <4>3 DEF Since, Enough
    <3> QED BY <3>5, <3>6
  <2> QED BY <1>0, <2>4, <2>5, <2>6, <2>7 DEF Cause
<1> QED BY <1>0, <1>5, <1>6

(* Nothing but the end of a run and a reset changes the streak. *)
LEMMA StreakStep == StreakInv /\ [Next]_vars => StreakInv'
<1> SUFFICES ASSUME StreakInv, [Next]_vars PROVE StreakInv'
  OBVIOUS
<1>0. TypeOK /\ TypeOK' /\ breaker \in Breaker
  BY BreakerTyped DEF StreakInv, TypeOK
<1>1. ASSUME ended' = ended, paused' = paused, breaker'.failures = breaker.failures,
             breaker'.tripped = breaker.tripped
      PROVE  StreakInv'
  BY <1>0, <1>1 DEF StreakInv, Streak, Since, Cause
<1>2. ASSUME NEW i \in Incidents, Start(i) PROVE StreakInv'
  BY <1>0, <1>1, <1>2, StreakKept DEF Start
<1>3. ASSUME NEW i \in Incidents, NEW mutating \in BOOLEAN, Call(i, mutating) PROVE StreakInv'
  BY <1>0, <1>1, <1>3, StreakKept DEF Call
<1>4. ASSUME NEW i \in Incidents, NEW out \in Outcome, Finish(i, out) PROVE StreakInv'
  BY <1>0, <1>4, FinishStreak DEF StreakInv
<1>5. CASE HourPasses
  BY <1>0, <1>1, <1>5 DEF HourPasses, Breaker
<1>6. CASE Pause
  <2>1. ended' = ended /\ paused' = TRUE /\ breaker'.failures = breaker.failures /\ breaker'.tripped
    BY <1>0, <1>6, StreakKept DEF Pause
  <2> QED BY <1>0, <2>1 DEF StreakInv, Streak, Since, Cause
<1>7. CASE ResetBreaker
  <2>1. ended' = <<>> /\ ~paused' /\ breaker'.failures = 0 /\ ~breaker'.tripped
    BY <1>7 DEF ResetBreaker, Reset, Closed
  <2> QED BY <1>0, <2>1, NoStreak DEF StreakInv, Streak, Since, Cause
<1>8. ASSUME NEW t \in Askers, FindsStale(t) \/ MarksHour(t) \/ ZeroesCount(t)
      PROVE  StreakInv'
  BY <1>0, <1>1, <1>8 DEF FindsStale, MarksHour, ZeroesCount, Breaker
<1>9. CASE UNCHANGED vars
  BY <1>0, <1>1, <1>9 DEF vars
<1> QED BY <1>2, <1>3, <1>4, <1>5, <1>6, <1>7, <1>8, <1>9 DEF Next

-----------------------------------------------------------------------------
(* The invariant of the breaker holds in every state a server process reaches. *)
THEOREM BreakerInvariance == Spec => []BreakerInv
<1>1. BreakerInv /\ [Next]_vars => BreakerInv'
  BY BreakerTyped, BreakerBounds DEF BreakerInv
<1> QED BY <1>1, BreakerInitInv, PTL DEF Spec

(* The counters keep their types and bounds: __init__ and the methods of         *)
(* CircuitBreaker.                                                              *)
THEOREM TypeCorrect == Spec => []TypeOK
<1>1. BreakerInv => TypeOK
  BY DEF BreakerInv
<1> QED BY <1>1, BreakerInvariance, PTL

(* start_incident refuses a run only when that many are really under way.        *)
THEOREM PlacesAreReal == Spec => []NeverOvercounts
<1>1. BreakerInv => NeverOvercounts
  BY DEF BreakerInv, RunPlaces, NeverOvercounts
<1> QED BY <1>1, BreakerInvariance, PTL

(* check_before_tool_call never grants more mutating calls in an hour than       *)
(* max_cluster_mutating_actions_per_hour, resets included, but once more for     *)
(* each status request that zeroes the count after calls of the hour.           *)
THEOREM HourlyQuota == Spec => []QuotaKept
<1>1. BreakerInv => QuotaKept
  <2> SUFFICES ASSUME BreakerInv PROVE QuotaKept
    OBVIOUS
  <2>1. /\ late \in Nat /\ granted \in Nat /\ breaker.spent \in 0 .. MaxMutations
        /\ granted <= breaker.spent + MaxMutations * late
    BY DEF BreakerInv, TypeOK, Breaker, Quota
  <2>2. /\ MaxMutations * late \in Nat /\ MaxMutations \in Nat
        /\ MaxMutations * (1 + late) = MaxMutations * late + MaxMutations
    BY <2>1, QuotaTimes, BreakerAssumption
  <2> QED BY <2>1, <2>2 DEF QuotaKept
<1> QED BY <1>1, BreakerInvariance, PTL

(* The breaker is open if and only if it was paused or an unbroken streak of     *)
(* failures reached the threshold since the last reset (finish_incident).        *)
THEOREM OpensForCause == Spec => []OpenForCause
<1>1. Init => StreakInv
  <2> SUFFICES ASSUME Init PROVE StreakInv
    OBVIOUS
  <2>1. TypeOK
    BY BreakerInitInv DEF BreakerInv
  <2>2. ended = <<>> /\ ~paused /\ breaker.failures = 0 /\ ~breaker.tripped
    BY DEF Init, Closed
  <2> QED BY <2>1, <2>2, NoStreak DEF StreakInv, Streak, Since, Cause
<1>2. StreakInv => OpenForCause
  <2> SUFFICES ASSUME StreakInv PROVE OpenForCause
    OBVIOUS
  <2>1. DOMAIN ended = 1 .. Len(ended)
    BY DEF StreakInv, TypeOK
  <2>2. \A a, z : {n \in a .. z : Failed(n)} = Fails(ended, a, z)
    BY DEF Fails, Failed
  <2> QED BY <2>1, <2>2 DEF StreakInv, Cause, Enough, Unbroken, OpenForCause
<1> QED BY <1>1, <1>2, StreakStep, PTL DEF Spec

(* Until a reset, no more than max_concurrent_incidents run and none makes more  *)
(* than max_tool_calls_per_incident calls.                                      *)
THEOREM LimitsUntilReset == Spec => []LimitsHold
<1>1. BreakerInv => LimitsHold
  <2> SUFFICES ASSUME BreakerInv, resets = 0, NEW i \in running
               PROVE  made[i] <= MaxCalls
    BY DEF BreakerInv, RunPlaces, LimitsHold
  <2>1. i \in Incidents /\ made[i] \in Nat /\ breaker.calls[i] \in 0 .. MaxCalls
    BY DEF BreakerInv, TypeOK, Breaker
  <2>2. made[i] <= breaker.calls[i]
    BY <2>1 DEF BreakerInv, Calls
  <2> QED BY <2>1, <2>2, BreakerAssumption
<1> QED BY <1>1, BreakerInvariance, PTL

-----------------------------------------------------------------------------
(***************************************************************************)
(* That no fault of a governed experiment is left without somebody to      *)
(* answer for it, that attempts keep to their budget, and that a spent one *)
(* is recorded, for any number of runners, experiments and interruptions.  *)
(***************************************************************************)

\* The names that stand for nobody are nobody's.
Named ==
    /\ "none" \notin Experiments /\ IsFiniteSet(Experiments)
    /\ "none" \notin Runners /\ "free" \notin Runners /\ "stale" \notin Runners
    /\ Limit \in Nat

RunnerPlaces == {"off", "handling"} \cup Unreserved \cup Reserved \cup Crossed

Notes == {"preflight", "prefault", "frozen", "inconclusive", "clean", "dirty", "acceptance"}

Typed ==
    /\ pc \in [Runners -> RunnerPlaces]
    /\ exp \in [Runners -> Experiments \cup {"none"}]
    /\ marker \in [Experiments -> [state : {"absent", "RESERVED", "CONSUMED", "COMPLETED"},
                                   token : Runners \cup {"none"}]]
    /\ primary \in [Experiments -> {"absent", "failed", "invalid", "judged"}]
    /\ files \in [Experiments -> SUBSET Notes]
    /\ fault \in Experiments \cup {"none"}
    /\ injected \subseteq Experiments
    /\ \A p \in Runners : pc[p] # "off" => exp[p] \in Experiments

\* One step of a runner.
Step(p) ==
    \/ Begin(p) \/ Gates(p) \/ Locks(p) \/ IsRefused(p) \/ Counts(p) \/ Reserves(p)
    \/ Unlocks(p) \/ Preflights(p) \/ Clears(p) \/ Aborts(p) \/ Releases(p)
    \/ NotesPrefault(p) \/ Consumes(p) \/ Crosses(p) \/ Applies(p) \/ Binds(p)
    \/ Proves(p) \/ Remediates(p) \/ Freezes(p) \/ Completes(p) \/ Deletes(p)
    \/ Looks(p) \/ Poisons(p) \/ Records(p) \/ Accepts(p) \/ Handles(p)
    \/ Interrupt(p) \/ Kill(p)

(* A runner that is moved to a place keeps its experiment. *)
LEMMA Departs ==
    ASSUME Typed, NEW p \in Runners, NEW w \in RunnerPlaces \ {"off"},
           pc[p] # "off", pc' = [pc EXCEPT ![p] = w], exp' = exp
    PROVE  /\ pc' \in [Runners -> RunnerPlaces] /\ exp' \in [Runners -> Experiments \cup {"none"}]
           /\ \A q \in Runners : pc'[q] # "off" => exp'[q] \in Experiments
BY DEF Typed

(* The same of one that ends. *)
LEMMA EndsTyped ==
    ASSUME Typed, NEW p \in Runners, Ends(p)
    PROVE  /\ pc' \in [Runners -> RunnerPlaces] /\ exp' \in [Runners -> Experiments \cup {"none"}]
           /\ \A q \in Runners : pc'[q] # "off" => exp'[q] \in Experiments
BY DEF Typed, Ends, RunnerPlaces

(* A marker is written for one experiment. *)
LEMMA MarksTyped ==
    ASSUME Typed, NEW x \in Experiments, NEW p \in Runners,
           NEW s \in {"RESERVED", "CONSUMED", "COMPLETED"}, Marks(x, s, p)
    PROVE  /\ marker' \in [Experiments -> [state : {"absent", "RESERVED", "CONSUMED", "COMPLETED"},
                                           token : Runners \cup {"none"}]]
           /\ marker'[x] = [state |-> s, token |-> p]
           /\ \A y \in Experiments \ {x} : marker'[y] = marker[y]
BY DEF Typed, Marks

(* The files of an experiment only grow by what is filed. *)
LEMMA FilesTyped ==
    ASSUME Typed, NEW x \in Experiments, NEW f \in Notes, Files(x, f)
    PROVE  /\ files' \in [Experiments -> SUBSET Notes]
           /\ files'[x] = files[x] \cup {f}
           /\ \A y \in Experiments \ {x} : files'[y] = files[y]
BY DEF Typed, Files

(* Every step of a runner keeps the types. *)
LEMMA GovernedTyped == ASSUME Typed, NEW p \in Runners, Step(p) PROVE Typed'
<1>1. CASE Begin(p)
  BY <1>1 DEF Begin, Typed, RunnerPlaces, Unreserved, disk, cluster
<1>2. CASE Gates(p)
  BY <1>2, EndsTyped DEF Gates, At, Goes, Typed, RunnerPlaces, Unreserved, disk, cluster
<1>3. CASE Locks(p) \/ IsRefused(p) \/ Counts(p) \/ Unlocks(p)
  BY <1>3, EndsTyped
     DEF Locks, IsRefused, Counts, Unlocks, At, Goes, Typed, RunnerPlaces, Unreserved, Reserved,
         disk, cluster
<1>4. CASE Reserves(p)
  BY <1>4, MarksTyped DEF Reserves, At, Goes, Typed, RunnerPlaces, Unreserved, cluster
<1>5. CASE Preflights(p)
  BY <1>5, FilesTyped DEF Preflights, At, Goes, Typed, RunnerPlaces, Reserved, Notes, cluster
<1>6. CASE Clears(p) \/ Aborts(p)
  BY <1>6 DEF Clears, Aborts, At, Goes, Typed, RunnerPlaces, Reserved, disk, cluster
<1>7. CASE Releases(p)
  BY <1>7 DEF Releases, NoMarker, At, Goes, Typed, RunnerPlaces, Reserved, cluster
<1>8. CASE NotesPrefault(p)
  BY <1>8, FilesTyped, EndsTyped DEF NotesPrefault, At, Typed, Notes, cluster
<1>9. CASE Consumes(p)
  BY <1>9, MarksTyped DEF Consumes, At, Goes, Typed, RunnerPlaces, Reserved, cluster
<1>10. CASE Crosses(p) \/ Binds(p) \/ Proves(p) \/ Looks(p)
  BY <1>10 DEF Crosses, Binds, Proves, Looks, At, Goes, Typed, RunnerPlaces, Crossed, disk, cluster
<1>11. CASE Applies(p)
  BY <1>11 DEF Applies, At, Goes, Typed, RunnerPlaces, Crossed, disk
<1>12. CASE Remediates(p)
  BY <1>12 DEF Remediates, Typed, process, disk
<1>13. CASE Freezes(p)
  <2>1. primary' \in [Experiments -> {"absent", "failed", "invalid", "judged"}]
    BY <1>13 DEF Freezes, Verdict, Typed
  <2> QED BY <1>13, <2>1 DEF Freezes, Goes, Typed, RunnerPlaces, Crossed, cluster
<1>14. CASE Completes(p)
  BY <1>14, MarksTyped DEF Completes, At, Goes, Typed, RunnerPlaces, Crossed, cluster
<1>15. CASE Deletes(p)
  BY <1>15 DEF Deletes, At, Typed, RunnerPlaces, Crossed, disk
<1>16. CASE Poisons(p)
  BY <1>16 DEF Poisons, At, Goes, Typed, RunnerPlaces, Crossed, cluster
<1>17. CASE Records(p) \/ Accepts(p)
  BY <1>17, FilesTyped, EndsTyped
     DEF Records, Accepts, At, Goes, Typed, RunnerPlaces, Crossed, Notes, cluster
<1>18. CASE Handles(p)
  <2>1. exp[p] \in Experiments /\ Classification(exp[p]) \in Notes
    BY <1>18 DEF Handles, At, Typed, Classification, Notes
  <2>2. files' \in [Experiments -> SUBSET Notes]
    BY <1>18, <2>1, FilesTyped DEF Handles, Typed
  <2> QED BY <1>18, <2>2, EndsTyped DEF Handles, At, Goes, Typed, RunnerPlaces, Crossed, cluster
<1>19. CASE Interrupt(p)
  <2>1. Handler(p) \in {"handling", "noting", "releasing"}
    BY DEF Handler
  <2> QED BY <1>19, <2>1, EndsTyped DEF Interrupt, Typed, RunnerPlaces, Reserved, cluster
<1>20. CASE Kill(p)
  BY <1>20, EndsTyped DEF Kill, Typed, cluster
<1> QED BY <1>1, <1>2, <1>3, <1>4, <1>5, <1>6, <1>7, <1>8, <1>9, <1>10, <1>11, <1>12, <1>13,
           <1>14, <1>15, <1>16, <1>17, <1>18, <1>19, <1>20 DEF Step

(* A step of one runner leaves the others where they are. *)
LEMMA Others ==
    ASSUME Typed, NEW p \in Runners, Step(p), NEW q \in Runners, q # p
    PROVE  pc'[q] = pc[q] /\ exp'[q] = exp[q]
BY DEF Typed, Step, Begin, Gates, Locks, IsRefused, Counts, Reserves, Unlocks, Preflights,
       Clears, Aborts, Releases, NotesPrefault, Consumes, Crosses, Applies, Binds, Proves,
       Remediates, Freezes, Completes, Deletes, Looks, Poisons, Records, Accepts, Handles,
       Interrupt, Kill, Goes, Ends, process

-----------------------------------------------------------------------------
(* Ownership: who crossed into a reservation is named by its marker. *)

Owning == {"unlocking", "reserved", "preflighted", "clear", "consumed", "handling"} \cup Crossed

Mine(p) == marker[exp[p]].token = p

Owned ==
    \A p \in Runners :
        /\ pc[p] \in Owning => Mine(p)
        /\ pc[p] \in Crossed \cup {"consumed", "handling"} => exp[p] \in Spent
        /\ pc[p] \in Unreserved /\ Mine(p) => exp[p] \notin Spent

\* What a step may do to the markers.
Changes(p) ==
    LET x == exp[p]
    IN  \/ marker' = marker
        \/ /\ pc[p] = "marking" /\ pc'[p] = "unlocking"
           /\ marker'[x] = [state |-> "RESERVED", token |-> p]
           /\ \A y \in Experiments \ {x} : marker'[y] = marker[y]
        \/ /\ pc[p] = "releasing" /\ pc'[p] = "noting" /\ Releasable(p)
           /\ marker'[x] = NoMarker
           /\ \A y \in Experiments \ {x} : marker'[y] = marker[y]
        \/ /\ pc[p] = "clear" /\ pc'[p] = "consumed" /\ Releasable(p)
           /\ marker'[x] = [state |-> "CONSUMED", token |-> p]
           /\ \A y \in Experiments \ {x} : marker'[y] = marker[y]
        \/ /\ pc[p] = "completing" /\ pc'[p] = "cleaning"
           /\ marker[x] = [state |-> "CONSUMED", token |-> p]
           /\ marker'[x] = [state |-> "COMPLETED", token |-> p]
           /\ \A y \in Experiments \ {x} : marker'[y] = marker[y]

(* There is no other change of a marker. *)
LEMMA MarkerChanges == ASSUME Typed, NEW p \in Runners, Step(p) PROVE Changes(p)
<1>1. CASE Reserves(p)
  BY <1>1, MarksTyped DEF Reserves, At, Goes, Typed, Changes
<1>2. CASE Releases(p)
  BY <1>2 DEF Releases, At, Goes, Typed, Changes
<1>3. CASE Consumes(p)
  BY <1>3, MarksTyped DEF Consumes, At, Goes, Typed, Changes
<1>4. CASE Completes(p)
  BY <1>4, MarksTyped DEF Completes, At, Goes, Typed, Changes
<1>5. CASE ~(Reserves(p) \/ Releases(p) \/ Consumes(p) \/ Completes(p))
  BY <1>5 DEF Changes, Step, Begin, Gates, Locks, IsRefused, Counts, Unlocks, Preflights,
       Clears, Aborts, NotesPrefault, Crosses, Applies, Binds, Proves, Remediates, Freezes,
       Deletes, Looks, Poisons, Records, Accepts, Handles, Interrupt, Kill, disk
<1> QED BY <1>1, <1>2, <1>3, <1>4, <1>5

\* What a step may do to the runner itself: the places it goes to.
Passes(p) ==
    \/ pc[p] = "off" /\ pc'[p] = "gating" /\ marker[exp'[p]] = NoMarker /\ marker' = marker
    \/ pc'[p] = "off"
    \/ /\ exp'[p] = exp[p]
       /\ \/ pc[p] \in Unreserved \ {"marking"} /\ pc'[p] \in Unreserved \ {"unlocking"}
          \/ pc[p] = "marking" /\ pc'[p] = "unlocking" /\ Mine(p)'
          \/ pc[p] = "unlocking" /\ pc'[p] = "reserved"
          \/ pc[p] = "reserved" /\ pc'[p] = "preflighted"
          \/ pc[p] = "preflighted" /\ pc'[p] = "clear"
          \/ pc[p] \in Reserved /\ pc'[p] \in {"releasing", "noting"}
          \/ pc[p] = "clear" /\ pc'[p] = "consumed" /\ Mine(p)' /\ exp[p] \in Spent'
          \/ pc[p] = "consumed" /\ pc'[p] = "crossed"
          \/ pc[p] \in Crossed \cup {"handling"} /\ pc'[p] \in Crossed \cup {"handling"}

Handled == \A p \in Runners : pc[p] = "handling" => p \in handler

(* Only the except clause handles. *)
LEMMA HandledStep ==
    ASSUME Typed, Handled, NEW p \in Runners, Step(p)
    PROVE  Handled'
<1>1. CASE Interrupt(p)
  BY <1>1 DEF Interrupt, Ends, Handled, Typed
<1>2. CASE ~Interrupt(p)
  BY <1>2 DEF Typed, Handled, Step, Begin, Gates, Locks, IsRefused, Counts, Reserves, Unlocks,
       Preflights, Clears, Aborts, Releases, NotesPrefault, Consumes, Crosses, Applies, Binds,
       Proves, Remediates, Freezes, Completes, Deletes, Looks, Poisons, Records, Accepts,
       Handles, Kill, Goes, Ends, process
<1> QED BY <1>1, <1>2

(* There is no other way to a place. *)
LEMMA PlacesPassed ==
    ASSUME Typed, Handled, NEW p \in Runners, Step(p)
    PROVE  Passes(p)
<1> USE DEF Typed
<1>1. CASE Begin(p)
  BY <1>1 DEF Begin, At, Passes, disk
<1>2. ASSUME Ends(p) PROVE Passes(p)
  BY <1>2 DEF Ends, Passes
<1>3. CASE Gates(p) \/ Locks(p) \/ IsRefused(p) \/ Counts(p)
  BY <1>2, <1>3 DEF Gates, Locks, IsRefused, Counts, At, Goes, Passes, Unreserved
<1>4. CASE Reserves(p)
  <2>1. exp[p] \in Experiments /\ Marks(exp[p], "RESERVED", p)
    BY <1>4 DEF Reserves, At
  <2>2. marker'[exp[p]] = [state |-> "RESERVED", token |-> p]
    BY <2>1, MarksTyped
  <2>3. exp' = exp /\ pc[p] = "marking" /\ pc'[p] = "unlocking"
    BY <1>4 DEF Reserves, At, Goes
  <2> QED BY <2>2, <2>3 DEF Passes, Mine
<1>5. CASE Unlocks(p) \/ Preflights(p) \/ Clears(p) \/ Crosses(p)
  BY <1>5 DEF Unlocks, Preflights, Clears, Crosses, At, Goes, Passes
<1>6. CASE Aborts(p) \/ Releases(p) \/ NotesPrefault(p)
  BY <1>2, <1>6 DEF Aborts, Releases, NotesPrefault, At, Goes, Passes, Reserved
<1>7. CASE Consumes(p)
  <2>1. CASE Releasable(p) /\ Marks(exp[p], "CONSUMED", p) /\ Goes(p, "consumed")
    <3>1. exp[p] \in Experiments /\ pc[p] = "clear" /\ pc'[p] = "consumed" /\ exp' = exp
      BY <1>7, <2>1 DEF Consumes, At, Goes
    <3>2. marker'[exp[p]] = [state |-> "CONSUMED", token |-> p]
      BY <2>1, <3>1, MarksTyped
    <3> QED BY <3>1, <3>2 DEF Passes, Mine, Spent
  <2>2. CASE handler' = handler \cup {p} /\ pc' = [pc EXCEPT ![p] = "releasing"]
             /\ UNCHANGED <<exp, bound, tries>>
    <3>1. pc[p] \in Reserved /\ pc'[p] = "releasing" /\ exp'[p] = exp[p]
      BY <1>7, <2>2 DEF Consumes, At, Reserved
    <3> QED BY <3>1 DEF Passes
  <2> QED BY <1>7, <2>1, <2>2 DEF Consumes
<1>8. CASE Applies(p) \/ Binds(p) \/ Proves(p) \/ Freezes(p) \/ Completes(p) \/ Deletes(p)
           \/ Looks(p) \/ Poisons(p)
  BY <1>8 DEF Applies, Binds, Proves, Freezes, Completes, Deletes, Looks, Poisons, At, Goes,
              Passes, Crossed
<1>9. CASE Remediates(p)
  BY <1>9 DEF Remediates, At, process, Passes, Crossed
<1>10. CASE Records(p) \/ Accepts(p) \/ Handles(p)
  BY <1>2, <1>10 DEF Records, Accepts, Handles, At, Goes, Passes, Crossed
<1>11. CASE Interrupt(p)
  <2>1. CASE Ends(p)
    BY <1>2, <2>1
  <2>2. CASE ~Ends(p)
    <3>1. exp' = exp /\ pc'[p] = Handler(p) /\ pc[p] \notin Unreserved /\ pc[p] # "handling"
      BY <1>11, <2>2 DEF Interrupt, Handled
    <3>2. pc[p] \in Crossed \cup Reserved
      BY <1>11, <3>1 DEF Interrupt, RunnerPlaces
    <3> QED BY <3>1, <3>2 DEF Handler, Passes
  <2> QED BY <2>1, <2>2
<1>12. CASE Kill(p)
  BY <1>2, <1>12 DEF Kill
<1> QED BY <1>1, <1>3, <1>4, <1>5, <1>6, <1>7, <1>8, <1>9, <1>10, <1>11, <1>12 DEF Step

Marked == {x \in Experiments : marker[x] # NoMarker}

\* The budget's lock: who counts holds it, and what was counted stays true.
Held ==
    \A p \in Runners :
        /\ pc[p] \in {"counting", "marking", "unlocking"} => lock = p
        /\ pc[p] = "marking" => exp[p] \notin Marked /\ Cardinality(Marked) < Limit

(* A step of one runner leaves the markers of the others alone.            *)
LEMMA TokensKept ==
    ASSUME Named, Typed, Handled, Held, NEW p \in Runners, Step(p),
           NEW q \in Runners, q # p, NEW x \in Experiments
    PROVE  marker[x].token = q \/ marker'[x].token = q => marker'[x] = marker[x]
<1>1. Changes(p)
  BY MarkerChanges
<1>2. CASE marker' = marker
  BY <1>2
<1>3. CASE x # exp[p]
  BY <1>1, <1>3 DEF Changes
<1>4. CASE x = exp[p] /\ marker' # marker
  <2>1. marker'[x].token \in {p, "none"}
    BY <1>1, <1>4 DEF Changes, NoMarker
  <2>2. marker[x] = NoMarker \/ marker[x].token = p
    <3>1. CASE pc[p] = "marking"
      BY <1>4, <3>1 DEF Held, Marked
    <3>2. CASE Releasable(p)
      BY <1>4, <3>2 DEF Releasable
    <3>3. CASE marker[x] = [state |-> "CONSUMED", token |-> p]
      BY <3>3
    <3> QED BY <1>1, <1>4, <3>1, <3>2, <3>3 DEF Changes
  <2> QED BY <2>1, <2>2 DEF Named, NoMarker
<1> QED BY <1>2, <1>3, <1>4

(* Ownership is kept: a marker changes hands only when it is given back. *)
LEMMA OwnedStep ==
    ASSUME Named, Typed, Handled, Held, Owned, NEW p \in Runners, Step(p)
    PROVE  Owned'
<1> DEFINE Keeps(q) == /\ pc[q] \in Owning => Mine(q)
                       /\ pc[q] \in Crossed \cup {"consumed", "handling"} => exp[q] \in Spent
                       /\ pc[q] \in Unreserved /\ Mine(q) => exp[q] \notin Spent
<1>1. Changes(p) /\ Passes(p) /\ Typed'
  BY MarkerChanges, PlacesPassed, GovernedTyped
<1>2. \A q \in Runners : Keeps(q)
  BY DEF Owned
<1>3. Keeps(p)'
  <2>1. CASE pc'[p] = "off"
    BY <2>1 DEF Owning, Crossed, Unreserved
  <2>2. CASE pc[p] = "off" /\ pc'[p] = "gating" /\ marker[exp'[p]] = NoMarker /\ marker' = marker
    BY <2>2 DEF Owning, Crossed, Unreserved, Mine, NoMarker, Named
  <2>3. CASE pc[p] # "off" /\ pc'[p] # "off" /\ exp'[p] = exp[p]
    <3> DEFINE x == exp[p]
    <3>1. x \in Experiments
      BY <2>3 DEF Typed
    <3>2. CASE marker' = marker
      BY <1>1, <1>2, <2>3, <3>2
         DEF Passes, Mine, Owning, Crossed, Reserved, Unreserved, Spent
    <3>3. CASE marker' # marker
      <4>1. CASE pc[p] = "marking" /\ marker'[x] = [state |-> "RESERVED", token |-> p]
        BY <1>1, <2>3, <4>1
           DEF Passes, Mine, Owning, Crossed, Reserved, Unreserved, Spent
      <4>2. CASE pc[p] = "releasing"
        BY <1>1, <2>3, <4>2 DEF Passes, Owning, Crossed, Reserved, Unreserved
      <4>3. CASE pc[p] = "clear" /\ marker'[x] = [state |-> "CONSUMED", token |-> p]
        BY <1>1, <2>3, <3>1, <4>3
           DEF Passes, Mine, Owning, Crossed, Reserved, Unreserved, Spent
      <4>4. CASE pc[p] = "completing" /\ marker'[x] = [state |-> "COMPLETED", token |-> p]
        BY <1>1, <2>3, <3>1, <4>4
           DEF Passes, Mine, Owning, Crossed, Reserved, Unreserved, Spent
      <4> QED BY <1>1, <3>3, <4>1, <4>2, <4>3, <4>4 DEF Changes
    <3> QED BY <3>2, <3>3
  <2> QED BY <1>1, <2>1, <2>2, <2>3 DEF Passes, Unreserved, Reserved, Crossed
<1>4. ASSUME NEW q \in Runners, q # p PROVE Keeps(q)'
  <2>1. pc'[q] = pc[q] /\ exp'[q] = exp[q]
    BY <1>4, Others
  <2>2. CASE pc[q] = "off"
    BY <2>1, <2>2 DEF Owning, Crossed, Unreserved
  <2>3. CASE pc[q] # "off"
    <3> DEFINE x == exp[q]
    <3>1. x \in Experiments
      BY <2>3 DEF Typed
    <3>2. marker[x].token = q \/ marker'[x].token = q => marker'[x] = marker[x]
      BY <1>4, <3>1, TokensKept
    <3> QED BY <1>2, <2>1, <3>1, <3>2 DEF Mine, Spent, Owning
  <2> QED BY <2>2, <2>3
<1> QED BY <1>3, <1>4 DEF Owned

-----------------------------------------------------------------------------
(* The budget. *)

(* Who is in the critical section of the budget holds its lock. *)
LEMMA LockKept ==
    ASSUME Named, Typed, Held, NEW p \in Runners, Step(p)
    PROVE  /\ \A q \in Runners \ {p} : lock = q => lock' = q
           /\ pc'[p] \in {"counting", "marking", "unlocking"} => lock' = p
           /\ pc'[p] = "marking" => HasSlot(p) /\ exp' = exp /\ marker' = marker
<1> USE DEF Typed
<1>1. CASE Begin(p) \/ Gates(p) \/ IsRefused(p)
  BY <1>1 DEF Begin, Gates, IsRefused, Goes, Ends, disk
<1>2. CASE Locks(p)
  BY <1>2 DEF Locks, Goes, Named
<1>3. CASE Counts(p) \/ Reserves(p) \/ Unlocks(p)
  BY <1>3 DEF Counts, Reserves, Unlocks, At, Goes, Ends, Held
<1>4. CASE Preflights(p) \/ Clears(p) \/ Aborts(p) \/ Releases(p) \/ NotesPrefault(p)
           \/ Consumes(p) \/ Crosses(p)
  BY <1>4 DEF Preflights, Clears, Aborts, Releases, NotesPrefault, Consumes, Crosses, Goes,
              Ends, disk
<1>5. CASE Applies(p) \/ Binds(p) \/ Proves(p) \/ Freezes(p) \/ Completes(p) \/ Deletes(p)
           \/ Looks(p) \/ Poisons(p)
  BY <1>5 DEF Applies, Binds, Proves, Freezes, Completes, Deletes, Looks, Poisons, Goes, disk
<1>6. CASE Records(p) \/ Accepts(p) \/ Handles(p)
  BY <1>6 DEF Records, Accepts, Handles, Goes, Ends
<1>7. CASE Remediates(p)
  BY <1>7 DEF Remediates, At, process, disk
<1>8. CASE Interrupt(p)
  <2>1. Handler(p) \in {"handling", "noting", "releasing"}
    BY DEF Handler
  <2> QED BY <1>8, <2>1 DEF Interrupt, Ends
<1>9. CASE Kill(p)
  BY <1>9 DEF Kill, Ends
<1> QED BY <1>1, <1>2, <1>3, <1>4, <1>5, <1>6, <1>7, <1>8, <1>9 DEF Step

(* Only a runner that marks makes the marked grow, and by its experiment. *)
LEMMA MarkedKept ==
    ASSUME Typed, NEW p \in Runners, Step(p)
    PROVE  IF pc[p] = "marking" THEN Marked' \subseteq Marked \cup {exp[p]}
                                ELSE Marked' \subseteq Marked
<1>1. Changes(p)
  BY MarkerChanges
<1>2. CASE marker' = marker
  BY <1>2 DEF Marked
<1>3. CASE \A y \in Experiments \ {exp[p]} : marker'[y] = marker[y]
  <2>1. CASE pc[p] = "marking"
    BY <1>3, <2>1 DEF Marked
  <2>2. CASE marker'[exp[p]] = NoMarker \/ marker[exp[p]] # NoMarker
    BY <1>3, <2>2 DEF Marked
  <2>3. CASE Releasable(p) \/ marker[exp[p]] = [state |-> "CONSUMED", token |-> p]
    <3>1. marker[exp[p]] # NoMarker
      BY <2>3 DEF Releasable, NoMarker
    <3> QED BY <2>2, <3>1
  <2> QED BY <1>1, <1>2, <2>1, <2>2, <2>3 DEF Changes
<1> QED BY <1>1, <1>2, <1>3 DEF Changes

(* What is within a set has no more elements. *)
LEMMA FewerMarked ==
    ASSUME Named, NEW More \in SUBSET Experiments, NEW Less \in SUBSET More
    PROVE  IsFiniteSet(More) /\ Cardinality(More) \in Nat /\ Cardinality(Less) \in Nat
           /\ Cardinality(Less) =< Cardinality(More)
<1>1. IsFiniteSet(Experiments) /\ IsFiniteSet(More)
  BY FS_Subset DEF Named
<1> QED BY <1>1, FS_Subset, FS_CardinalityType

(* The lock makes what was counted last until the marker is written. *)
LEMMA HeldStep ==
    ASSUME Named, Typed, Held, NEW p \in Runners, Step(p)
    PROVE  Held'
<1> DEFINE Holds(q) == /\ pc[q] \in {"counting", "marking", "unlocking"} => lock = q
                       /\ pc[q] = "marking" => exp[q] \notin Marked /\ Cardinality(Marked) < Limit
<1>1. Holds(p)'
  <2>1. CASE pc'[p] = "marking"
    <3>1. HasSlot(p) /\ exp' = exp /\ marker' = marker
      BY <2>1, LockKept
    <3> QED BY <2>1, <3>1, LockKept DEF HasSlot, Marked
  <2>2. CASE pc'[p] # "marking"
    BY <2>2, LockKept
  <2> QED BY <2>1, <2>2
<1>2. ASSUME NEW q \in Runners, q # p PROVE Holds(q)'
  <2>1. pc'[q] = pc[q] /\ exp'[q] = exp[q]
    BY <1>2, Others
  <2>2. CASE pc[q] \in {"counting", "unlocking"}
    BY <1>2, <2>1, <2>2, LockKept DEF Held
  <2>3. CASE pc[q] = "marking"
    <3>1. lock = q /\ exp[q] \notin Marked /\ Cardinality(Marked) < Limit
      BY <2>3 DEF Held
    <3>2. lock' = q
      BY <1>2, <3>1, LockKept
    <3>3. pc[p] # "marking"
      BY <1>2, <3>1 DEF Held
    <3>4. Marked' \subseteq Marked /\ Marked \subseteq Experiments
      BY <3>3, MarkedKept DEF Marked
    <3>5. Cardinality(Marked') < Limit
      <4>1. Cardinality(Marked) \in Nat /\ Cardinality(Marked') \in Nat
            /\ Cardinality(Marked') =< Cardinality(Marked)
        BY <3>4, FewerMarked
      <4> QED BY <3>1, <4>1 DEF Named
    <3> QED BY <2>1, <3>1, <3>2, <3>4, <3>5
  <2>4. CASE pc[q] \notin {"counting", "marking", "unlocking"}
    BY <2>1, <2>4
  <2> QED BY <2>2, <2>3, <2>4
<1> QED BY <1>1, <1>2 DEF Held

Bounded == Cardinality(Marked) =< Limit

(* No step marks more than the limit. *)
LEMMA BoundedStep ==
    ASSUME Named, Typed, Held, Bounded, NEW p \in Runners, Step(p)
    PROVE  Bounded'
<1>1. Marked \subseteq Experiments /\ IsFiniteSet(Marked) /\ Cardinality(Marked) \in Nat
  BY FewerMarked DEF Marked
<1>2. CASE pc[p] = "marking"
  <2>1. exp[p] \in Experiments \ Marked /\ Cardinality(Marked) < Limit
    BY <1>2 DEF Held, Typed
  <2>2. Marked' \in SUBSET (Marked \cup {exp[p]}) /\ Marked \cup {exp[p]} \in SUBSET Experiments
    BY <1>1, <1>2, <2>1, MarkedKept
  <2>3. Cardinality(Marked \cup {exp[p]}) = Cardinality(Marked) + 1
    BY <1>1, <2>1, FS_AddElement
  <2>4. Cardinality(Marked') \in Nat /\ Cardinality(Marked') =< Cardinality(Marked) + 1
    BY <2>2, <2>3, FewerMarked
  <2>5. Limit \in Nat
    BY DEF Named
  <2> QED BY ONLY <1>1, <2>1, <2>4, <2>5 DEF Bounded
<1>3. CASE pc[p] # "marking"
  <2>1. Marked' \in SUBSET Marked
    BY <1>3, MarkedKept
  <2>2. Cardinality(Marked') \in Nat /\ Cardinality(Marked') =< Cardinality(Marked)
    BY <1>1, <2>1, FewerMarked
  <2> QED BY <1>1, <2>2 DEF Bounded, Named
<1> QED BY <1>2, <1>3

(* A step of one runner changes nobody's attempt but its own.              *)
LEMMA MineKept ==
    ASSUME Named, Typed, Handled, Held, NEW p \in Runners, Step(p), NEW q \in Runners, q # p,
           exp[q] \in Experiments
    PROVE  /\ pc'[q] = pc[q] /\ exp'[q] = exp[q]
           /\ Mine(q)' = Mine(q)
BY Others, TokensKept DEF Mine

(* Two runners that own an attempt own two attempts. *)
LEMMA Apart ==
    ASSUME NEW p \in Runners, NEW q \in Runners, p # q, Mine(p), Mine(q)
    PROVE  exp[p] # exp[q]
BY DEF Mine

\* The fault of an attempt reaches the cluster after the attempt is spent, once.
Before == Reserved \cup {"unlocking", "crossed"}

Injected ==
    /\ injected \subseteq Spent
    /\ \A p \in Runners : pc[p] \in Before /\ Mine(p) => exp[p] \notin injected

(* Who injects is at its first cluster call. *)
LEMMA Injects ==
    ASSUME Typed, NEW p \in Runners, Step(p)
    PROVE  \/ injected' = injected /\ fault' \in {fault, "none"}
           \/ /\ pc[p] = "crossed" /\ pc'[p] \in {"applied", "failed"}
              /\ fault' = exp[p] /\ injected' = injected \cup {exp[p]}
              /\ marker' = marker /\ files' = files /\ exp' = exp /\ Applies(p)
<1>1. CASE Applies(p)
  <2>1. pc[p] = "crossed" /\ exp' = exp /\ marker' = marker /\ files' = files
    BY <1>1 DEF Applies, At, Goes, disk
  <2>2. CASE /\ fault' = exp[p] /\ injected' = injected \cup {exp[p]}
             /\ \E reply \in {"applied", "failed"} : Goes(p, reply)
    <3>1. pc'[p] \in {"applied", "failed"}
      BY <2>2 DEF Goes, Typed
    <3> QED BY <1>1, <2>1, <2>2, <3>1
  <2>3. CASE UNCHANGED <<fault, injected>>
    BY <2>3
  <2> QED BY <1>1, <2>2, <2>3 DEF Applies
<1>2. CASE Remediates(p) \/ Deletes(p)
  BY <1>2 DEF Remediates, Deletes
<1>3. CASE ~(Applies(p) \/ Remediates(p) \/ Deletes(p))
  BY <1>3 DEF Step, Begin, Gates, Locks, IsRefused, Counts, Reserves, Unlocks, Preflights,
       Clears, Aborts, Releases, NotesPrefault, Consumes, Crosses, Binds, Proves, Freezes,
       Completes, Looks, Poisons, Records, Accepts, Handles, Interrupt, Kill, cluster
<1> QED BY <1>1, <1>2, <1>3

(* A spent attempt stays spent. *)
LEMMA SpentKept ==
    ASSUME Typed, Held, NEW p \in Runners, Step(p)
    PROVE  Spent \subseteq Spent'
<1>1. Changes(p)
  BY MarkerChanges
<1>2. ASSUME NEW x \in Spent PROVE x \in Spent'
  <2>1. x \in Experiments /\ marker[x].state \in {"CONSUMED", "COMPLETED"}
    BY <1>2 DEF Spent
  <2>2. CASE marker'[x] = marker[x]
    BY <2>1, <2>2 DEF Spent
  <2>3. CASE marker'[x] # marker[x]
    <3>1. x = exp[p] /\ marker' # marker
      BY <1>1, <2>1, <2>3 DEF Changes
    <3>2. CASE pc[p] = "marking"
      <4>1. marker[x] = NoMarker
        BY <2>1, <3>1, <3>2 DEF Held, Marked
      <4> QED BY <2>1, <4>1 DEF NoMarker
    <3>3. CASE Releasable(p)
      <4>1. marker[x].state = "RESERVED"
        BY <3>1, <3>3 DEF Releasable
      <4> QED BY <2>1, <4>1
    <3>4. CASE marker'[x] = [state |-> "COMPLETED", token |-> p]
      BY <2>1, <3>4 DEF Spent
    <3> QED BY <1>1, <3>1, <3>2, <3>3, <3>4 DEF Changes
  <2> QED BY <2>2, <2>3
<1> QED BY <1>2

(* Who crossed T0 does not cross it again. *)
LEMMA NotRecrossed ==
    ASSUME Typed, Handled, NEW p \in Runners, Step(p), pc[p] \in Crossed \cup {"handling"},
           pc'[p] = "crossed"
    PROVE  pc[p] = "crossed"
<1>1. CASE Interrupt(p)
  <2>1. Handler(p) \in {"handling", "noting", "releasing"}
    BY DEF Handler
  <2> QED BY <1>1, <2>1 DEF Interrupt, Ends, Typed
<1>2. CASE ~Interrupt(p)
  BY <1>2 DEF Typed, Crossed, At, Step, Begin, Gates, Locks, IsRefused, Counts, Reserves,
       Unlocks, Preflights, Clears, Aborts, Releases, NotesPrefault, Consumes, Crosses, Applies,
       Binds, Proves, Remediates, Freezes, Completes, Deletes, Looks, Poisons, Records, Accepts,
       Handles, Kill, Goes, Ends, process
<1> QED BY <1>1, <1>2

(* What is injected is spent, and an unspent attempt was not injected. *)
LEMMA InjectedStep ==
    ASSUME Named, Typed, Handled, Held, Owned, Injected, NEW p \in Runners, Step(p)
    PROVE  Injected'
<1>1. injected' \subseteq Spent'
  <2>1. CASE injected' = injected
    BY <2>1, SpentKept DEF Injected
  <2>2. CASE pc[p] = "crossed" /\ injected' = injected \cup {exp[p]}
    <3>1. exp[p] \in Spent
      BY <2>2 DEF Owned, Crossed
    <3> QED BY <2>2, <3>1, SpentKept DEF Injected
  <2> QED BY <2>1, <2>2, Injects
<1>2. ASSUME pc'[p] \in Before, Mine(p)' PROVE exp'[p] \notin injected'
  <2>1. pc'[p] \notin {"applied", "failed"} /\ injected' = injected
    BY <1>2, Injects DEF Before, Reserved
  <2>2. Passes(p) /\ pc[p] # "off" /\ exp'[p] = exp[p] /\ exp[p] \in Experiments
    <3>1. Passes(p)
      BY PlacesPassed
    <3> QED BY <1>2, <3>1 DEF Passes, Before, Reserved, Unreserved, Crossed, Typed
  <2>3. CASE pc[p] = "marking"
    <3>1. exp[p] \notin Marked
      BY <2>3 DEF Held
    <3>2. exp[p] \notin Spent
      BY <2>2, <3>1 DEF Marked, Spent, NoMarker
    <3> QED BY <2>1, <2>2, <3>2 DEF Injected
  <2>4. CASE pc[p] # "marking"
    <3>1. pc[p] \in Before
      <4>1. CASE pc[p] \in Crossed \cup {"handling"}
        <5>1. pc'[p] \in Crossed \cup {"handling"}
          BY <2>2, <4>1, <1>2 DEF Passes, Crossed, Reserved, Unreserved, Before
        <5>2. pc'[p] = "crossed"
          BY <1>2, <5>1 DEF Before, Crossed, Reserved
        <5> QED BY <4>1, <5>2, NotRecrossed DEF Before
      <4>2. CASE pc[p] \notin Crossed \cup {"handling"}
        BY <1>2, <2>2, <2>4, <4>2 DEF Passes, Before, Crossed, Reserved, Unreserved
      <4> QED BY <4>1, <4>2
    <3>2. Mine(p)
      <4>1. CASE pc[p] \in Owning
        BY <4>1 DEF Owned
      <4>2. CASE pc[p] \notin Owning
        <5>1. pc[p] \in {"releasing", "noting"}
          BY <3>1, <4>2 DEF Before, Reserved, Owning, Crossed
        <5>2. marker'[exp[p]] = NoMarker \/ marker' = marker
          BY <5>1, MarkerChanges DEF Changes
        <5> QED BY <1>2, <2>2, <5>2 DEF Mine, NoMarker, Named
      <4> QED BY <4>1, <4>2
    <3> QED BY <2>1, <2>2, <3>1, <3>2 DEF Injected
  <2> QED BY <2>3, <2>4
<1>3. ASSUME NEW q \in Runners, q # p, pc'[q] \in Before, Mine(q)' PROVE exp'[q] \notin injected'
  <2>1. pc[q] \in Before /\ exp'[q] = exp[q] /\ exp[q] \in Experiments
    BY <1>3, Others DEF Typed, Before, Reserved
  <2>2. Mine(q)
    BY <1>3, <2>1, MineKept
  <2>3. exp[q] \notin injected
    BY <2>1, <2>2 DEF Injected
  <2>4. CASE injected' = injected
    BY <2>1, <2>3, <2>4
  <2>5. CASE pc[p] = "crossed" /\ injected' = injected \cup {exp[p]}
    <3>1. Mine(p)
      BY <2>5 DEF Owned, Owning, Crossed
    <3> QED BY <1>3, <2>1, <2>2, <2>3, <2>5, <3>1, Apart
  <2> QED BY <2>4, <2>5, Injects
<1> QED BY <1>1, <1>2, <1>3 DEF Injected
-----------------------------------------------------------------------------
(* The cleanup. *)

\* What a step may file.
Filed(p) ==
    \/ files' = files
    \/ /\ pc[p] # "off" /\ exp[p] \in Experiments
       /\ \A y \in Experiments \ {exp[p]} : files'[y] = files[y]
       /\ \/ /\ pc[p] \in {"reserved", "noting", "accepting", "handling"}
             /\ \E f \in {"preflight", "prefault", "acceptance", "frozen", "inconclusive"} :
                    files'[exp[p]] = files[exp[p]] \cup {f}
             /\ pc'[p] # "accepting"
          \/ pc[p] = "recording" /\ files'[exp[p]] = files[exp[p]] \cup {"clean"}
             /\ pc'[p] \in {"accepting", "off"} /\ fault' = fault
          \/ pc[p] = "reporting" /\ files'[exp[p]] = files[exp[p]] \cup {"dirty"}
             /\ pc'[p] \in {"accepting", "off"} /\ fault' = fault /\ poisoned' = poisoned

(* There is no other change of the files. *)
LEMMA FileChanges == ASSUME Typed, NEW p \in Runners, Step(p) PROVE Filed(p)
<1>1. CASE Preflights(p) \/ NotesPrefault(p) \/ Accepts(p)
  <2>1. exp[p] \in Experiments /\ pc[p] \in {"reserved", "noting", "accepting"}
    BY <1>1 DEF Preflights, NotesPrefault, Accepts, At, Typed
  <2>2. PICK f \in {"preflight", "prefault", "acceptance"} : Files(exp[p], f)
    BY <1>1 DEF Preflights, NotesPrefault, Accepts
  <2>3. /\ files'[exp[p]] = files[exp[p]] \cup {f}
        /\ \A y \in Experiments \ {exp[p]} : files'[y] = files[y]
    BY <2>1, <2>2, FilesTyped DEF Notes
  <2>4. pc'[p] \in {"preflighted", "off"}
    BY <1>1 DEF Preflights, NotesPrefault, Accepts, Goes, Ends, Typed
  <2> QED BY <2>1, <2>3, <2>4 DEF Filed
<1>2. CASE Records(p)
  <2>1. exp[p] \in Experiments /\ pc[p] \in {"recording", "reporting"}
    BY <1>2 DEF Records, Typed
  <2>2. pc'[p] \in {"accepting", "off"} /\ fault' = fault /\ poisoned' = poisoned
    BY <1>2 DEF Records, Goes, Ends, Typed, cluster
  <2>3. CASE pc[p] = "recording"
    <3>1. Files(exp[p], "clean")
      BY <1>2, <2>3 DEF Records, At
    <3>2. /\ files'[exp[p]] = files[exp[p]] \cup {"clean"}
          /\ \A y \in Experiments \ {exp[p]} : files'[y] = files[y]
      BY <2>1, <3>1, FilesTyped DEF Notes
    <3> QED BY <2>1, <2>2, <2>3, <3>2 DEF Filed
  <2>4. CASE pc[p] = "reporting"
    <3>1. Files(exp[p], "dirty")
      BY <1>2, <2>4 DEF Records, At
    <3>2. /\ files'[exp[p]] = files[exp[p]] \cup {"dirty"}
          /\ \A y \in Experiments \ {exp[p]} : files'[y] = files[y]
      BY <2>1, <3>1, FilesTyped DEF Notes
    <3> QED BY <2>1, <2>2, <2>4, <3>2 DEF Filed
  <2> QED BY <2>1, <2>3, <2>4
<1>3. CASE Handles(p)
  <2>1. exp[p] \in Experiments /\ pc[p] = "handling"
    BY <1>3 DEF Handles, At, Typed
  <2>2. pc'[p] \in {"cleaning", "off"}
    BY <1>3 DEF Handles, Goes, Ends, Typed
  <2>3. CASE UNCHANGED files
    BY <2>3 DEF Filed
  <2>4. CASE Files(exp[p], Classification(exp[p]))
    <3>1. Classification(exp[p]) \in {"frozen", "inconclusive"}
      BY DEF Classification
    <3>2. /\ files'[exp[p]] = files[exp[p]] \cup {Classification(exp[p])}
          /\ \A y \in Experiments \ {exp[p]} : files'[y] = files[y]
      BY <2>1, <2>4, <3>1, FilesTyped DEF Notes
    <3> QED BY <2>1, <2>2, <3>1, <3>2 DEF Filed
  <2> QED BY <1>3, <2>3, <2>4 DEF Handles
<1>4. CASE ~(Preflights(p) \/ NotesPrefault(p) \/ Accepts(p) \/ Records(p) \/ Handles(p))
  BY <1>4 DEF Filed, Step, Begin, Gates, Locks, IsRefused, Counts, Reserves, Unlocks, Clears,
       Aborts, Releases, Consumes, Crosses, Applies, Binds, Proves, Remediates, Freezes,
       Completes, Deletes, Looks, Poisons, Interrupt, Kill, disk
<1> QED BY <1>1, <1>2, <1>3, <1>4

(* A poison record stays, and who looked at an empty cluster records it.   *)
LEMMA CleanupSteps ==
    ASSUME Named, Typed, NEW p \in Runners, Step(p)
    PROVE  /\ poisoned => poisoned'
           /\ pc'[p] = "reporting" => poisoned'
           /\ pc'[p] = "recording" => fault' # exp'[p]
           /\ pc'[p] = "accepting" => pc[p] \in {"recording", "reporting", "accepting"}
                                     /\ exp' = exp
<1> USE DEF Typed
<1>1. CASE Looks(p)
  BY <1>1 DEF Looks, At, Goes, ZeroChaos, disk, cluster, Named
<1>2. CASE Poisons(p) \/ Records(p)
  BY <1>2 DEF Poisons, Records, At, Goes, Ends, cluster
<1>3. CASE Remediates(p)
  BY <1>3 DEF Remediates, At, process, disk
<1>4. CASE Interrupt(p)
  <2>1. Handler(p) \in {"handling", "noting", "releasing"}
    BY DEF Handler
  <2> QED BY <1>4, <2>1 DEF Interrupt, Ends
<1>5. CASE Begin(p) \/ Gates(p) \/ Locks(p) \/ IsRefused(p) \/ Counts(p) \/ Reserves(p)
           \/ Unlocks(p) \/ Preflights(p) \/ Clears(p) \/ Aborts(p) \/ Releases(p)
  BY <1>5 DEF Begin, Gates, Locks, IsRefused, Counts, Reserves, Unlocks, Preflights, Clears,
       Aborts, Releases, Goes, Ends, disk
<1>6. CASE NotesPrefault(p) \/ Consumes(p) \/ Crosses(p) \/ Applies(p) \/ Binds(p) \/ Proves(p)
           \/ Freezes(p) \/ Completes(p) \/ Deletes(p) \/ Accepts(p) \/ Handles(p) \/ Kill(p)
  BY <1>6 DEF NotesPrefault, Consumes, Crosses, Applies, Binds, Proves, Freezes, Completes,
       Deletes, Accepts, Handles, Kill, Goes, Ends, disk
<1> QED BY <1>1, <1>2, <1>3, <1>4, <1>5, <1>6 DEF Step

CleanupFiled(x) == files[x] \cap {"clean", "dirty"} # {}

\* A cleanup record tells the truth about the fault of its experiment,
Truthful ==
    \A x \in Experiments :
        /\ "clean" \in files[x] => fault # x
        /\ "dirty" \in files[x] => fault # x \/ poisoned
        /\ CleanupFiled(x) => x \in Spent

\* it is written by a run that knows, and only after the fault was made.
Fresh == {"unlocking", "reserved", "preflighted", "clear", "consumed", "crossed"}

Knowing ==
    \A p \in Runners :
        /\ pc[p] = "recording" => fault # exp[p]
        /\ pc[p] = "reporting" => poisoned
        /\ pc[p] = "accepting" => CleanupFiled(exp[p])
        /\ pc[p] \in Fresh => ~CleanupFiled(exp[p])

(* What is closed stays closed; what closes is a record of the cleanup. *)
LEMMA ClosedKept ==
    ASSUME Typed, NEW p \in Runners, Step(p), NEW x \in Experiments
    PROVE  /\ CleanupFiled(x) => files'[x] \cap {"clean", "dirty"} # {}
           /\ files'[x] \cap {"clean", "dirty"} # {} /\ ~CleanupFiled(x)
                => x = exp[p] /\ pc[p] \in {"recording", "reporting"}
<1>1. CASE files' = files
  BY <1>1 DEF CleanupFiled
<1>2. CASE files' # files
  <2>1. CASE x # exp[p]
    BY <1>2, <2>1, FileChanges DEF Filed, CleanupFiled
  <2>2. CASE x = exp[p]
    <3>1. \E f \in Notes : files'[x] = files[x] \cup {f}
                           /\ (f \in {"clean", "dirty"} => pc[p] \in {"recording", "reporting"})
      BY <1>2, <2>2, FileChanges DEF Filed, Notes
    <3> QED BY <2>2, <3>1 DEF CleanupFiled
  <2> QED BY <2>1, <2>2
<1> QED BY <1>1, <1>2

(* Cleanup records stay true. *)
LEMMA TruthfulStep ==
    ASSUME Named, Typed, Owned, Truthful, Knowing, Held, NEW p \in Runners, Step(p)
    PROVE  Truthful'
<1> SUFFICES ASSUME NEW x \in Experiments
             PROVE  /\ "clean" \in files'[x] => fault' # x
                    /\ "dirty" \in files'[x] => fault' # x \/ poisoned'
                    /\ CleanupFiled(x)' => x \in Spent'
  BY DEF Truthful
<1>1. poisoned => poisoned'
  BY CleanupSteps
<1>2. CleanupFiled(x)' => x \in Spent'
  <2>1. CASE CleanupFiled(x)
    BY <2>1, SpentKept DEF Truthful
  <2>2. CASE ~CleanupFiled(x) /\ x = exp[p] /\ pc[p] \in {"recording", "reporting"}
    BY <2>2, SpentKept DEF Owned, Crossed
  <2> QED BY <2>1, <2>2, ClosedKept DEF CleanupFiled
<1>3. CASE fault' \in {fault, "none"} /\ files'[x] = files[x]
  BY <1>1, <1>2, <1>3 DEF Truthful, Named
<1>4. CASE fault' \in {fault, "none"} /\ files'[x] # files[x]
  <2>1. Filed(p) /\ x = exp[p]
    BY <1>4, FileChanges DEF Filed
  <2>2. CASE pc[p] \in {"reserved", "noting", "accepting", "handling"}
    <3>1. "clean" \in files'[x] => "clean" \in files[x]
      BY <1>4, <2>1, <2>2 DEF Filed
    <3>2. "dirty" \in files'[x] => "dirty" \in files[x]
      BY <1>4, <2>1, <2>2 DEF Filed
    <3> QED BY <1>1, <1>2, <1>4, <3>1, <3>2 DEF Truthful, Named
  <2>3. CASE pc[p] = "recording"
    <3>1. files'[x] = files[x] \cup {"clean"} /\ fault # x
      BY <1>4, <2>1, <2>3 DEF Filed, Knowing
    <3> QED BY <1>2, <1>4, <3>1 DEF Named
  <2>4. CASE pc[p] = "reporting"
    <3>1. files'[x] = files[x] \cup {"dirty"} /\ poisoned
      BY <1>4, <2>1, <2>4 DEF Filed, Knowing
    <3> QED BY <1>1, <1>2, <1>4, <3>1 DEF Truthful, Named
  <2> QED BY <1>4, <2>1, <2>2, <2>3, <2>4 DEF Filed
<1>5. CASE pc[p] = "crossed" /\ fault' = exp[p] /\ files' = files
  <2>1. ~CleanupFiled(exp[p])
    BY <1>5 DEF Knowing, Fresh
  <2> QED BY <1>2, <1>5, <2>1 DEF CleanupFiled
<1> QED BY <1>3, <1>4, <1>5, Injects

(* Who owns an attempt does not see its records change by another's step.  *)
LEMMA UnseenByOthers ==
    ASSUME Named, Typed, Owned, NEW p \in Runners, Step(p), NEW q \in Runners, q # p,
           exp[q] \in Experiments, Mine(q)
    PROVE  /\ CleanupFiled(exp[q]) <=> files'[exp[q]] \cap {"clean", "dirty"} # {}
           /\ fault' = exp[q] => fault = exp[q]
<1>1. CASE pc[p] \in Owning
  <2>1. exp[p] # exp[q]
    BY <1>1, Apart DEF Owned
  <2>2. files'[exp[q]] = files[exp[q]]
    BY <2>1, FileChanges DEF Filed
  <2>3. fault' \in {fault, "none", exp[p]}
    BY Injects
  <2> QED BY <2>1, <2>2, <2>3 DEF CleanupFiled, Named
<1>2. CASE pc[p] \notin Owning
  <2>1. pc[p] \notin {"recording", "reporting", "crossed"}
    BY <1>2 DEF Owning, Crossed
  <2>2. fault' \in {fault, "none"}
    BY <2>1, Injects
  <2>3. CleanupFiled(exp[q]) <=> files'[exp[q]] \cap {"clean", "dirty"} # {}
    BY <2>1, ClosedKept
  <2> QED BY <2>2, <2>3 DEF Named
<1> QED BY <1>1, <1>2

(* Who goes on to acceptance has recorded its cleanup. *)
LEMMA RecordsFile ==
    ASSUME Typed, NEW p \in Runners, Step(p), pc[p] \in {"recording", "reporting"},
           pc'[p] = "accepting"
    PROVE  \/ files'[exp[p]] = files[exp[p]] \cup {"clean"}
           \/ files'[exp[p]] = files[exp[p]] \cup {"dirty"}
<1>1. CASE Records(p)
  <2>1. exp[p] \in Experiments
    BY DEF Typed
  <2>2. Files(exp[p], "clean") \/ Files(exp[p], "dirty")
    BY <1>1 DEF Records
  <2> QED BY <2>1, <2>2, FilesTyped DEF Notes
<1>2. CASE Interrupt(p)
  <2>1. Handler(p) \in {"handling", "noting", "releasing"}
    BY DEF Handler
  <2> QED BY <1>2, <2>1 DEF Interrupt, Ends, Typed
<1>3. CASE ~(Records(p) \/ Interrupt(p))
  BY <1>3 DEF Typed, At, Step, Begin, Gates, Locks, IsRefused, Counts, Reserves,
       Unlocks, Preflights, Clears, Aborts, Releases, NotesPrefault, Consumes, Crosses, Applies,
       Binds, Proves, Remediates, Freezes, Completes, Deletes, Looks, Poisons, Accepts,
       Handles, Kill, Goes, Ends, process
<1> QED BY <1>1, <1>2, <1>3

(* A runner in the cleanup goes on knowing what it saw. *)
LEMMA KnowingStep ==
    ASSUME Named, Typed, Handled, Held, Owned, Truthful, Knowing, NEW p \in Runners, Step(p)
    PROVE  Knowing'
<1>1. /\ pc'[p] = "recording" => fault' # exp'[p]
      /\ pc'[p] = "reporting" => poisoned'
  BY CleanupSteps
<1>2. ASSUME pc'[p] = "accepting" PROVE files'[exp'[p]] \cap {"clean", "dirty"} # {}
  <2>1. pc[p] \in {"recording", "reporting", "accepting"} /\ exp' = exp
    BY <1>2, CleanupSteps
  <2>2. exp[p] \in Experiments
    BY <2>1 DEF Typed
  <2>3. CASE pc[p] = "accepting"
    <3>1. CleanupFiled(exp[p])
      BY <2>3 DEF Knowing
    <3> QED BY <2>1, <2>2, <3>1, ClosedKept
  <2>4. CASE pc[p] \in {"recording", "reporting"}
    BY <1>2, <2>1, <2>4, RecordsFile
  <2> QED BY <2>1, <2>3, <2>4
<1>3. ASSUME pc'[p] \in Fresh PROVE files'[exp'[p]] \cap {"clean", "dirty"} = {}
  <2>1. Passes(p) /\ pc[p] # "off" /\ exp'[p] = exp[p] /\ exp[p] \in Experiments
    <3>1. Passes(p)
      BY PlacesPassed
    <3> QED BY <1>3, <3>1 DEF Passes, Fresh, Reserved, Unreserved, Crossed, Typed
  <2>2. pc[p] \notin {"recording", "reporting"}
    <3>1. pc[p] \in Crossed /\ pc'[p] = "crossed" => pc[p] = "crossed"
      BY NotRecrossed
    <3> QED BY <1>3, <2>1, <3>1 DEF Passes, Fresh, Reserved, Unreserved, Crossed
  <2>3. ~CleanupFiled(exp[p])
    <3>1. CASE pc[p] = "marking"
      <4>1. marker[exp[p]] = NoMarker
        BY <2>1, <3>1 DEF Held, Marked
      <4>2. exp[p] \notin Spent
        BY <4>1 DEF Spent, NoMarker
      <4> QED BY <2>1, <4>2 DEF Truthful
    <3>2. CASE pc[p] \in Crossed \cup {"handling"}
      <4>1. pc'[p] = "crossed"
        BY <1>3, <2>1, <3>2 DEF Passes, Fresh, Reserved, Unreserved, Crossed
      <4> QED BY <3>2, <4>1, NotRecrossed DEF Knowing, Fresh
    <3>3. CASE pc[p] \notin Crossed \cup {"handling", "marking"}
      <4>1. pc[p] \in Fresh
        BY <1>3, <2>1, <3>3 DEF Passes, Fresh, Reserved, Unreserved, Crossed
      <4> QED BY <4>1 DEF Knowing
    <3> QED BY <3>1, <3>2, <3>3
  <2> QED BY <2>1, <2>2, <2>3, ClosedKept
<1>4. ASSUME NEW q \in Runners, q # p
      PROVE  /\ pc'[q] = "recording" => fault' # exp'[q]
             /\ pc'[q] = "reporting" => poisoned'
             /\ pc'[q] = "accepting" => files'[exp'[q]] \cap {"clean", "dirty"} # {}
             /\ pc'[q] \in Fresh => files'[exp'[q]] \cap {"clean", "dirty"} = {}
  <2>1. pc'[q] = pc[q] /\ exp'[q] = exp[q]
    BY <1>4, Others
  <2>2. CASE pc[q] \in Owning
    <3>1. Mine(q) /\ exp[q] \in Experiments
      BY <2>2 DEF Owned, Owning, Crossed, Typed
    <3>2. /\ CleanupFiled(exp[q]) <=> files'[exp[q]] \cap {"clean", "dirty"} # {}
          /\ fault' = exp[q] => fault = exp[q]
      BY <1>4, <3>1, UnseenByOthers
    <3>3. poisoned => poisoned'
      BY CleanupSteps
    <3>4. /\ pc[q] = "recording" => fault # exp[q]
          /\ pc[q] = "reporting" => poisoned
          /\ pc[q] = "accepting" => CleanupFiled(exp[q])
          /\ pc[q] \in Fresh => ~CleanupFiled(exp[q])
      BY DEF Knowing
    <3> QED BY <2>1, <3>2, <3>3, <3>4
  <2>3. CASE pc[q] \notin Owning
    BY <2>1, <2>3 DEF Owning, Crossed, Fresh
  <2> QED BY <2>2, <2>3
<1>5. ASSUME NEW q \in Runners
      PROVE  /\ pc'[q] = "recording" => fault' # exp'[q]
             /\ pc'[q] = "reporting" => poisoned'
             /\ pc'[q] = "accepting" => files'[exp'[q]] \cap {"clean", "dirty"} # {}
             /\ pc'[q] \in Fresh => files'[exp'[q]] \cap {"clean", "dirty"} = {}
  <2>1. CASE q = p
    BY <1>1, <1>2, <1>3, <2>1
  <2>2. CASE q # p
    BY <1>4, <2>2
  <2> QED BY <2>1, <2>2
<1> QED BY <1>5 DEF Knowing, CleanupFiled

-----------------------------------------------------------------------------
(* Who answers for a fault. *)

Accounted ==
    fault \in Experiments =>
        \/ poisoned \/ fault \in lost
        \/ \E p \in Runners : exp[p] = fault /\ pc[p] \in Crossed \cup {"handling"}

(* Nobody is found again. *)
LEMMA LostKept == ASSUME NEW p \in Runners, Step(p) PROVE lost \subseteq lost'
BY DEF Step, Begin, Gates, Locks, IsRefused, Counts, Reserves, Unlocks, Preflights,
       Clears, Aborts, Releases, NotesPrefault, Consumes, Crosses, Applies, Binds, Proves,
       Remediates, Freezes, Completes, Deletes, Looks, Poisons, Records, Accepts, Handles,
       Interrupt, Kill

(* A run past T0 ends knowing its fault gone, closed, poisoned or lost.    *)
LEMMA EndsKnown ==
    ASSUME Named, Typed, Handled, NEW p \in Runners, Step(p),
           pc[p] \in Crossed \cup {"handling"}
    PROVE  /\ lost \subseteq lost'
           /\ \/ pc'[p] \in Crossed \cup {"handling"} /\ exp'[p] = exp[p]
              \/ exp[p] \in lost'
              \/ pc[p] \in {"recording", "reporting", "accepting"} /\ fault' = fault
              \/ pc[p] = "handling" /\ CleanupFiled(exp[p]) /\ fault' = fault
<1>1. lost \subseteq lost'
  BY LostKept
<1>2. CASE Records(p) \/ Accepts(p)
  BY <1>1, <1>2 DEF Records, Accepts, At, cluster
<1>3. CASE Handles(p)
  BY <1>1, <1>3 DEF Handles, At, Goes, CleanupFiled, Crossed, Typed, cluster
<1>4. CASE Interrupt(p)
  <2>1. CASE p \in handler
    BY <1>1, <1>4, <2>1 DEF Interrupt
  <2>2. CASE p \notin handler
    <3>1. pc[p] \in Crossed /\ pc[p] \notin Unreserved
      BY <2>2 DEF Handled, Crossed, Unreserved
    <3>2. pc' = [pc EXCEPT ![p] = Handler(p)] /\ exp' = exp
      BY <1>4, <2>2, <3>1 DEF Interrupt
    <3>3. Handler(p) = "handling"
      BY <3>1 DEF Handler, Crossed, Reserved
    <3>4. pc'[p] = "handling"
      BY <3>2, <3>3 DEF Typed
    <3> QED BY <1>1, <3>2, <3>4
  <2> QED BY <2>1, <2>2
<1>5. CASE Kill(p)
  BY <1>1, <1>5 DEF Kill
<1>6. CASE ~(Records(p) \/ Accepts(p) \/ Handles(p) \/ Interrupt(p) \/ Kill(p))
  BY <1>1, <1>6 DEF Typed, Crossed, Unreserved, Reserved, At, Step, Begin, Gates, Locks, IsRefused, Counts,
       Reserves, Unlocks, Preflights, Clears, Aborts, Releases, NotesPrefault, Consumes, Crosses,
       Applies, Binds, Proves, Remediates, Freezes, Completes, Deletes, Looks, Poisons, Goes, process
<1> QED BY <1>2, <1>3, <1>4, <1>5, <1>6

(* A fault always has somebody to answer for it. *)
LEMMA AccountedStep ==
    ASSUME Named, Typed, Handled, Held, Owned, Truthful, Knowing, Accounted,
           NEW p \in Runners, Step(p)
    PROVE  Accounted'
<1> SUFFICES ASSUME fault' \in Experiments
             PROVE  \/ poisoned' \/ fault' \in lost'
                    \/ \E q \in Runners : exp'[q] = fault' /\ pc'[q] \in Crossed \cup {"handling"}
  BY DEF Accounted
<1>1. CASE pc'[p] \in {"applied", "failed"} /\ fault' = exp[p] /\ exp' = exp
  BY <1>1 DEF Crossed
<1>2. CASE fault' = fault
  <2>1. poisoned => poisoned'
    BY CleanupSteps
  <2>2. lost \subseteq lost'
    BY LostKept
  <2>3. CASE poisoned \/ fault \in lost
    BY <1>2, <2>1, <2>2, <2>3
  <2>4. CASE \E q \in Runners : exp[q] = fault /\ pc[q] \in Crossed \cup {"handling"}
    <3>1. PICK q \in Runners : exp[q] = fault /\ pc[q] \in Crossed \cup {"handling"}
      BY <2>4
    <3>2. CASE q # p
      BY <1>2, <3>1, <3>2, Others
    <3>3. CASE q = p
      <4>1. CASE pc'[p] \in Crossed \cup {"handling"} /\ exp'[p] = exp[p]
        BY <1>2, <3>1, <3>3, <4>1
      <4>2. CASE exp[p] \in lost'
        BY <1>2, <3>1, <3>3, <4>2
      <4>3. CASE pc[p] \in {"recording", "reporting"}
        BY <1>2, <2>1, <3>1, <3>3, <4>3 DEF Knowing
      <4>4. CASE CleanupFiled(exp[p])
        BY <1>2, <2>1, <3>1, <3>3, <4>4 DEF Truthful, CleanupFiled
      <4>5. CASE pc[p] = "accepting"
        BY <4>4, <4>5 DEF Knowing
      <4> QED BY <3>1, <3>3, <4>1, <4>2, <4>3, <4>4, <4>5, EndsKnown
    <3> QED BY <3>2, <3>3
  <2> QED BY <1>2, <2>3, <2>4 DEF Accounted
<1> QED BY <1>1, <1>2, Injects DEF Named

-----------------------------------------------------------------------------
(* What a spent attempt leaves on the disk. *)

\* The verdict is frozen, or the interruption is noted.
Noted(x) == primary[x] # "absent" \/ files[x] \cap {"frozen", "inconclusive"} # {}

Evident(x) == Noted(x) \/ ("prefault" \in files[x] /\ x \notin injected)

\* Past its verdict a run has noted it; a spent attempt is somebody's or is evident.
After == {"completing", "cleaning", "looking", "poisoning", "recording", "reporting", "accepting"}

Recorded ==
    /\ \A p \in Runners : pc[p] \in After => Noted(exp[p])
    /\ \A x \in Spent \ lost :
        \/ \E p \in Runners : exp[p] = x /\ pc[p] # "off" /\ Mine(p)
        \/ Evident(x)

(* What is noted stays. *)
LEMMA NotedKept ==
    ASSUME Typed, NEW p \in Runners, Step(p), NEW x \in Experiments
    PROVE  /\ primary[x] # "absent" => primary'[x] # "absent"
           /\ files[x] \subseteq files'[x]
<1>1. files[x] \subseteq files'[x]
  <2>1. CASE files' = files \/ x # exp[p]
    BY <2>1, FileChanges DEF Filed
  <2>2. CASE files' # files /\ x = exp[p]
    <3>1. \E f \in Notes : files'[x] = files[x] \cup {f}
      BY <2>2, FileChanges DEF Filed, Notes
    <3> QED BY <3>1
  <2> QED BY <2>1, <2>2
<1>2. primary[x] # "absent" => primary'[x] # "absent"
  <2>1. CASE Freezes(p)
    <3>1. \E v \in {"failed", "invalid", "judged"} : primary' = [primary EXCEPT ![exp[p]] = v]
      BY <2>1 DEF Freezes, Verdict
    <3> QED BY <3>1 DEF Typed
  <2>2. CASE ~Freezes(p)
    BY <2>2 DEF Step, Begin, Gates, Locks, IsRefused, Counts, Reserves, Unlocks, Preflights,
       Clears, Aborts, Releases, NotesPrefault, Consumes, Crosses, Applies, Binds, Proves,
       Remediates, Completes, Deletes, Looks, Poisons, Records, Accepts, Handles, Interrupt,
       Kill, disk
  <2> QED BY <2>1, <2>2
<1> QED BY <1>1, <1>2

(* Who gets past its verdict has noted it. *)
LEMMA AfterNoted ==
    ASSUME Typed, Handled, Recorded, NEW p \in Runners, Step(p), pc'[p] \in After
    PROVE  /\ exp' = exp /\ exp[p] \in Experiments
           /\ primary'[exp[p]] # "absent" \/ files'[exp[p]] \cap {"frozen", "inconclusive"} # {}
<1>1. CASE Freezes(p)
  <2>1. exp' = exp /\ exp[p] \in Experiments
    BY <1>1 DEF Freezes, Goes, Typed
  <2>2. \E v \in {"failed", "invalid", "judged"} : primary' = [primary EXCEPT ![exp[p]] = v]
    BY <1>1 DEF Freezes, Verdict
  <2> QED BY <2>1, <2>2 DEF Typed
<1>2. CASE Handles(p)
  <2>1. exp[p] \in Experiments
    BY <1>2 DEF Handles, At, Typed
  <2>2. exp' = exp
    BY <1>2 DEF Handles, Goes, Ends, Typed, After
  <2>3. CASE files[exp[p]] \cap {"frozen", "inconclusive"} = {}
    <3>1. Files(exp[p], Classification(exp[p])) /\ Classification(exp[p]) \in {"frozen", "inconclusive"}
      BY <1>2, <2>3 DEF Handles, Classification
    <3>2. files'[exp[p]] = files[exp[p]] \cup {Classification(exp[p])}
      BY <2>1, <3>1, FilesTyped DEF Notes
    <3> QED BY <2>1, <2>2, <3>1, <3>2
  <2>4. CASE files[exp[p]] \cap {"frozen", "inconclusive"} # {}
    BY <2>1, <2>2, <2>4, NotedKept
  <2> QED BY <2>3, <2>4
<1>3. CASE ~(Freezes(p) \/ Handles(p))
  <2>1. exp' = exp /\ pc[p] \in After
    <3>1. CASE Interrupt(p)
      <4>1. Handler(p) \in {"handling", "noting", "releasing"}
        BY DEF Handler
      <4> QED BY <3>1, <4>1 DEF Interrupt, Ends, After, Typed
    <3>2. CASE ~Interrupt(p)
      BY <1>3, <3>2 DEF Typed, After, At, Step, Begin, Gates, Locks, IsRefused, Counts, Reserves,
       Unlocks, Preflights, Clears, Aborts, Releases, NotesPrefault, Consumes, Crosses, Applies,
       Binds, Proves, Remediates, Completes, Deletes, Looks, Poisons, Records, Accepts, Kill,
       Goes, Ends, process
    <3> QED BY <3>1, <3>2
  <2>2. exp[p] \in Experiments
    BY <2>1 DEF After, Typed
  <2> QED BY <2>1, <2>2, NotedKept DEF Recorded, Noted
<1> QED BY <1>1, <1>2, <1>3

(* Who ends leaves its attempt unspent, lost, noted, or its fault unmade.  *)
LEMMA EndsRecorded ==
    ASSUME Typed, Handled, Owned, Injected, Recorded, NEW p \in Runners, Step(p),
           pc[p] # "off", pc'[p] = "off", Mine(p), exp[p] \in Spent
    PROVE  \/ exp[p] \in lost'
           \/ primary'[exp[p]] # "absent"
           \/ files'[exp[p]] \cap {"frozen", "inconclusive"} # {}
           \/ "prefault" \in files'[exp[p]] /\ exp[p] \notin injected'
<1> exp[p] \in Experiments /\ pc[p] \notin Unreserved
  BY DEF Typed, Owned
<1>1. CASE NotesPrefault(p)
  <2>1. exp[p] \notin injected
    BY <1>1 DEF NotesPrefault, At, Injected, Before, Reserved
  <2>2. files'[exp[p]] = files[exp[p]] \cup {"prefault"}
    BY <1>1, FilesTyped DEF NotesPrefault, Notes
  <2> QED BY <1>1, <2>1, <2>2 DEF NotesPrefault, cluster
<1>2. CASE Records(p) \/ Accepts(p)
  <2>1. pc[p] \in After
    BY <1>2 DEF Records, Accepts, At, After
  <2> QED BY <2>1, NotedKept DEF Recorded, Noted
<1>3. CASE Handles(p)
  <2>1. CASE files[exp[p]] \cap {"frozen", "inconclusive"} = {}
    <3>1. Files(exp[p], Classification(exp[p])) /\ Classification(exp[p]) \in {"frozen", "inconclusive"}
      BY <1>3, <2>1 DEF Handles, Classification
    <3>2. files'[exp[p]] = files[exp[p]] \cup {Classification(exp[p])}
      BY <3>1, FilesTyped DEF Notes
    <3> QED BY <3>1, <3>2
  <2>2. CASE files[exp[p]] \cap {"frozen", "inconclusive"} # {}
    BY <2>2, NotedKept
  <2> QED BY <2>1, <2>2
<1>4. CASE Kill(p)
  BY <1>4 DEF Kill
<1>5. CASE Interrupt(p)
  <2>1. CASE p \in handler
    BY <1>5, <2>1 DEF Interrupt
  <2>2. CASE p \notin handler
    <3>1. Handler(p) \in {"handling", "noting", "releasing"}
      BY DEF Handler
    <3> QED BY <1>5, <2>2, <3>1 DEF Interrupt, Typed
  <2> QED BY <2>1, <2>2
<1>6. CASE ~(NotesPrefault(p) \/ Records(p) \/ Accepts(p) \/ Handles(p) \/ Kill(p) \/ Interrupt(p))
  BY <1>6 DEF Typed, Unreserved, At, Step, Begin, Gates, Locks, IsRefused, Counts, Reserves,
       Unlocks, Preflights, Clears, Aborts, Releases, Consumes, Crosses, Applies,
       Binds, Proves, Remediates, Freezes, Completes, Deletes, Looks, Poisons, Goes, process
<1> QED BY <1>1, <1>2, <1>3, <1>4, <1>5, <1>6

(* An attempt is spent by its runner, which keeps it. *)
LEMMA NewlySpent ==
    ASSUME Typed, NEW p \in Runners, Step(p), NEW x \in Experiments,
           x \in Spent', x \notin Spent
    PROVE  pc[p] = "clear" /\ pc'[p] = "consumed" /\ x = exp[p] /\ Mine(p)'
<1>1. Changes(p) /\ x = exp[p] /\ marker'[x].state \in {"CONSUMED", "COMPLETED"}
      /\ marker[x].state \notin {"CONSUMED", "COMPLETED"}
  <2>1. marker'[x] # marker[x]
    BY DEF Spent
  <2> QED BY <2>1, MarkerChanges DEF Changes, Spent
<1>2. pc[p] = "clear" /\ pc'[p] = "consumed" /\ marker'[x].token = p
  BY <1>1 DEF Changes, NoMarker
<1>3. exp'[p] = exp[p]
  <2>1. CASE Consumes(p)
    BY <2>1 DEF Consumes, Goes
  <2>2. CASE Interrupt(p)
    BY <1>2, <2>2 DEF Interrupt, Handler, Ends, Typed
  <2>3. CASE ~(Consumes(p) \/ Interrupt(p))
    BY <1>2, <2>3 DEF Typed, At, Unreserved, Step, Begin, Gates, Locks, IsRefused, Counts,
       Reserves, Unlocks, Preflights, Clears, Aborts, Releases, NotesPrefault, Crosses, Applies,
       Binds, Proves, Remediates, Freezes, Completes, Deletes, Looks, Poisons, Records, Accepts,
       Handles, Kill, Goes, Ends, process
  <2> QED BY <2>1, <2>2, <2>3
<1> QED BY <1>1, <1>2, <1>3 DEF Mine

(* Nobody takes a spent attempt from its runner. *)
LEMMA OwnKept ==
    ASSUME Typed, NEW p \in Runners, Step(p), NEW x \in Spent, exp[p] = x, Mine(p)
    PROVE  marker'[x].token = p
<1>1. Changes(p) /\ x \in Experiments /\ marker[x].token = p
  BY MarkerChanges DEF Spent, Mine
<1>2. CASE Releasable(p)
  BY <1>2 DEF Releasable, Spent
<1>3. CASE marker' = marker \/ marker'[x] = [state |-> "RESERVED", token |-> p]
           \/ marker'[x] = [state |-> "CONSUMED", token |-> p]
           \/ marker'[x] = [state |-> "COMPLETED", token |-> p]
  BY <1>1, <1>3
<1> QED BY <1>1, <1>2, <1>3 DEF Changes

(* A spent attempt goes on being somebody's or evident. *)
LEMMA RecordedStep ==
    ASSUME Named, Typed, Handled, Held, Owned, Injected, Recorded, NEW p \in Runners, Step(p)
    PROVE  Recorded'
<1>1. ASSUME NEW q \in Runners, pc'[q] \in After
      PROVE  primary'[exp'[q]] # "absent" \/ files'[exp'[q]] \cap {"frozen", "inconclusive"} # {}
  <2>1. CASE q = p
    BY <1>1, <2>1, AfterNoted
  <2>2. CASE q # p
    <3>1. pc'[q] = pc[q] /\ exp'[q] = exp[q] /\ exp[q] \in Experiments
      BY <1>1, <2>2, Others DEF Typed, After
    <3> QED BY <1>1, <3>1, NotedKept DEF Recorded, Noted
  <2> QED BY <2>1, <2>2
<1>2. ASSUME NEW x \in Spent' \ lost'
      PROVE  \/ \E q \in Runners : exp'[q] = x /\ pc'[q] # "off" /\ Mine(q)'
             \/ primary'[x] # "absent"
             \/ files'[x] \cap {"frozen", "inconclusive"} # {}
             \/ "prefault" \in files'[x] /\ x \notin injected'
  <2> x \in Experiments
    BY DEF Spent
  <2>1. lost \subseteq lost'
    BY LostKept
  <2>2. CASE x \notin Spent
    <3>1. pc[p] = "clear" /\ pc'[p] = "consumed" /\ x = exp[p] /\ Mine(p)'
      BY <1>2, <2>2, NewlySpent
    <3> QED BY <1>2, <3>1, PlacesPassed DEF Passes, Reserved, Unreserved, Crossed
  <2>3. CASE x \in Spent /\ \E q \in Runners : exp[q] = x /\ pc[q] # "off" /\ Mine(q)
    <3>1. PICK q \in Runners : exp[q] = x /\ pc[q] # "off" /\ Mine(q)
      BY <2>3
    <3>2. CASE q # p
      BY <3>1, <3>2, MineKept
    <3>3. CASE q = p /\ pc'[p] = "off"
      BY <1>2, <2>3, <3>1, <3>3, EndsRecorded
    <3>4. CASE q = p /\ pc'[p] # "off"
      <4>1. exp'[p] = exp[p]
        BY <3>1, <3>4, PlacesPassed DEF Passes
      <4>2. marker'[x].token = p
        BY <2>3, <3>1, <3>4, OwnKept
      <4> QED BY <3>1, <3>4, <4>1, <4>2 DEF Mine
    <3> QED BY <3>2, <3>3, <3>4
  <2>4. CASE x \in Spent /\ Evident(x)
    <3>1. CASE Noted(x)
      BY <3>1, NotedKept DEF Noted
    <3>2. CASE "prefault" \in files[x] /\ x \notin injected
      <4>1. "prefault" \in files'[x]
        BY <3>2, NotedKept
      <4>2. CASE injected' = injected
        BY <3>2, <4>1, <4>2
      <4>3. CASE pc[p] = "crossed" /\ injected' = injected \cup {exp[p]} /\ x # exp[p]
        BY <3>2, <4>1, <4>3
      <4>4. CASE pc[p] = "crossed" /\ x = exp[p]
        <5>1. Mine(p)
          BY <4>4 DEF Owned, Owning, Crossed
        <5> QED BY <2>3, <2>4, <4>4, <5>1
      <4> QED BY <4>2, <4>3, <4>4, Injects
    <3> QED BY <2>4, <3>1, <3>2 DEF Evident
  <2> QED BY <1>2, <2>1, <2>2, <2>3, <2>4 DEF Recorded
<1> QED BY <1>1, <1>2 DEF Recorded, Evident, Noted

-----------------------------------------------------------------------------
(* The inductive invariant. *)

GovernedInv ==
    /\ Typed /\ Handled /\ Held /\ Bounded /\ Owned
    /\ Injected /\ Truthful /\ Knowing /\ Accounted /\ Recorded

(* It holds at the start, where nobody runs and nothing is filed. *)
LEMMA GovernedStarts == ASSUME Named, GovernedInit PROVE GovernedInv
<1>1. Typed /\ Handled /\ Held
  BY DEF GovernedInit, Typed, Handled, Held, RunnerPlaces, Named, NoMarker
<1>2. Marked = {} /\ Spent = {}
  BY DEF GovernedInit, Marked, Spent, NoMarker
<1>3. Bounded
  <2>1. Cardinality({}) = 0
    BY FS_EmptySet
  <2> QED BY <1>2, <2>1 DEF Bounded, Named
<1>4. Owned /\ Injected /\ Knowing
  BY <1>2 DEF GovernedInit, Owned, Injected, Knowing, Owning, Before, Fresh, After,
       Reserved, Unreserved, Crossed
<1>5. Truthful /\ Accounted /\ Recorded
  BY <1>2 DEF GovernedInit, Truthful, Accounted, Recorded, CleanupFiled, After, Named
<1> QED BY <1>1, <1>3, <1>4, <1>5 DEF GovernedInv

(* A foreign Chaos object changes nothing of it. *)
LEMMA Untouched ==
    ASSUME GovernedInv, UNCHANGED <<pc, exp, handler, lock, marker, primary, files, poisoned, fault,
                             injected, lost>>
    PROVE  GovernedInv'
BY DEF GovernedInv, Typed, Handled, Held, Bounded, Marked, Owned, Owning, Mine, Injected, Before, Spent,
       Truthful, CleanupFiled, Knowing, Fresh, Accounted, Recorded, After, Noted, Evident

(* Nor does the operator, who waits until nobody runs. *)
LEMMA OperatorKeeps == ASSUME Named, GovernedInv, OperatorVerifies PROVE GovernedInv'
<1>1. /\ \A p \in Runners : pc[p] = "off"
      /\ poisoned' = FALSE /\ fault' = "none"
      /\ UNCHANGED <<pc, exp, handler, marker, primary, files, injected, lost>>
  BY DEF OperatorVerifies, At, process
<1>2. Typed' /\ Handled' /\ Bounded' /\ Owned' /\ Injected' /\ Recorded'
  BY <1>1 DEF GovernedInv, Typed, Handled, Bounded, Marked, Owned, Owning, Mine, Injected, Before, Spent,
              Recorded, After, Noted, Evident
<1>3. Held' /\ Knowing' /\ Accounted'
  BY <1>1 DEF Held, Knowing, Accounted, Fresh, Named
<1>4. Truthful'
  BY <1>1 DEF GovernedInv, Truthful, CleanupFiled, Spent, Named
<1> QED BY <1>2, <1>3, <1>4 DEF GovernedInv

(* Every step keeps it. *)
LEMMA Keeps == ASSUME Named, GovernedInv, [GovernedNext]_governedVars PROVE GovernedInv'
<1>1. ASSUME NEW p \in Runners, Step(p) PROVE GovernedInv'
  BY <1>1, GovernedTyped, HandledStep, HeldStep, BoundedStep, OwnedStep, InjectedStep, TruthfulStep,
     KnowingStep, AccountedStep, RecordedStep DEF GovernedInv
<1>2. CASE ForeignChaos
  BY <1>2, Untouched DEF ForeignChaos, process, disk
<1>3. CASE OperatorVerifies
  BY <1>3, OperatorKeeps
<1>4. CASE UNCHANGED governedVars
  BY <1>4, Untouched DEF governedVars, process, disk, cluster
<1> QED BY <1>1, <1>2, <1>3, <1>4 DEF GovernedNext, Step

(* GovernedInv is inductive. *)
THEOREM GovernedInvariance == ASSUME Named PROVE GovernedSpec => []GovernedInv
BY GovernedStarts, Keeps, PTL DEF GovernedSpec

(* A fault in the cluster always has somebody to answer for it: its run,   *)
(* the poison record, or a runner that died or fell out of its handler.    *)
THEOREM FaultsAreAccounted == ASSUME Named PROVE GovernedSpec => []FaultIsAccounted
<1>1. GovernedInv => FaultIsAccounted
  BY DEF GovernedInv, Accounted, FaultIsAccounted
<1> QED BY GovernedInvariance, <1>1, PTL

(* Attempts stay within the budget, and one whose fault was made is spent. *)
THEOREM BudgetIsKept == ASSUME Named PROVE GovernedSpec => []BudgetHolds
<1>1. GovernedInv => BudgetHolds
  BY DEF GovernedInv, Bounded, Marked, Injected, BudgetHolds
<1> QED BY GovernedInvariance, <1>1, PTL

(* A spent attempt is recorded by the time nobody runs it.                 *)
THEOREM SpendingIsRecorded == ASSUME Named PROVE GovernedSpec => []SpentIsRecorded
<1>1. GovernedInv => SpentIsRecorded
  BY DEF GovernedInv, Recorded, Evident, Noted, SpentIsRecorded
<1> QED BY GovernedInvariance, <1>1, PTL

-----------------------------------------------------------------------------
(***************************************************************************)
(* That the trainer's callbacks are serial, for any number of threads and  *)
(* calls.  The argument: who is inside a call holds _call_lock; while the  *)
(* adapter is open, a callback that is under way has a pending future and  *)
(* its caller inside the call, interrupted or not; nothing is submitted    *)
(* once a close began, and the close ends after the loop, which ends after *)
(* every callback.                                                         *)
(***************************************************************************)

CallTypes ==
    /\ caller \in [Threads -> {"idle", "calling", "waiting", "settling", "cancelling", "joining"}]
    /\ future \in [Threads -> {"none", "pending", "done", "cancelled"}]
    /\ task \in [Threads -> {"none", "queued", "running", "settled"}]
    /\ state \in {"new", "open", "closing", "closed"}
    /\ loop \in {"none", "running", "draining", "done"} /\ stop \in BOOLEAN

Locked ==
    \A t \in Threads : caller[t] \in {"calling", "waiting", "settling"} => callLock = t

Waited ==
    state = "open" =>
        \A t \in Live : caller[t] \in {"waiting", "settling"} /\ future[t] = "pending"

Single == \A t, u \in Live : t = u

Closing ==
    /\ \A t \in Threads :
        caller[t] \in {"cancelling", "joining"} => state = "closing" /\ closeLock = t
    /\ stop => state \in {"closing", "closed"}

Looped ==
    /\ state = "new" => loop = "none"
    /\ state = "closed" => loop \in {"none", "done"}
    /\ loop \in {"draining", "done"} => stop
    /\ loop \in {"none", "done"} => Live = {}

LifecycleInv == CallTypes /\ Locked /\ Waited /\ Single /\ Closing /\ Looped

(* A new adapter satisfies the invariant. *)
LEMMA LifecycleInitInv == LifecycleInit => LifecycleInv
BY DEF LifecycleInit, LifecycleInv, CallTypes, Locked, Waited, Single, Closing, Looped, Live

(* The caller's side: invoke, submit, and the ways to come back. *)
LEMMA CallerInv ==
    ASSUME LifecycleInv, "free" \notin Threads, NEW t \in Threads,
           Invoke(t) \/ Submit(t) \/ InvokeFails(t) \/ Returns(t) \/ Interrupted(t)
    PROVE  LifecycleInv'
<1> USE DEF LifecycleInv
<1>1. CASE Invoke(t)
  BY <1>1 DEF Invoke, Moves, CallTypes, Locked, Waited, Single, Closing, Looped, Live
<1>2. CASE Submit(t)
  <2>1. Live = {}
    BY <1>2 DEF Submit, CallTypes, Locked, Waited, Live
  <2>2. Live' = {t}
    BY <1>2, <2>1 DEF Submit, CallTypes, Live
  <2>3. CallTypes' /\ Locked'
    BY <1>2 DEF Submit, Moves, CallTypes, Locked
  <2>4. Waited'
    BY <1>2, <2>2 DEF Submit, Moves, CallTypes, Waited
  <2>5. Single' /\ Closing' /\ Looped'
    BY <1>2, <2>2 DEF Submit, Moves, CallTypes, Single, Closing, Looped
  <2> QED BY <2>3, <2>4, <2>5
<1>3. CASE InvokeFails(t)
  <2>1. t \notin Live \/ state # "open"
    BY <1>3 DEF InvokeFails, Waited, Live
  <2>2. Live' = Live
    BY <1>3 DEF InvokeFails, Live
  <2> QED BY <1>3, <2>1, <2>2
          DEF InvokeFails, InvokeReleases, Moves, CallTypes, Locked, Waited, Single, Closing, Looped
<1>4. CASE Returns(t)
  <2>1. t \notin Live \/ state # "open"
    BY <1>4 DEF Returns, Waited
  <2>2. Live' = Live
    BY <1>4 DEF Returns, Live
  <2> QED BY <1>4, <2>1, <2>2
          DEF Returns, InvokeReleases, Moves, CallTypes, Locked, Waited, Single, Closing, Looped
<1>5. CASE Interrupted(t)
  <2>1. Live' = Live
    BY <1>5 DEF Interrupted, Live
  <2> QED BY <1>5, <2>1
          DEF Interrupted, Moves, CallTypes, Locked, Waited, Single, Closing, Looped
<1> QED BY <1>1, <1>2, <1>3, <1>4, <1>5

(* The closer's side. *)
LEMMA CloserInv ==
    ASSUME LifecycleInv, NEW t \in Threads, CloseBegins(t) \/ CloseCancels(t) \/ CloseEnds(t)
    PROVE  LifecycleInv'
<1> USE DEF LifecycleInv
<1>1. Live' = Live
  BY DEF CloseBegins, CloseCancels, CloseEnds, Live
<1>2. CASE CloseBegins(t)
  BY <1>1, <1>2 DEF CloseBegins, Moves, CallTypes, Locked, Waited, Single, Closing, Looped
<1>3. CASE CloseCancels(t)
  BY <1>1, <1>3 DEF CloseCancels, Moves, CallTypes, Locked, Waited, Single, Closing, Looped
<1>4. CASE CloseEnds(t)
  <2>1. \A u \in Threads : caller[u] \in {"cancelling", "joining"} => u = t
    BY <1>4 DEF CloseEnds, Closing
  <2> QED BY <1>1, <1>4, <2>1 DEF CloseEnds, Moves, CallTypes, Locked, Waited, Single, Closing, Looped
<1> QED BY <1>2, <1>3, <1>4

(* The loop's side. *)
LEMMA LoopInv ==
    ASSUME LifecycleInv, Stops \/ Drained \/ Enter \/ (\E t \in Threads : Starts(t) \/ Settles(t))
    PROVE  LifecycleInv'
<1> USE DEF LifecycleInv
<1>1. CASE Stops \/ Drained \/ Enter
  <2>1. Live' = Live
    BY <1>1 DEF Stops, Drained, Enter, Live
  <2> QED BY <1>1, <2>1
          DEF Stops, Drained, Enter, CallTypes, Locked, Waited, Single, Closing, Looped
<1>2. ASSUME NEW t \in Threads, Starts(t) PROVE LifecycleInv'
  <2>1. Live' = Live
    BY <1>2 DEF Starts, CallTypes, Live
  <2> QED BY <1>2, <2>1 DEF Starts, CallTypes, Locked, Waited, Single, Closing, Looped
<1>3. ASSUME NEW t \in Threads, Settles(t) PROVE LifecycleInv'
  <2>1. Live' = Live \ {t}
    BY <1>3 DEF Settles, CallTypes, Live
  <2> QED BY <1>3, <2>1 DEF Settles, CallTypes, Locked, Waited, Single, Closing, Looped
<1> QED BY <1>1, <1>2, <1>3

(* Every step keeps the invariant. *)
LEMMA LifecycleStepInv == "free" \notin Threads /\ LifecycleInv /\ [LifecycleNext]_lifecycleVars => LifecycleInv'
<1> SUFFICES ASSUME "free" \notin Threads, LifecycleInv, [LifecycleNext]_lifecycleVars PROVE LifecycleInv'
  OBVIOUS
<1>1. CASE Enter \/ Stops \/ Drained \/ \E t \in Threads : Starts(t) \/ Settles(t)
  BY <1>1, LoopInv
<1>2. ASSUME NEW t \in Threads,
             Invoke(t) \/ Submit(t) \/ InvokeFails(t) \/ Returns(t) \/ Interrupted(t)
      PROVE  LifecycleInv'
  BY <1>2, CallerInv
<1>3. ASSUME NEW t \in Threads, CloseBegins(t) \/ CloseCancels(t) \/ CloseEnds(t)
      PROVE  LifecycleInv'
  BY <1>3, CloserInv
<1>4. CASE UNCHANGED lifecycleVars
  BY <1>4 DEF lifecycleVars, LifecycleInv, CallTypes, Locked, Waited, Single, Closing, Looped, Live
<1> QED BY <1>1, <1>2, <1>3, <1>4 DEF LifecycleNext

(* The invariant says that callbacks are serial. *)
LEMMA InvIsSerial == LifecycleInv => CallbacksAreSerial
<1> SUFFICES ASSUME LifecycleInv PROVE CallbacksAreSerial
  OBVIOUS
<1>1. Cardinality(Live) =< 1
  <2>1. CASE Live = {}
    BY <2>1, FS_EmptySet
  <2>2. CASE Live # {}
    <3>1. PICK t : t \in Live
      BY <2>2
    <3>2. Live = {t}
      BY <3>1 DEF LifecycleInv, Single
    <3>3. Cardinality({t}) = 1
      BY ONLY FS_Singleton
    <3> QED BY <3>2, <3>3
  <2> QED BY <2>1, <2>2
<1>2. state = "open" => \A t \in Live : callLock = t /\ caller[t] \in {"waiting", "settling"}
  BY DEF LifecycleInv, Waited, Locked, Live
<1>3. state = "closed" => Live = {} /\ loop \in {"none", "done"}
  BY DEF LifecycleInv, Looped
<1> QED BY <1>1, <1>2, <1>3 DEF CallbacksAreSerial

(* At most one callback of the trainer is under way, its caller waits for it *)
(* even when interrupted, and a closed adapter has none, for any number of   *)
(* threads that call and close it (ManagedAsyncObservationLifecycle).        *)
THEOREM CallbacksSerial ==
    ASSUME "free" \notin Threads
    PROVE  LifecycleSpec => []CallbacksAreSerial
<1>1. LifecycleInv /\ [LifecycleNext]_lifecycleVars => LifecycleInv'
  BY LifecycleStepInv
<1> QED BY <1>1, LifecycleInitInv, InvIsSerial, PTL DEF LifecycleSpec

-----------------------------------------------------------------------------
(* Sequences of events.                                                      *)

LEMMA AppendToLast ==
    ASSUME NEW s \in Seq(Nat), NEW t \in Seq(Nat), NEW q \in Seq(Nat), NEW e \in Nat
    PROVE  s \o t \o Append(q, e) = Append(s \o t \o q, e)
OBVIOUS

LEMMA HeadMoves ==
    ASSUME NEW s \in Seq(Nat), NEW t \in Seq(Nat), t # <<>>
    PROVE  Append(s, Head(t)) \o Tail(t) = s \o t
OBVIOUS

LEMMA AscendingAppend ==
    ASSUME NEW s \in Seq(Nat), NEW e \in Nat, S!Ascending(s),
           \A i \in 1 .. Len(s) : s[i] < e
    PROVE  S!Ascending(Append(s, e)) /\ \A i \in 1 .. Len(s) + 1 : Append(s, e)[i] <= e
BY DEF S!Ascending

LEMMA ConsecutiveAppend ==
    ASSUME NEW s \in Seq(Nat), NEW e \in Nat, S!Consecutive(s),
           s # <<>> => s[Len(s)] + 1 = e
    PROVE  S!Consecutive(Append(s, e))
BY DEF S!Consecutive

-----------------------------------------------------------------------------
(* The stream: what a client was sent, is being replayed and has queued.     *)

Due(c) == sSent[c] \o sReplay[c] \o sQueue[c]

Follows(c) == sAt[c] \in {"replaying", "waiting"}

StreamTypes ==
    /\ sEmitted \in Nat /\ sBuffer \in Seq(Nat)
    /\ sAt \in [Processes -> {"away", "replaying", "waiting", "gone"}]
    /\ sReplay \in [Processes -> Seq(Nat)] /\ sQueue \in [Processes -> Seq(Nat)]
    /\ sSent \in [Processes -> Seq(Nat)]
    /\ sListed \subseteq Processes /\ sGap \in [Processes -> BOOLEAN]

(* The buffer ends with the last event, unless it was cleared. *)
Buffered ==
    /\ S!Consecutive(sBuffer)
    /\ sBuffer # <<>> => sBuffer[Len(sBuffer)] = sEmitted
    /\ \A i \in 1 .. Len(sBuffer) : sBuffer[i] <= sEmitted

(* A client that follows is listed, so that it misses nothing; only while it   *)
(* replays the buffer is there something to replay.                            *)
Listening ==
    \A c \in Processes :
        /\ sAt[c] = "away" => sSent[c] = <<>> /\ sReplay[c] = <<>> /\ sQueue[c] = <<>>
        /\ sAt[c] = "away" => c \notin sListed
        /\ sAt[c] = "waiting" => sReplay[c] = <<>>
        /\ Follows(c) => c \in sListed

InOrder ==
    \A c \in Processes :
        S!Ascending(Due(c)) /\ \A i \in 1 .. Len(Due(c)) : Due(c)[i] <= sEmitted

UpToDate ==
    \A c \in Processes :
        Follows(c) /\ ~sGap[c] =>
            /\ S!Consecutive(Due(c))
            /\ Due(c) # <<>> => Due(c)[Len(Due(c))] = sEmitted

StreamInv == StreamTypes /\ Buffered /\ Listening /\ InOrder /\ UpToDate

LEMMA DueType ==
    ASSUME StreamTypes, NEW c \in Processes
    PROVE  Due(c) \in Seq(Nat)
BY DEF StreamTypes, Due

LEMMA StreamInitInv == S!Init => StreamInv
<1> SUFFICES ASSUME S!Init PROVE StreamInv
  OBVIOUS
<1>1. StreamTypes
  BY DEF S!Init, StreamTypes
<1>2. Buffered
  BY DEF S!Init, Buffered, S!Consecutive
<1>3. \A c \in Processes : Due(c) = <<>>
  BY DEF S!Init, Due
<1>4. Listening
  BY DEF S!Init, Listening, Follows
<1>5. InOrder
  BY <1>3 DEF InOrder, S!Ascending
<1>6. UpToDate
  BY <1>3 DEF UpToDate, S!Consecutive
<1> QED
  BY <1>1, <1>2, <1>4, <1>5, <1>6 DEF StreamInv

LEMMA EmitInv ==
    ASSUME StreamInv, S!Emit
    PROVE  StreamInv'
<1>1. /\ sEmitted' = sEmitted + 1
      /\ sBuffer' = S!Kept(Append(sBuffer, sEmitted + 1))
      /\ sQueue' = [c \in Processes |-> IF c \in sListed /\ S!Room(c)
                                        THEN Append(sQueue[c], sEmitted + 1) ELSE sQueue[c]]
      /\ sGap' = [c \in Processes |-> sGap[c] \/ (c \in sListed /\ ~S!Room(c))]
      /\ UNCHANGED <<sAt, sReplay, sListed, sSent>>
  BY DEF S!Emit
<1>2. StreamTypes
  BY DEF StreamInv
<1>3. PICK e : e = sEmitted + 1
  OBVIOUS
<1>4. e \in Nat /\ sEmitted \in Nat /\ sEmitted < e /\ sEmitted' = e
  BY <1>1, <1>2, <1>3 DEF StreamTypes
<1>5. PICK s : s = Append(sBuffer, e)
  OBVIOUS
<1>6. /\ s \in Seq(Nat) /\ s # <<>> /\ S!Consecutive(s) /\ s[Len(s)] = e
      /\ \A i \in 1 .. Len(s) : s[i] <= e
  <2>1. sBuffer \in Seq(Nat) /\ (sBuffer # <<>> => sBuffer[Len(sBuffer)] + 1 = e)
    BY <1>2, <1>3 DEF StreamInv, Buffered, StreamTypes
  <2>2. S!Consecutive(s)
    BY <1>4, <1>5, <2>1, ConsecutiveAppend DEF StreamInv, Buffered
  <2>3. s \in Seq(Nat) /\ s # <<>> /\ s[Len(s)] = e /\ Len(s) = Len(sBuffer) + 1
    BY <1>4, <1>5, <2>1
  <2>4. \A i \in 1 .. Len(s) : s[i] <= e
    BY <1>4, <1>5, <2>1 DEF StreamInv, Buffered
  <2> QED
    BY <2>2, <2>3, <2>4
<1>7. sBuffer' = s \/ sBuffer' = Tail(s)
  BY <1>1, <1>3, <1>5 DEF S!Kept
<1>8. Buffered' /\ sBuffer' \in Seq(Nat)
  <2>1. CASE sBuffer' = s
    BY <1>4, <1>6, <2>1 DEF Buffered
  <2>2. CASE sBuffer' = Tail(s)
    <3>1. PICK t : t = Tail(s)
      OBVIOUS
    <3>2. /\ t \in Seq(Nat) /\ Len(t) = Len(s) - 1 /\ Len(s) \in Nat
          /\ \A i \in 1 .. Len(t) : t[i] = s[i + 1] /\ i + 1 \in 1 .. Len(s)
      BY <1>6, <3>1
    <3>3. S!Consecutive(t)
      <4>1. ASSUME NEW i \in 1 .. Len(t) - 1
            PROVE  t[i + 1] = t[i] + 1
        <5>1. /\ i \in 1 .. Len(t) /\ i + 1 \in 1 .. Len(t) /\ i + 1 \in 1 .. Len(s) - 1
          BY <3>2
        <5>2. PICK j : j = i + 1
          OBVIOUS
        <5>3. s[j + 1] = s[j] + 1
          BY <1>6, <5>1, <5>2 DEF S!Consecutive
        <5> QED
          BY <3>2, <5>1, <5>2, <5>3
      <4> QED
        BY <4>1 DEF S!Consecutive
    <3>4. t # <<>> => t[Len(t)] = e
      BY <1>6, <3>2
    <3>5. \A i \in 1 .. Len(t) : t[i] <= e
      BY <1>6, <3>2
    <3> QED
      BY <1>4, <2>2, <3>1, <3>2, <3>3, <3>4, <3>5 DEF Buffered
  <2> QED
    BY <1>7, <2>1, <2>2
<1>9. StreamTypes'
  BY <1>1, <1>2, <1>3, <1>4, <1>8 DEF StreamTypes
<1>10. ASSUME NEW c \in Processes
       PROVE  /\ Due(c)' = IF c \in sListed /\ S!Room(c) THEN Append(Due(c), e) ELSE Due(c)
              /\ Due(c) \in Seq(Nat)
  <2>1. /\ sSent[c] \in Seq(Nat) /\ sReplay[c] \in Seq(Nat) /\ sQueue[c] \in Seq(Nat)
    BY <1>2 DEF StreamTypes
  <2>2. sSent[c] \o sReplay[c] \o Append(sQueue[c], e)
            = Append(sSent[c] \o sReplay[c] \o sQueue[c], e)
    BY <1>4, <2>1, AppendToLast
  <2>3. sQueue'[c] = IF c \in sListed /\ S!Room(c) THEN Append(sQueue[c], e) ELSE sQueue[c]
    BY <1>1, <1>3
  <2> QED
    BY <1>1, <1>2, <2>2, <2>3, DueType DEF Due
<1>11. Listening'
  BY <1>1, <1>2 DEF StreamInv, Listening, Follows, StreamTypes
<1>12. InOrder'
  <2>1. ASSUME NEW c \in Processes
        PROVE  S!Ascending(Due(c)') /\ \A i \in 1 .. Len(Due(c)') : Due(c)'[i] <= e
    <3>1. PICK d : d = Due(c)
      OBVIOUS
    <3>2. /\ d \in Seq(Nat) /\ S!Ascending(d)
          /\ \A i \in 1 .. Len(d) : d[i] <= sEmitted
      BY <1>10, <3>1 DEF StreamInv, InOrder
    <3>3. \A i \in 1 .. Len(d) : d[i] < e /\ d[i] <= e
      BY <1>4, <3>2
    <3>4. CASE Due(c)' = d
      BY <3>2, <3>3, <3>4
    <3>5. CASE Due(c)' = Append(d, e)
      <4>1. S!Ascending(Append(d, e)) /\ \A i \in 1 .. Len(d) + 1 : Append(d, e)[i] <= e
        BY <1>4, <3>2, <3>3, AscendingAppend
      <4>2. Len(Append(d, e)) = Len(d) + 1
        BY <1>4, <3>2
      <4> QED
        BY <3>5, <4>1, <4>2
    <3> QED
      BY <1>10, <3>1, <3>4, <3>5
  <2> QED
    BY <1>4, <2>1 DEF InOrder
<1>13. UpToDate'
  <2>1. ASSUME NEW c \in Processes, Follows(c)', ~sGap'[c]
        PROVE  S!Consecutive(Due(c)') /\ (Due(c)' # <<>> => Due(c)'[Len(Due(c)')] = e)
    <3>1. Follows(c) /\ ~sGap[c] /\ c \in sListed /\ S!Room(c)
      BY <1>1, <1>2, <2>1 DEF StreamInv, Listening, Follows, StreamTypes
    <3>2. PICK d : d = Due(c)
      OBVIOUS
    <3>3. /\ d \in Seq(Nat) /\ S!Consecutive(d)
          /\ d # <<>> => d[Len(d)] + 1 = e
      BY <1>3, <1>10, <3>1, <3>2 DEF StreamInv, UpToDate
    <3>4. Due(c)' = Append(d, e)
      BY <1>10, <3>1, <3>2
    <3>5. S!Consecutive(Append(d, e))
      BY <1>4, <3>3, ConsecutiveAppend
    <3>6. Append(d, e)[Len(Append(d, e))] = e
      BY <1>4, <3>3
    <3> QED
      BY <3>4, <3>5, <3>6
  <2> QED
    BY <1>4, <2>1 DEF UpToDate
<1> QED
  BY <1>8, <1>9, <1>11, <1>12, <1>13 DEF StreamInv

(* The steps of a client, and Clear, leave what is due as it is.               *)
LEMMA SameDue ==
    ASSUME StreamInv, StreamTypes', Listening',
           UNCHANGED <<sEmitted, sGap>>,
           \A c \in Processes : Due(c)' = Due(c) \/ (sAt[c] = "away" /\ Due(c)' = sBuffer),
           \A c \in Processes : Follows(c)' => Follows(c) \/ Due(c)' = sBuffer,
           UNCHANGED sBuffer \/ sBuffer' = <<>>
    PROVE  StreamInv'
<1>1. sBuffer \in Seq(Nat) /\ sEmitted \in Nat
  BY DEF StreamInv, StreamTypes
<1>2. S!Ascending(sBuffer)
  BY <1>1 DEF StreamInv, Buffered, S!Ascending, S!Consecutive
<1>3. Buffered'
  <2>1. CASE UNCHANGED sBuffer
    BY <2>1 DEF StreamInv, Buffered
  <2>2. CASE sBuffer' = <<>>
    BY <2>2 DEF Buffered, S!Consecutive
  <2> QED
    BY <2>1, <2>2
<1>4. ASSUME NEW c \in Processes
      PROVE  S!Ascending(Due(c)') /\ \A i \in 1 .. Len(Due(c)') : Due(c)'[i] <= sEmitted
  <2>1. CASE Due(c)' = Due(c)
    BY <2>1 DEF StreamInv, InOrder
  <2>2. CASE Due(c)' = sBuffer
    BY <1>2, <2>2 DEF StreamInv, Buffered
  <2> QED
    BY <2>1, <2>2
<1>5. ASSUME NEW c \in Processes, Follows(c)', ~sGap[c]
      PROVE  /\ S!Consecutive(Due(c)')
             /\ Due(c)' # <<>> => Due(c)'[Len(Due(c)')] = sEmitted
  <2>1. CASE Due(c)' = sBuffer
    BY <2>1 DEF StreamInv, Buffered
  <2>2. CASE Follows(c) /\ Due(c)' = Due(c)
    BY <1>5, <2>2 DEF StreamInv, UpToDate
  <2> QED
    BY <1>5, <2>1, <2>2 DEF Follows
<1>6. InOrder'
  BY <1>4 DEF InOrder
<1>7. UpToDate'
  BY <1>5 DEF UpToDate
<1> QED
  BY <1>3, <1>6, <1>7 DEF StreamInv

LEMMA ClearInv ==
    ASSUME StreamInv, S!Clear
    PROVE  StreamInv'
<1>1. sBuffer' = <<>> /\ UNCHANGED <<sEmitted, sAt, sReplay, sQueue, sListed, sSent, sGap>>
  BY DEF S!Clear
<1>2. StreamTypes'
  BY <1>1 DEF StreamInv, StreamTypes
<1>3. Listening'
  BY <1>1 DEF StreamInv, Listening, Follows
<1>4. \A c \in Processes : Due(c)' = Due(c) /\ (Follows(c)' <=> Follows(c))
  BY <1>1 DEF Due, Follows
<1> QED
  BY <1>1, <1>2, <1>3, <1>4, SameDue

(* A copy that is sent piece by piece. *)
LEMMA YieldsFacts ==
    ASSUME StreamTypes, NEW c \in Processes, NEW s \in Seq(Nat), S!Yields(c, s)
    PROVE  /\ sAt' \in [Processes -> {"away", "replaying", "waiting", "gone"}]
           /\ sReplay' \in [Processes -> Seq(Nat)] /\ sSent' \in [Processes -> Seq(Nat)]
           /\ \A d \in Processes \ {c} :
                  sAt'[d] = sAt[d] /\ sReplay'[d] = sReplay[d] /\ sSent'[d] = sSent[d]
           /\ s = <<>> => sAt'[c] = "waiting" /\ UNCHANGED <<sReplay, sSent>>
           /\ s # <<>> => /\ sAt'[c] = "replaying" /\ sReplay'[c] = Tail(s)
                          /\ sSent'[c] = Append(sSent[c], Head(s))
<1>1. /\ sAt \in [Processes -> {"away", "replaying", "waiting", "gone"}]
      /\ sReplay \in [Processes -> Seq(Nat)] /\ sSent \in [Processes -> Seq(Nat)]
  BY DEF StreamTypes
<1>2. CASE s = <<>>
  <2>1. sAt' = [sAt EXCEPT ![c] = "waiting"] /\ UNCHANGED <<sReplay, sSent>>
    BY <1>2 DEF S!Yields
  <2> QED
    BY <1>1, <1>2, <2>1
<1>3. CASE s # <<>>
  <2>1. /\ sAt' = [sAt EXCEPT ![c] = "replaying"]
        /\ sReplay' = [sReplay EXCEPT ![c] = Tail(s)]
        /\ sSent' = [sSent EXCEPT ![c] = Append(sSent[c], Head(s))]
    BY <1>3 DEF S!Yields
  <2>2. Tail(s) \in Seq(Nat) /\ Append(sSent[c], Head(s)) \in Seq(Nat)
    BY <1>1, <1>3
  <2> QED
    BY <1>1, <1>3, <2>1, <2>2
<1> QED
  BY <1>2, <1>3

LEMMA SubscribeInv ==
    ASSUME StreamInv, NEW c \in Processes, S!Subscribe(c)
    PROVE  StreamInv'
<1>1. /\ sAt[c] = "away" /\ sListed' = sListed \cup {c} /\ S!Yields(c, sBuffer)
      /\ UNCHANGED <<sEmitted, sBuffer, sQueue, sGap>>
  BY DEF S!Subscribe
<1>2. StreamTypes
  BY DEF StreamInv
<1>3. /\ sBuffer \in Seq(Nat) /\ sSent[c] = <<>> /\ sReplay[c] = <<>> /\ sQueue[c] = <<>>
  BY <1>1, <1>2 DEF StreamInv, Listening, StreamTypes
<1>4. /\ sAt' \in [Processes -> {"away", "replaying", "waiting", "gone"}]
      /\ sReplay' \in [Processes -> Seq(Nat)] /\ sSent' \in [Processes -> Seq(Nat)]
      /\ \A d \in Processes \ {c} :
             sAt'[d] = sAt[d] /\ sReplay'[d] = sReplay[d] /\ sSent'[d] = sSent[d]
      /\ sBuffer = <<>> => sAt'[c] = "waiting" /\ UNCHANGED <<sReplay, sSent>>
      /\ sBuffer # <<>> => /\ sAt'[c] = "replaying" /\ sReplay'[c] = Tail(sBuffer)
                           /\ sSent'[c] = Append(sSent[c], Head(sBuffer))
  BY <1>1, <1>2, <1>3, YieldsFacts
<1>5. StreamTypes'
  BY <1>1, <1>2, <1>4 DEF StreamTypes
<1>6. Due(c)' = sBuffer
  <2>1. CASE sBuffer = <<>>
    BY <1>1, <1>3, <1>4, <2>1 DEF Due
  <2>2. CASE sBuffer # <<>>
    <3>1. sSent'[c] = Append(<<>>, Head(sBuffer)) /\ sReplay'[c] = Tail(sBuffer)
      BY <1>3, <1>4, <2>2
    <3>2. Append(<<>>, Head(sBuffer)) \o Tail(sBuffer) = <<>> \o sBuffer
      BY <1>3, <2>2, HeadMoves
    <3>3. sBuffer \o <<>> = sBuffer /\ <<>> \o sBuffer = sBuffer
      BY <1>3
    <3> QED
      BY <1>1, <1>3, <3>1, <3>2, <3>3 DEF Due
  <2> QED
    BY <2>1, <2>2
<1>7. \A d \in Processes \ {c} : Due(d)' = Due(d) /\ (Follows(d)' <=> Follows(d))
  BY <1>1, <1>4 DEF Due, Follows
<1>8. Listening'
  <2>1. sAt'[c] \in {"waiting", "replaying"} /\ c \in sListed'
    BY <1>1, <1>4
  <2>2. sAt'[c] = "waiting" => sReplay'[c] = <<>>
    BY <1>3, <1>4
  <2>3. ASSUME NEW d \in Processes \ {c}
        PROVE  /\ sAt'[d] = sAt[d] /\ sReplay'[d] = sReplay[d] /\ sSent'[d] = sSent[d]
               /\ sQueue'[d] = sQueue[d] /\ (d \in sListed' <=> d \in sListed)
    BY <1>1, <1>4
  <2> QED
    BY <2>1, <2>2, <2>3 DEF StreamInv, Listening, Follows
<1> QED
  BY <1>1, <1>5, <1>6, <1>7, <1>8, SameDue

LEMMA ReplaysInv ==
    ASSUME StreamInv, NEW c \in Processes, S!Replays(c)
    PROVE  StreamInv'
<1>1. /\ sAt[c] = "replaying" /\ S!Yields(c, sReplay[c])
      /\ UNCHANGED <<sEmitted, sBuffer, sQueue, sListed, sGap>>
  BY DEF S!Replays
<1>2. StreamTypes
  BY DEF StreamInv
<1>3. PICK r : r = sReplay[c]
  OBVIOUS
<1>4. r \in Seq(Nat) /\ sSent[c] \in Seq(Nat) /\ sQueue[c] \in Seq(Nat) /\ S!Yields(c, r)
  BY <1>1, <1>2, <1>3 DEF StreamTypes
<1>5. /\ sAt' \in [Processes -> {"away", "replaying", "waiting", "gone"}]
      /\ sReplay' \in [Processes -> Seq(Nat)] /\ sSent' \in [Processes -> Seq(Nat)]
      /\ \A d \in Processes \ {c} :
             sAt'[d] = sAt[d] /\ sReplay'[d] = sReplay[d] /\ sSent'[d] = sSent[d]
      /\ r = <<>> => sAt'[c] = "waiting" /\ UNCHANGED <<sReplay, sSent>>
      /\ r # <<>> => /\ sAt'[c] = "replaying" /\ sReplay'[c] = Tail(r)
                     /\ sSent'[c] = Append(sSent[c], Head(r))
  BY <1>2, <1>4, YieldsFacts
<1>6. StreamTypes'
  BY <1>1, <1>2, <1>5 DEF StreamTypes
<1>7. Due(c)' = Due(c)
  <2>1. CASE r = <<>>
    BY <1>1, <1>5, <2>1 DEF Due
  <2>2. CASE r # <<>>
    <3>1. Append(sSent[c], Head(r)) \o Tail(r) = sSent[c] \o r
      BY <1>4, <2>2, HeadMoves
    <3> QED
      BY <1>1, <1>3, <1>5, <2>2, <3>1 DEF Due
  <2> QED
    BY <2>1, <2>2
<1>8. \A d \in Processes \ {c} : Due(d)' = Due(d) /\ (Follows(d)' <=> Follows(d))
  BY <1>1, <1>5 DEF Due, Follows
<1>9. Follows(c) /\ c \in sListed'
  BY <1>1 DEF StreamInv, Listening, Follows
<1>10. Listening'
  <2>1. sAt'[c] \in {"waiting", "replaying"}
    BY <1>5
  <2>2. sAt'[c] = "waiting" => sReplay'[c] = <<>>
    BY <1>3, <1>5
  <2>3. ASSUME NEW d \in Processes \ {c}
        PROVE  /\ sAt'[d] = sAt[d] /\ sReplay'[d] = sReplay[d] /\ sSent'[d] = sSent[d]
               /\ sQueue'[d] = sQueue[d] /\ (d \in sListed' <=> d \in sListed)
    BY <1>1, <1>5
  <2> QED
    BY <1>9, <2>1, <2>2, <2>3 DEF StreamInv, Listening, Follows
<1> QED
  BY <1>1, <1>6, <1>7, <1>8, <1>9, <1>10, SameDue

LEMMA ReceivesInv ==
    ASSUME StreamInv, NEW c \in Processes, S!Receives(c)
    PROVE  StreamInv'
<1>1. /\ sAt[c] = "waiting" /\ sQueue[c] # <<>>
      /\ sSent' = [sSent EXCEPT ![c] = Append(sSent[c], Head(sQueue[c]))]
      /\ sQueue' = [sQueue EXCEPT ![c] = Tail(sQueue[c])]
      /\ UNCHANGED <<sEmitted, sBuffer, sAt, sReplay, sListed, sGap>>
  BY DEF S!Receives
<1>2. /\ sSent \in [Processes -> Seq(Nat)] /\ sQueue \in [Processes -> Seq(Nat)]
      /\ sReplay[c] = <<>>
  BY <1>1 DEF StreamInv, StreamTypes, Listening
<1>3. PICK q : q = sQueue[c]
  OBVIOUS
<1>4. q \in Seq(Nat) /\ q # <<>> /\ sSent[c] \in Seq(Nat)
  BY <1>1, <1>2, <1>3
<1>5. PICK s, t : s = Append(sSent[c], Head(q)) /\ t = Tail(q)
  OBVIOUS
<1>6. s \in Seq(Nat) /\ t \in Seq(Nat) /\ s \o t = sSent[c] \o q
  <2>1. s \in Seq(Nat) /\ t \in Seq(Nat)
    BY <1>4, <1>5
  <2>2. s \o t = sSent[c] \o q
    BY <1>4, <1>5, HeadMoves
  <2> QED
    BY <2>1, <2>2
<1>7. sSent' = [sSent EXCEPT ![c] = s] /\ sQueue' = [sQueue EXCEPT ![c] = t]
  BY <1>1, <1>3, <1>5
<1>8. StreamTypes'
  <2>1. sSent' \in [Processes -> Seq(Nat)]
    BY <1>6, <1>7 DEF StreamInv, StreamTypes
  <2>2. sQueue' \in [Processes -> Seq(Nat)]
    BY <1>6, <1>7 DEF StreamInv, StreamTypes
  <2>3. /\ sAt' \in [Processes -> {"away", "replaying", "waiting", "gone"}]
        /\ sReplay' \in [Processes -> Seq(Nat)]
        /\ sListed' \subseteq Processes
        /\ sGap' \in [Processes -> BOOLEAN]
    BY <1>1, <1>2 DEF StreamInv, StreamTypes
  <2>4. sEmitted' \in Nat /\ sBuffer' \in Seq(Nat)
    BY <1>1, <1>2 DEF StreamInv, StreamTypes
  <2> QED
    BY <2>1, <2>2, <2>3, <2>4 DEF StreamTypes
<1>9. Due(c)' = Due(c)
  <2>1. sSent'[c] = s /\ sQueue'[c] = t /\ sReplay'[c] = <<>>
    BY <1>1, <1>2, <1>7
  <2>2. s \o <<>> = s /\ sSent[c] \o <<>> = sSent[c]
    BY <1>4, <1>6
  <2> QED
    BY <1>2, <1>3, <1>6, <2>1, <2>2 DEF Due
<1>10. ASSUME NEW d \in Processes \ {c}
       PROVE  sSent'[d] = sSent[d] /\ sQueue'[d] = sQueue[d]
  BY <1>2, <1>7
<1>11. \A d \in Processes \ {c} : Due(d)' = Due(d)
  BY <1>1, <1>10 DEF Due
<1>12. \A d \in Processes : Follows(d)' <=> Follows(d)
  BY <1>1 DEF Follows
<1>13. Listening'
  BY <1>1, <1>10, <1>12 DEF StreamInv, Listening, Follows
<1> QED
  BY <1>1, <1>8, <1>9, <1>11, <1>12, <1>13, SameDue

LEMMA LeavesInv ==
    ASSUME StreamInv, NEW c \in Processes, S!Leaves(c)
    PROVE  StreamInv'
<1>1. /\ Follows(c) /\ sAt' = [sAt EXCEPT ![c] = "gone"]
      /\ sListed' \in {sListed, sListed \ {c}}
      /\ UNCHANGED <<sEmitted, sBuffer, sReplay, sQueue, sSent, sGap>>
  BY DEF S!Leaves, Follows
<1>2. StreamTypes'
  BY <1>1 DEF StreamInv, StreamTypes
<1>3. \A d \in Processes : Due(d)' = Due(d) /\ (Follows(d)' => Follows(d))
  BY <1>1 DEF Due, Follows, StreamInv, StreamTypes
<1>4. Listening'
  BY <1>1 DEF StreamInv, StreamTypes, Listening, Follows
<1> QED
  BY <1>1, <1>2, <1>3, <1>4, SameDue

(* What is due to a client is every event from the first one it was shown on, *)
(* in order and without a gap before its queue overflows (subscribe, emit).    *)
THEOREM StreamSeamless == S!Spec => []StreamIsSeamless
<1>1. StreamInv /\ [S!Next]_(S!vars) => StreamInv'
  <2> SUFFICES ASSUME StreamInv, [S!Next]_(S!vars) PROVE StreamInv'
    OBVIOUS
  <2>1. CASE UNCHANGED S!vars
    <3>1. UNCHANGED <<sEmitted, sBuffer, sAt, sReplay, sQueue, sListed, sSent, sGap>>
      BY <2>1 DEF S!vars
    <3>2. StreamTypes' /\ Buffered'
      BY <3>1 DEF StreamInv, StreamTypes, Buffered
    <3>3. Listening'
      BY <3>1 DEF StreamInv, Listening, Follows
    <3>4. \A c \in Processes : Due(c)' = Due(c) /\ (Follows(c)' <=> Follows(c))
      BY <3>1 DEF Due, Follows
    <3> QED
      BY <3>1, <3>2, <3>3, <3>4, SameDue
  <2>2. CASE S!Next
    BY <2>2, EmitInv, ClearInv, SubscribeInv, ReplaysInv, ReceivesInv, LeavesInv DEF S!Next
  <2> QED
    BY <2>1, <2>2
<1>2. StreamInv => StreamIsSeamless
  <2> SUFFICES ASSUME StreamInv, NEW c \in Processes
               PROVE  /\ S!Ascending(Due(c))
                      /\ sAt[c] \in {"replaying", "waiting"} /\ ~sGap[c] =>
                             /\ S!Consecutive(Due(c))
                             /\ Due(c) # <<>> => S!Last(Due(c)) = sEmitted
    BY DEF StreamIsSeamless, S!StreamIsSeamless, Due
  <2>1. S!Last(Due(c)) = Due(c)[Len(Due(c))]
    BY DEF S!Last
  <2> QED
    BY <2>1 DEF StreamInv, InOrder, UpToDate, Follows
<1> QED
  BY StreamInitInv, <1>1, <1>2, PTL DEF S!Spec

-----------------------------------------------------------------------------
(* The audit trail.                                                          *)

Entries == [prev : Nat, hash : Nat]

AuditTypes ==
    /\ aLines \in Seq(Entries) /\ aTold \in Seq(Entries)
    /\ aEnded \in BOOLEAN /\ aOverlap \in BOOLEAN
    /\ aLast \in [Processes -> Nat]
    /\ aAppends \in Nat /\ aAppends <= MaxAppends /\ aCuts \in Nat

(* Lines and what was told are in the order of the appends. *)
Numbered(s) ==
    /\ \A i \in 1 .. Len(s) : s[i] # A!Garbage => 0 < s[i].hash /\ s[i].hash <= aAppends
    /\ \A i, j \in 1 .. Len(s) :
           i < j /\ s[i] # A!Garbage /\ s[j] # A!Garbage => s[i].hash < s[j].hash

(* What was told is readable, and is in the file unless a line is not.       *)
Kept ==
    /\ \A k \in 1 .. Len(aTold) : aTold[k] # A!Garbage
    /\ (\A i \in 1 .. Len(aLines) : aLines[i] # A!Garbage) =>
           \A k \in 1 .. Len(aTold) : \E i \in 1 .. Len(aLines) : aLines[i] = aTold[k]
    /\ Len(aLines) <= Len(aTold) + aCuts

(* One process after another, and no append that was cut off: the process that *)
(* has the file open continues its last line.                                  *)
Chained ==
    aCuts = 0 /\ ~aOverlap =>
        /\ aEnded /\ A!Verifies
        /\ \A p \in Processes : aLast[p] # A!Down => aLast[p] = A!LoadLastHash
        /\ \A p, q \in Processes : aLast[p] # A!Down /\ aLast[q] # A!Down => p = q

AuditInv == AuditTypes /\ Numbered(aLines) /\ Numbered(aTold) /\ Kept /\ Chained

LEMMA AuditConstants ==
    /\ MaxAppends \in Nat /\ A!Down = MaxAppends + 1 /\ A!Down \in Nat
    /\ A!Garbage \in Entries /\ A!Garbage.hash = A!Down
BY PartsAssumption DEF PartsAssumption, A!Down, A!Garbage, Entries

LEMMA AuditInitInv == A!Init => AuditInv
<1> SUFFICES ASSUME A!Init PROVE AuditInv
  OBVIOUS
<1>1. AuditTypes
  <2>1. /\ aLines = <<>> /\ aTold = <<>> /\ aEnded = TRUE /\ aOverlap = FALSE
        /\ aLast = [p \in Processes |-> A!Down] /\ aAppends = 0 /\ aCuts = 0
    BY DEF A!Init
  <2>2. aLines \in Seq(Entries) /\ aTold \in Seq(Entries)
    BY <2>1
  <2>3. aLast \in [Processes -> Nat] /\ 0 <= MaxAppends
    BY <2>1, AuditConstants
  <2> QED
    BY <2>1, <2>2, <2>3 DEF AuditTypes
<1>2. aLines = <<>> /\ aTold = <<>> /\ aEnded = TRUE
      /\ \A p \in Processes : aLast[p] = A!Down
  BY DEF A!Init
<1>3. Numbered(aLines) /\ Numbered(aTold)
  BY <1>2 DEF Numbered
<1>4. Kept
  BY <1>2, <1>1 DEF Kept, AuditTypes
<1>5. Chained
  BY <1>2 DEF Chained, A!Verifies
<1> QED
  BY <1>1, <1>3, <1>4, <1>5 DEF AuditInv

(* A line is written behind the others, or makes the last one unreadable.      *)
LEMMA WithFacts ==
    ASSUME AuditTypes, NEW line \in Entries, NEW s, s = A!With(line)
    PROVE  /\ s \in Seq(Entries) /\ Len(s) <= Len(aLines) + 1
           /\ aEnded => s = Append(aLines, line)
           /\ ~aEnded => /\ Len(s) > 0 /\ s[Len(s)] = A!Garbage
                         /\ \A i \in 1 .. Len(s) - 1 : i \in 1 .. Len(aLines) /\ s[i] = aLines[i]
<1>1. aLines \in Seq(Entries) /\ A!Garbage \in Entries
  BY AuditConstants DEF AuditTypes
<1>2. CASE aEnded
  <2>1. s = Append(aLines, line)
    BY <1>2 DEF A!With
  <2> QED
    BY <1>1, <1>2, <2>1
<1>3. CASE ~aEnded
  <2>1. PICK f : f = SubSeq(aLines, 1, Len(aLines) - 1)
    OBVIOUS
  <2>2. s = Append(f, A!Garbage)
    BY <1>3, <2>1 DEF A!With, A!Front
  <2>3. /\ f \in Seq(Entries) /\ Len(f) <= Len(aLines)
        /\ \A i \in 1 .. Len(f) : i \in 1 .. Len(aLines) /\ f[i] = aLines[i]
    <3>1. CASE aLines = <<>>
      BY <1>1, <2>1, <3>1
    <3>2. CASE aLines # <<>>
      BY <1>1, <2>1, <3>2
    <3> QED
      BY <3>1, <3>2
  <2> QED
    BY <1>1, <1>3, <2>2, <2>3
<1> QED
  BY <1>2, <1>3

LEMMA EntryHash == ASSUME NEW s \in Seq(Entries)
                   PROVE  \A i \in 1 .. Len(s) : s[i] \in Entries /\ s[i].hash \in Nat
<1>1. \A i \in 1 .. Len(s) : s[i] \in Entries
  OBVIOUS
<1>2. \A x \in Entries : x.hash \in Nat
  BY DEF Entries
<1> QED
  BY <1>1, <1>2

(* An append takes the next number. *)
LEMMA NumberedAppend ==
    ASSUME NEW s \in Seq(Entries), NEW e \in Entries, Numbered(s), aAppends \in Nat,
           e # A!Garbage => e.hash = aAppends + 1,
           aAppends' = aAppends + 1
    PROVE  /\ \A i \in 1 .. Len(s) + 1 :
                  Append(s, e)[i] # A!Garbage =>
                      0 < Append(s, e)[i].hash /\ Append(s, e)[i].hash <= aAppends'
           /\ \A i, j \in 1 .. Len(s) + 1 :
                  i < j /\ Append(s, e)[i] # A!Garbage /\ Append(s, e)[j] # A!Garbage =>
                      Append(s, e)[i].hash < Append(s, e)[j].hash
<1>1. PICK t : t = Append(s, e)
  OBVIOUS
<1>2. /\ \A i \in 1 .. Len(s) : t[i] = s[i]
      /\ t[Len(s) + 1] = e /\ Len(s) \in Nat
  BY <1>1
<1>3. \A i \in 1 .. Len(s) : s[i] \in Entries /\ s[i].hash \in Nat
  BY EntryHash
<1>4. ASSUME NEW i \in 1 .. Len(s) + 1, t[i] # A!Garbage
      PROVE  0 < t[i].hash /\ t[i].hash <= aAppends + 1
  <2>1. CASE i \in 1 .. Len(s)
    BY <1>2, <1>3, <1>4, <2>1 DEF Numbered
  <2>2. CASE i = Len(s) + 1
    BY <1>2, <1>4, <2>2
  <2> QED
    BY <1>2, <2>1, <2>2
<1>5. ASSUME NEW i \in 1 .. Len(s) + 1, NEW j \in 1 .. Len(s) + 1,
             i < j, t[i] # A!Garbage, t[j] # A!Garbage
      PROVE  t[i].hash < t[j].hash
  <2>1. i \in 1 .. Len(s)
    BY <1>2, <1>5
  <2>2. CASE j \in 1 .. Len(s)
    BY <1>2, <1>5, <2>1, <2>2 DEF Numbered
  <2>3. CASE j = Len(s) + 1
    BY <1>2, <1>3, <1>5, <2>1, <2>3 DEF Numbered
  <2> QED
    BY <1>2, <2>2, <2>3
<1> QED
  BY <1>1, <1>4, <1>5

(* The same of a line that is written behind the others, or spoils the last.   *)
LEMMA NumberedWith ==
    ASSUME AuditTypes, Numbered(aLines), NEW line \in Entries,
           line # A!Garbage => line.hash = aAppends + 1,
           aAppends' = aAppends + 1, aLines' = A!With(line)
    PROVE  Numbered(aLines)'
<1>1. PICK s : s = A!With(line)
  OBVIOUS
<1>2. /\ s \in Seq(Entries)
      /\ aEnded => s = Append(aLines, line)
      /\ ~aEnded => /\ Len(s) > 0 /\ s[Len(s)] = A!Garbage
                    /\ \A i \in 1 .. Len(s) - 1 : i \in 1 .. Len(aLines) /\ s[i] = aLines[i]
  BY <1>1, WithFacts
<1>3. aAppends \in Nat /\ aLines \in Seq(Entries) /\ aLines' = s
  BY <1>1 DEF AuditTypes
<1>4. CASE aEnded
  <2>1. Len(s) = Len(aLines) + 1
    BY <1>2, <1>3, <1>4
  <2> QED
    BY <1>2, <1>3, <1>4, <2>1, NumberedAppend DEF Numbered
<1>5. CASE ~aEnded
  <2>1. \A i \in 1 .. Len(s) : s[i] # A!Garbage => i \in 1 .. Len(s) - 1
    BY <1>2, <1>5
  <2>2. \A i \in 1 .. Len(s) : s[i] # A!Garbage => i \in 1 .. Len(aLines) /\ s[i] = aLines[i]
    BY <1>2, <1>5, <2>1
  <2>3. \A i \in 1 .. Len(aLines) : aLines[i].hash \in Nat
    BY <1>3, EntryHash
  <2>4. \A i \in 1 .. Len(s) : s[i] # A!Garbage => 0 < s[i].hash /\ s[i].hash <= aAppends + 1
    BY <1>3, <2>2, <2>3 DEF Numbered
  <2>5. \A i, j \in 1 .. Len(s) :
            i < j /\ s[i] # A!Garbage /\ s[j] # A!Garbage => s[i].hash < s[j].hash
    BY <2>2 DEF Numbered
  <2> QED
    BY <1>3, <2>4, <2>5 DEF Numbered
<1> QED
  BY <1>4, <1>5

LEMMA NumberedStays ==
    ASSUME NEW s \in Seq(Entries), Numbered(s), aAppends \in Nat, aAppends' = aAppends + 1
    PROVE  /\ \A i \in 1 .. Len(s) :
                  s[i] # A!Garbage => 0 < s[i].hash /\ s[i].hash <= aAppends'
<1>1. \A i \in 1 .. Len(s) : s[i] \in Entries /\ s[i].hash \in Nat
  BY EntryHash
<1> QED
  BY <1>1 DEF Numbered

(* Where no line is spoiled afterwards, none was, and the line came last. *)
LEMMA CleanWith ==
    ASSUME AuditTypes, NEW line \in Entries, NEW s, s = A!With(line),
           \A i \in 1 .. Len(s) : s[i] # A!Garbage
    PROVE  /\ s = Append(aLines, line)
           /\ \A i \in 1 .. Len(aLines) : aLines[i] # A!Garbage
<1>1. aEnded
  <2>1. SUFFICES ASSUME ~aEnded PROVE FALSE
    OBVIOUS
  <2>2. s \in Seq(Entries) /\ Len(s) > 0 /\ s[Len(s)] = A!Garbage
    BY <2>1, WithFacts
  <2>3. Len(s) \in 1 .. Len(s)
    BY <2>2
  <2> QED
    BY <2>2, <2>3
<1>2. s = Append(aLines, line) /\ aLines \in Seq(Entries)
  BY <1>1, WithFacts DEF AuditTypes
<1>3. \A i \in 1 .. Len(aLines) : i \in 1 .. Len(s) /\ s[i] = aLines[i]
  BY <1>2
<1> QED
  BY <1>2, <1>3

LEMMA EntryFacts ==
    ASSUME AuditTypes, NEW p \in Processes, aAppends < MaxAppends
    PROVE  /\ A!Entry(p) \in Entries /\ A!Entry(p) # A!Garbage
           /\ A!Entry(p).hash = aAppends + 1 /\ A!Entry(p).prev = aLast[p]
           /\ aAppends + 1 <= MaxAppends /\ aAppends + 1 \in Nat
<1>1. aLast[p] \in Nat /\ aAppends \in Nat /\ MaxAppends \in Nat /\ A!Down = MaxAppends + 1
  BY AuditConstants DEF AuditTypes
<1>2. A!Entry(p) \in Entries /\ A!Entry(p).hash = aAppends + 1 /\ A!Entry(p).prev = aLast[p]
  BY <1>1 DEF A!Entry, Entries
<1>3. aAppends + 1 # A!Down
  BY <1>1
<1> QED
  BY <1>1, <1>2, <1>3, AuditConstants

LEMMA RecordInv ==
    ASSUME AuditInv, NEW p \in Processes, A!Record(p)
    PROVE  AuditInv'
<1>1. PICK e : e = A!Entry(p)
  OBVIOUS
<1>2. /\ aLast[p] # A!Down /\ aAppends < MaxAppends
      /\ aAppends' = aAppends + 1 /\ aTold' = Append(aTold, e)
      /\ aLines' = A!With(e) /\ aEnded' = TRUE
      /\ aLast' = [aLast EXCEPT ![p] = e.hash]
      /\ UNCHANGED <<aCuts, aOverlap>>
  BY <1>1 DEF A!Record
<1>3. AuditTypes
  BY DEF AuditInv
<1>4. /\ e \in Entries /\ e # A!Garbage /\ e.hash = aAppends + 1 /\ e.prev = aLast[p]
      /\ aAppends + 1 <= MaxAppends /\ aAppends + 1 \in Nat
  BY <1>1, <1>2, <1>3, EntryFacts
<1>5. PICK s : s = A!With(e)
  OBVIOUS
<1>6. s \in Seq(Entries) /\ Len(s) <= Len(aLines) + 1 /\ aLines' = s
  BY <1>2, <1>3, <1>4, <1>5, WithFacts
<1>7. /\ aLines \in Seq(Entries) /\ aTold \in Seq(Entries) /\ aAppends \in Nat
      /\ aLast \in [Processes -> Nat] /\ aCuts \in Nat
  BY <1>3 DEF AuditTypes
<1>8. PICK t : t = Append(aTold, e)
  OBVIOUS
<1>9. /\ t \in Seq(Entries) /\ Len(t) = Len(aTold) + 1 /\ t[Len(t)] = e /\ aTold' = t
      /\ \A k \in 1 .. Len(aTold) : t[k] = aTold[k]
  BY <1>2, <1>4, <1>7, <1>8
<1>10. AuditTypes'
  BY <1>2, <1>3, <1>4, <1>6, <1>7, <1>9 DEF AuditTypes
<1>11. Numbered(aLines)'
  BY <1>2, <1>3, <1>4, NumberedWith DEF AuditInv
<1>12. Numbered(aTold)'
  <2>1. /\ \A i \in 1 .. Len(aTold) + 1 :
               t[i] # A!Garbage => 0 < t[i].hash /\ t[i].hash <= aAppends'
        /\ \A i, j \in 1 .. Len(aTold) + 1 :
               i < j /\ t[i] # A!Garbage /\ t[j] # A!Garbage => t[i].hash < t[j].hash
    BY <1>2, <1>4, <1>7, <1>8, NumberedAppend DEF AuditInv
  <2> QED
    BY <1>9, <2>1 DEF Numbered
<1>13. Kept'
  <2>1. \A k \in 1 .. Len(t) : t[k] # A!Garbage
    <3>1. \A k \in 1 .. Len(aTold) : aTold[k] # A!Garbage
      BY DEF AuditInv, Kept
    <3>2. \A k \in 1 .. Len(t) : k \in 1 .. Len(aTold) \/ k = Len(t)
      BY <1>7, <1>9
    <3> QED
      BY <1>4, <1>9, <3>1, <3>2
  <2>2. Len(s) <= Len(t) + aCuts
    BY <1>6, <1>7, <1>9 DEF AuditInv, Kept
  <2>3. ASSUME \A i \in 1 .. Len(s) : s[i] # A!Garbage, NEW k \in 1 .. Len(t)
        PROVE  \E i \in 1 .. Len(s) : s[i] = t[k]
    <3>1. s = Append(aLines, e) /\ \A i \in 1 .. Len(aLines) : aLines[i] # A!Garbage
      BY <1>3, <1>4, <1>5, <2>3, CleanWith
    <3>2. /\ Len(s) = Len(aLines) + 1 /\ s[Len(s)] = e /\ Len(s) \in 1 .. Len(s)
          /\ \A i \in 1 .. Len(aLines) : i \in 1 .. Len(s) /\ s[i] = aLines[i]
      BY <1>4, <1>7, <3>1
    <3>3. CASE k = Len(t)
      BY <1>9, <3>2, <3>3
    <3>4. CASE k # Len(t)
      <4>1. k \in 1 .. Len(aTold) /\ t[k] = aTold[k]
        BY <1>7, <1>9, <3>4
      <4>2. PICK i \in 1 .. Len(aLines) : aLines[i] = aTold[k]
        BY <3>1, <4>1 DEF AuditInv, Kept
      <4> QED
        BY <3>2, <4>1, <4>2
    <3> QED
      BY <3>3, <3>4
  <2> QED
    BY <1>2, <1>6, <1>9, <2>1, <2>2, <2>3 DEF Kept
<1>14. Chained'
  <2>1. SUFFICES ASSUME aCuts = 0, ~aOverlap
                 PROVE  /\ aEnded' /\ A!Verifies'
                        /\ \A q \in Processes : aLast'[q] # A!Down => aLast'[q] = A!LoadLastHash'
                        /\ \A q, r \in Processes : aLast'[q] # A!Down /\ aLast'[r] # A!Down => q = r
    BY <1>2 DEF Chained
  <2>2. /\ aEnded /\ A!Verifies /\ aLast[p] = A!LoadLastHash
        /\ \A q \in Processes : aLast[q] # A!Down => q = p
    BY <1>2, <2>1 DEF AuditInv, Chained
  <2>3. /\ s = Append(aLines, e) /\ Len(s) = Len(aLines) + 1 /\ s[Len(s)] = e
        /\ \A i \in 1 .. Len(aLines) : s[i] = aLines[i]
    <3>1. s = Append(aLines, e)
      BY <1>3, <1>4, <1>5, <2>2, WithFacts
    <3> QED
      BY <1>4, <1>7, <3>1
  <2>4. \A i \in 1 .. Len(aLines) :
            aLines[i] # A!Garbage /\ aLines[i].prev = (IF i = 1 THEN 0 ELSE aLines[i - 1].hash)
    BY <1>7, <2>2 DEF A!Verifies
  <2>5. aLast[p] = IF aLines = <<>> THEN 0 ELSE aLines[Len(aLines)].hash
    <3>1. A!Last(aLines) = aLines[Len(aLines)]
      BY DEF A!Last
    <3>2. aLines # <<>> => Len(aLines) \in 1 .. Len(aLines)
      BY <1>7
    <3> QED
      BY <2>2, <2>4, <3>1, <3>2 DEF A!LoadLastHash
  <2>6. ASSUME NEW i \in 1 .. Len(s)
        PROVE  s[i] # A!Garbage /\ s[i].prev = (IF i = 1 THEN 0 ELSE s[i - 1].hash)
    <3>1. CASE i \in 1 .. Len(aLines)
      <4>1. i # 1 => i - 1 \in 1 .. Len(aLines)
        BY <1>7, <3>1
      <4> QED
        BY <2>3, <2>4, <3>1, <4>1
    <3>2. CASE i = Len(s)
      <4>1. CASE aLines = <<>>
        <5>1. Len(s) = 1
          BY <2>3, <4>1
        <5> QED
          BY <1>4, <2>3, <2>5, <3>2, <4>1, <5>1
      <4>2. CASE aLines # <<>>
        <5>1. /\ i - 1 = Len(aLines) /\ i # 1 /\ Len(aLines) \in 1 .. Len(aLines)
          BY <1>7, <2>3, <3>2, <4>2
        <5> QED
          BY <1>4, <2>3, <2>5, <3>2, <4>2, <5>1
      <4> QED
        BY <4>1, <4>2
    <3> QED
      BY <1>7, <2>3, <3>1, <3>2
  <2>7. A!Verifies'
    <3>1. DOMAIN s = 1 .. Len(s)
      BY <1>6
    <3> QED
      BY <1>6, <2>6, <3>1 DEF A!Verifies
  <2>8. A!LoadLastHash' = e.hash
    <3>1. A!Last(s) = e
      BY <2>3 DEF A!Last
    <3>2. s # <<>>
      BY <1>4, <1>7, <2>3
    <3> QED
      BY <1>4, <1>6, <3>1, <3>2 DEF A!LoadLastHash
  <2>9. \A q \in Processes : aLast'[q] # A!Down => q = p
    BY <1>2, <1>7, <2>2
  <2>10. aLast'[p] = e.hash
    BY <1>2, <1>7
  <2> QED
    BY <1>2, <2>7, <2>8, <2>9, <2>10
<1> QED
  BY <1>10, <1>11, <1>12, <1>13, <1>14 DEF AuditInv

(* An append that was cut off: what was told stays, and with it the order.     *)
LEMMA CutOffInv ==
    ASSUME AuditInv, NEW p \in Processes, A!IsCutOff(p)
    PROVE  AuditInv'
<1>1. PICK e : e = A!Entry(p)
  OBVIOUS
<1>2. /\ aAppends < MaxAppends /\ aAppends' = aAppends + 1 /\ aCuts' = aCuts + 1
      /\ UNCHANGED <<aTold, aOverlap>>
      /\ aLast' = aLast \/ aLast' = [aLast EXCEPT ![p] = A!Down]
      /\ aEnded' = aEnded \/ aEnded' \in BOOLEAN
      /\ aLines' = aLines \/ \E line \in {e, A!Garbage} : aLines' = A!With(line)
  BY <1>1 DEF A!IsCutOff
<1>3. AuditTypes
  BY DEF AuditInv
<1>4. /\ e \in Entries /\ e # A!Garbage /\ e.hash = aAppends + 1
      /\ aAppends + 1 <= MaxAppends /\ aAppends + 1 \in Nat
  BY <1>1, <1>2, <1>3, EntryFacts
<1>5. /\ aLines \in Seq(Entries) /\ aTold \in Seq(Entries) /\ aAppends \in Nat
      /\ aLast \in [Processes -> Nat] /\ aCuts \in Nat /\ A!Down \in Nat
      /\ aEnded \in BOOLEAN
  BY <1>3, AuditConstants DEF AuditTypes
<1>6. ASSUME aLines' = aLines
      PROVE  aLines' \in Seq(Entries) /\ Numbered(aLines)' /\ Kept'
  <2>1. Numbered(aLines)'
    <3>1. \A i \in 1 .. Len(aLines) :
              aLines[i] # A!Garbage => 0 < aLines[i].hash /\ aLines[i].hash <= aAppends'
      BY <1>2, <1>5, NumberedStays DEF AuditInv
    <3> QED
      BY <1>6, <3>1 DEF AuditInv, Numbered
  <2>2. Kept'
    <3>1. Len(aLines) <= Len(aTold) + aCuts'
      BY <1>2, <1>5 DEF AuditInv, Kept
    <3> QED
      BY <1>2, <1>6, <3>1 DEF AuditInv, Kept
  <2> QED
    BY <1>5, <1>6, <2>1, <2>2
<1>7. ASSUME \E line \in {e, A!Garbage} : aLines' = A!With(line)
      PROVE  aLines' \in Seq(Entries) /\ Numbered(aLines)' /\ Kept'
  <2>1. PICK line \in {e, A!Garbage} : aLines' = A!With(line)
    BY <1>7
  <2>2. line \in Entries /\ (line # A!Garbage => line.hash = aAppends + 1)
    BY <1>4, <2>1, AuditConstants
  <2>3. PICK s : s = A!With(line)
    OBVIOUS
  <2>4. s \in Seq(Entries) /\ Len(s) <= Len(aLines) + 1 /\ aLines' = s
    BY <1>3, <2>1, <2>2, <2>3, WithFacts
  <2>5. Numbered(aLines)'
    BY <1>2, <1>3, <2>1, <2>2, NumberedWith DEF AuditInv
  <2>6. Len(s) <= Len(aTold) + aCuts'
    BY <1>2, <1>5, <2>4 DEF AuditInv, Kept
  <2>7. ASSUME \A i \in 1 .. Len(s) : s[i] # A!Garbage, NEW k \in 1 .. Len(aTold)
        PROVE  \E i \in 1 .. Len(s) : s[i] = aTold[k]
    <3>1. s = Append(aLines, line) /\ \A i \in 1 .. Len(aLines) : aLines[i] # A!Garbage
      BY <1>3, <2>2, <2>3, <2>7, CleanWith
    <3>2. \A i \in 1 .. Len(aLines) : i \in 1 .. Len(s) /\ s[i] = aLines[i]
      BY <1>5, <2>2, <3>1
    <3>3. PICK i \in 1 .. Len(aLines) : aLines[i] = aTold[k]
      BY <2>7, <3>1 DEF AuditInv, Kept
    <3> QED
      BY <3>2, <3>3
  <2>8. Kept'
    BY <1>2, <2>4, <2>6, <2>7 DEF AuditInv, Kept
  <2> QED
    BY <2>4, <2>5, <2>8
<1>8. aLines' \in Seq(Entries) /\ Numbered(aLines)' /\ Kept'
  BY <1>2, <1>6, <1>7
<1>9. Numbered(aTold)'
  <2>1. \A i \in 1 .. Len(aTold) :
            aTold[i] # A!Garbage => 0 < aTold[i].hash /\ aTold[i].hash <= aAppends'
    BY <1>2, <1>5, NumberedStays DEF AuditInv
  <2> QED
    BY <1>2, <2>1 DEF AuditInv, Numbered
<1>10. AuditTypes'
  <2>1. aLast' \in [Processes -> Nat]
    BY <1>2, <1>5
  <2>2. aCuts' \in Nat /\ aEnded' \in BOOLEAN
    BY <1>2, <1>5
  <2> QED
    BY <1>2, <1>3, <1>4, <1>8, <2>1, <2>2 DEF AuditTypes
<1>11. Chained'
  BY <1>2, <1>5 DEF Chained
<1> QED
  BY <1>8, <1>9, <1>10, <1>11 DEF AuditInv

(* A process that starts reads the last line, where no other has the file open. *)
LEMMA OpenInv ==
    ASSUME AuditInv, NEW p \in Processes, A!Open(p)
    PROVE  AuditInv'
<1>1. PICK h : h = A!LoadLastHash
  OBVIOUS
<1>2. /\ aLast[p] = A!Down /\ aLast' = [aLast EXCEPT ![p] = h]
      /\ aOverlap' <=> (aOverlap \/ \E q \in Processes : aLast[q] # A!Down)
      /\ UNCHANGED <<aLines, aEnded, aAppends, aTold, aCuts>>
  BY <1>1 DEF A!Open
<1>3. /\ AuditTypes /\ aLast \in [Processes -> Nat] /\ aLines \in Seq(Entries)
      /\ aOverlap \in BOOLEAN
  BY DEF AuditInv, AuditTypes
<1>4. h \in Nat
  <2>1. CASE aLines = <<>>
    BY <1>1, <2>1 DEF A!LoadLastHash
  <2>2. CASE aLines # <<>>
    <3>1. Len(aLines) \in 1 .. Len(aLines)
      BY <1>3, <2>2
    <3>2. aLines[Len(aLines)].hash \in Nat
      BY <1>3, <3>1, EntryHash
    <3> QED
      BY <1>1, <3>2 DEF A!LoadLastHash, A!Last
  <2> QED
    BY <2>1, <2>2
<1>5. aOverlap' \in BOOLEAN
  BY DEF A!Open
<1>6. AuditTypes'
  BY <1>2, <1>3, <1>4, <1>5 DEF AuditTypes
<1>7. Numbered(aLines)' /\ Numbered(aTold)' /\ Kept'
  BY <1>2 DEF AuditInv, Numbered, Kept
<1>8. Chained'
  <2>1. SUFFICES ASSUME aCuts = 0, ~aOverlap'
                 PROVE  /\ aEnded' /\ A!Verifies'
                        /\ \A q \in Processes : aLast'[q] # A!Down => aLast'[q] = A!LoadLastHash'
                        /\ \A q, r \in Processes : aLast'[q] # A!Down /\ aLast'[r] # A!Down => q = r
    BY <1>2 DEF Chained
  <2>2. ~aOverlap /\ \A q \in Processes : aLast[q] = A!Down
    BY <1>2, <2>1
  <2>3. aEnded /\ A!Verifies
    BY <2>1, <2>2 DEF AuditInv, Chained
  <2>4. A!Verifies'
    BY <1>2, <2>3 DEF A!Verifies
  <2>5. A!LoadLastHash' = h
    BY <1>1, <1>2 DEF A!LoadLastHash
  <2>6. \A q \in Processes : q # p => aLast'[q] = A!Down
    BY <1>2, <1>3, <2>2
  <2>7. aLast'[p] = h
    BY <1>2, <1>3
  <2> QED
    BY <1>2, <2>3, <2>4, <2>5, <2>6, <2>7
<1> QED
  BY <1>6, <1>7, <1>8 DEF AuditInv

LEMMA StopInv ==
    ASSUME AuditInv, NEW p \in Processes, A!Stop(p)
    PROVE  AuditInv'
<1>1. /\ aLast' = [aLast EXCEPT ![p] = A!Down]
      /\ UNCHANGED <<aLines, aEnded, aAppends, aTold, aCuts, aOverlap>>
  BY DEF A!Stop
<1>2. aLast \in [Processes -> Nat] /\ A!Down \in Nat
  BY AuditConstants DEF AuditInv, AuditTypes
<1>3. aLast' \in [Processes -> Nat]
  BY <1>1, <1>2
<1>4. AuditTypes'
  BY <1>1, <1>3 DEF AuditInv, AuditTypes
<1>5. Numbered(aLines)' /\ Numbered(aTold)' /\ Kept'
  BY <1>1 DEF AuditInv, Numbered, Kept
<1>6. \A q \in Processes : aLast'[q] = aLast[q] \/ aLast'[q] = A!Down
  BY <1>1, <1>2
<1>7. A!LoadLastHash' = A!LoadLastHash /\ (A!Verifies' <=> A!Verifies)
  BY <1>1 DEF A!LoadLastHash, A!Verifies
<1>8. Chained'
  BY <1>1, <1>6, <1>7 DEF AuditInv, Chained
<1> QED
  BY <1>4, <1>5, <1>8 DEF AuditInv

LEMMA AuditStepInv == AuditInv /\ [A!Next]_(A!vars) => AuditInv'
<1> SUFFICES ASSUME AuditInv, [A!Next]_(A!vars) PROVE AuditInv'
  OBVIOUS
<1>1. CASE A!Next
  <2>1. PICK p \in Processes : A!Open(p) \/ A!Record(p) \/ A!IsCutOff(p) \/ A!Stop(p)
    BY <1>1 DEF A!Next
  <2> QED
    BY <2>1, OpenInv, RecordInv, CutOffInv, StopInv
<1>2. CASE UNCHANGED A!vars
  BY <1>2 DEF A!vars, AuditInv, AuditTypes, Numbered, Kept, Chained, A!LoadLastHash, A!Verifies
<1> QED
  BY <1>1, <1>2

(* The order of the hashes is the order of the lines, and of what was told.    *)
LEMMA AuditInvExact == AuditInv => AuditIsExact
<1> SUFFICES ASSUME AuditInv PROVE AuditIsExact
  OBVIOUS
<1>1. /\ aLines \in Seq(Entries) /\ aTold \in Seq(Entries) /\ aCuts \in Nat
      /\ DOMAIN aLines = 1 .. Len(aLines) /\ DOMAIN aTold = 1 .. Len(aTold)
      /\ Len(aLines) \in Nat /\ Len(aTold) \in Nat
  BY DEF AuditInv, AuditTypes
<1>2. aCuts = 0 /\ ~aOverlap => A!Verifies
  BY DEF AuditInv, Chained
<1>3. ASSUME A!Verifies
      PROVE  \A k \in DOMAIN aTold : \E i \in DOMAIN aLines : aLines[i] = aTold[k]
  <2>1. \A i \in 1 .. Len(aLines) : aLines[i] # A!Garbage
    BY <1>1, <1>3 DEF A!Verifies
  <2> QED
    BY <1>1, <2>1 DEF AuditInv, Kept
<1>4. ASSUME A!Verifies, NEW i \in DOMAIN aLines, NEW j \in DOMAIN aLines,
             NEW k \in DOMAIN aTold, NEW m \in DOMAIN aTold,
             aLines[i] = aTold[k], aLines[j] = aTold[m]
      PROVE  i < j <=> k < m
  <2>1. /\ i \in 1 .. Len(aLines) /\ j \in 1 .. Len(aLines)
        /\ k \in 1 .. Len(aTold) /\ m \in 1 .. Len(aTold)
        /\ i \in Nat /\ j \in Nat /\ k \in Nat /\ m \in Nat
    BY <1>1
  <2>2. aTold[k] # A!Garbage /\ aTold[m] # A!Garbage
    BY <2>1 DEF AuditInv, Kept
  <2>3. aLines[i] # A!Garbage /\ aLines[j] # A!Garbage
    BY <1>4, <2>2
  <2>4. aLines[i].hash \in Nat /\ aLines[j].hash \in Nat
    BY <1>1, <2>1, EntryHash
  <2>5. /\ i < j => aLines[i].hash < aLines[j].hash
        /\ j < i => aLines[j].hash < aLines[i].hash
    BY <2>1, <2>3 DEF AuditInv, Numbered
  <2>6. /\ k < m => aTold[k].hash < aTold[m].hash
        /\ m < k => aTold[m].hash < aTold[k].hash
    BY <2>1, <2>2 DEF AuditInv, Numbered
  <2>7. PICK x \in Nat : x = aLines[i].hash
    BY <2>4
  <2>8. PICK y \in Nat : y = aLines[j].hash
    BY <2>4
  <2>9. /\ (i < j => x < y) /\ (j < i => y < x) /\ (i = j => x = y)
        /\ (k < m => x < y) /\ (m < k => y < x) /\ (k = m => x = y)
    BY <1>4, <2>5, <2>6, <2>7, <2>8
  <2> QED
    BY <2>1, <2>7, <2>8, <2>9
<1>5. Len(aLines) =< Len(aTold) + aCuts
  BY DEF AuditInv, Kept
<1> QED
  BY <1>2, <1>3, <1>4, <1>5 DEF AuditIsExact, A!AuditIsExact

(* MCParts.AuditIsExact, for every number of processes, appends and cuts:      *)
(* record, verify_integrity and _load_last_hash of agents/audit.py.            *)
THEOREM AuditExact == A!Spec => []AuditIsExact
<1>1. A!Init => AuditInv
  BY AuditInitInv
<1>2. AuditInv /\ [A!Next]_(A!vars) => AuditInv'
  BY AuditStepInv
<1>3. AuditInv => AuditIsExact
  BY AuditInvExact
<1> QED
  BY <1>1, <1>2, <1>3, PTL DEF A!Spec

-----------------------------------------------------------------------------
(* The journal of a training group.                                          *)

(* A set that has zero and the successor of each of its numbers has them all. *)
LEMMA NatSetInduction ==
    ASSUME NEW N, 0 \in N, \A n \in Nat : n \in N => n + 1 \in N
    PROVE  Nat \subseteq N
<1> SUFFICES ASSUME Nat \ N # {} PROVE FALSE
  OBVIOUS
<1>1. PICK m \in Nat \ N : \A n \in Nat \ N : <<n, m>> \notin OpToRel(<, Nat)
  BY NatLessThanWellFounded, WFMin
<1>2. \A n \in Nat \ N : ~ (n < m)
  BY <1>1 DEF OpToRel
<1>3. m # 0 /\ m - 1 \in Nat /\ m - 1 < m /\ m = (m - 1) + 1
  OBVIOUS
<1>4. m - 1 \in N
  BY <1>2, <1>3
<1> QED
  BY <1>3, <1>4

\* What reading the first rows of a file leads to, one row after another.
Upto(w, n, g) ==
    g = [k \in 0 .. n |-> IF k = 0 THEN O!InitialState ELSE O!ReadRow(g[k - 1], w[k])]

LEMMA UptoFacts ==
    ASSUME NEW w, NEW n \in Nat, NEW g, Upto(w, n, g)
    PROVE  g[0] = O!InitialState /\ \A k \in 1 .. n : g[k] = O!ReadRow(g[k - 1], w[k])
<1>1. 0 \in 0 .. n /\ \A k \in 1 .. n : k \in 0 .. n /\ k # 0
  OBVIOUS
<1> QED
  BY <1>1 DEF Upto

LEMMA UptoExists == ASSUME NEW w PROVE \A n \in Nat : \E g : Upto(w, n, g)
<1> DEFINE N == {n \in Nat : \E g : Upto(w, n, g)}
<1>1. 0 \in N
  <2>1. PICK g : g = [k \in 0 .. 0 |-> O!InitialState]
    OBVIOUS
  <2>2. g = [k \in 0 .. 0 |-> IF k = 0 THEN O!InitialState ELSE O!ReadRow(g[k - 1], w[k])]
    BY <2>1
  <2> QED
    BY <2>2 DEF Upto
<1>2. ASSUME NEW n \in Nat, n \in N PROVE n + 1 \in N
  <2>1. PICK g : Upto(w, n, g)
    BY <1>2
  <2>2. PICK h : h = [k \in 0 .. n + 1 |-> IF k = n + 1 THEN O!ReadRow(g[n], w[n + 1]) ELSE g[k]]
    OBVIOUS
  <2>3. g[0] = O!InitialState /\ \A k \in 1 .. n : g[k] = O!ReadRow(g[k - 1], w[k])
    BY <2>1, UptoFacts
  <2>4. /\ h[0] = g[0] /\ h[n + 1] = O!ReadRow(g[n], w[n + 1])
        /\ \A k \in 0 .. n : h[k] = g[k]
    BY <2>2
  <2>5. ASSUME NEW k \in 0 .. n + 1
        PROVE  h[k] = IF k = 0 THEN O!InitialState ELSE O!ReadRow(h[k - 1], w[k])
    <3>1. CASE k = 0
      BY <2>3, <2>4, <3>1
    <3>2. CASE k = n + 1
      BY <2>4, <3>2
    <3>3. CASE k \in 1 .. n
      <4>1. k \in 0 .. n /\ k - 1 \in 0 .. n /\ k # 0
        BY <3>3
      <4> QED
        BY <2>3, <2>4, <3>3, <4>1
    <3> QED
      BY <3>1, <3>2, <3>3
  <2>6. h = [k \in 0 .. n + 1 |-> IF k = 0 THEN O!InitialState ELSE O!ReadRow(h[k - 1], w[k])]
    BY <2>2, <2>5
  <2> QED
    BY <2>6 DEF Upto
<1>3. Nat \subseteq N
  <2> HIDE DEF N
  <2> QED
    BY <1>1, <1>2, NatSetInduction
<1> QED
  BY <1>3

(* Reading the same rows leads to the same.                                   *)
LEMMA UptoAgrees ==
    ASSUME NEW v, NEW w, NEW n \in Nat, NEW m \in Nat, n <= m,
           NEW g, Upto(v, n, g), NEW h, Upto(w, m, h), \A k \in 1 .. n : v[k] = w[k]
    PROVE  g[n] = h[n]
<1> DEFINE N == {k \in Nat : k <= n => g[k] = h[k]}
<1>1. /\ g[0] = O!InitialState /\ \A k \in 1 .. n : g[k] = O!ReadRow(g[k - 1], v[k])
      /\ h[0] = O!InitialState /\ \A k \in 1 .. m : h[k] = O!ReadRow(h[k - 1], w[k])
  BY UptoFacts
<1>2. 0 \in N
  BY <1>1
<1>3. ASSUME NEW k \in Nat, k \in N PROVE k + 1 \in N
  <2>1. SUFFICES ASSUME k + 1 <= n PROVE g[k + 1] = h[k + 1]
    OBVIOUS
  <2>2. k + 1 \in 1 .. n /\ k + 1 \in 1 .. m /\ (k + 1) - 1 = k /\ g[k] = h[k]
    BY <1>3, <2>1
  <2> QED
    BY <1>1, <2>2
<1>4. Nat \subseteq N
  <2> HIDE DEF N
  <2> QED
    BY <1>2, <1>3, NatSetInduction
<1> QED
  BY <1>4

LEMMA ReadIs == ASSUME NEW w, Len(w) \in Nat
                PROVE  \E g : Upto(w, Len(w), g) /\ O!Read(w) = g[Len(w)]
<1> DEFINE Reads[n \in 0 .. Len(w)] ==
               IF n = 0 THEN O!InitialState ELSE O!ReadRow(Reads[n - 1], w[n])
<1>1. O!Read(w) = Reads[Len(w)]
  BY DEF O!Read
<1>2. PICK g : Upto(w, Len(w), g)
  BY UptoExists
<1>3. Reads = CHOOSE f : f = [n \in 0 .. Len(w) |->
                  IF n = 0 THEN O!InitialState ELSE O!ReadRow(f[n - 1], w[n])]
  OBVIOUS
<1>4. Upto(w, Len(w), Reads)
  BY <1>2, <1>3 DEF Upto
<1> QED
  BY <1>1, <1>4

LEMMA ReadFirst == O!Read(<<>>) = O!InitialState
<1>1. Len(<<>>) = 0
  OBVIOUS
<1>2. PICK g : Upto(<<>>, 0, g) /\ O!Read(<<>>) = g[0]
  BY <1>1, ReadIs
<1> QED
  BY <1>2, UptoFacts

(* One row more is applied to what the rows before it led to.                  *)
LEMMA ReadNext ==
    ASSUME NEW R, NEW w \in Seq(R), NEW row \in R
    PROVE  O!Read(Append(w, row)) = O!ReadRow(O!Read(w), row)
<1>1. PICK v : v = Append(w, row)
  OBVIOUS
<1>2. /\ Len(w) \in Nat /\ Len(v) = Len(w) + 1 /\ Len(v) \in Nat
      /\ v[Len(w) + 1] = row /\ \A k \in 1 .. Len(w) : w[k] = v[k]
  BY <1>1
<1>3. PICK g : Upto(w, Len(w), g) /\ O!Read(w) = g[Len(w)]
  BY <1>2, ReadIs
<1>4. PICK h : Upto(v, Len(v), h) /\ O!Read(v) = h[Len(v)]
  BY <1>2, ReadIs
<1>5. g[Len(w)] = h[Len(w)]
  BY <1>2, <1>3, <1>4, UptoAgrees
<1>6. h[Len(v)] = O!ReadRow(h[Len(v) - 1], v[Len(v)])
  <2>1. Len(v) \in 1 .. Len(v)
    BY <1>2
  <2> QED
    BY <1>2, <1>4, <2>1, UptoFacts
<1>7. Len(v) - 1 = Len(w) /\ v[Len(v)] = row
  BY <1>2
<1> QED
  BY <1>1, <1>3, <1>4, <1>5, <1>6, <1>7

Kinds == {"open", "scored", "strange"}
Said == O!Statuses \cup {""}
HowEnded == {"returned", "raised", ""}
Events == {"group_started", "group_observed", "sample_started", "sample_execute_started",
           "group_finished"}

JournalRows ==
    [event : Events, group : Nat, seq : Nat, sample : Int, status : Said,
     finish : HowEnded, records : Seq(Kinds)]

Readings ==
    [phase : O!Phases \cup {"invalid"}, group : Nat, samples : Nat, seq : Nat,
     groups : Seq(Nat \X Said)]

\* Where no call is under way that the journal was told of.
Out == {"idle", "starting", "dead"}

\* Where the trainer is between begin and the except clause.
Inside == {"observing", "generating", "sampling", "admitting", "marking", "executing"}

GroupTypes ==
    /\ oPc \in Out \cup Inside \cup {"beginning", "finishing", "filing"}
    /\ oGroup \in Nat /\ oActive \in BOOLEAN /\ oRecords \in Seq(Kinds)
    /\ oStatus \in O!Statuses /\ oFinish \in {"returned", "raised"}
    /\ oEvidence \in Seq(Nat \X Said)
    /\ oRows \in Seq(JournalRows) /\ oMem \in Readings
    /\ oTorn \in BOOLEAN /\ oPoisoned \in BOOLEAN /\ oOpen \in BOOLEAN

(* A journal that is not poisoned knows what its file says. *)
Readable ==
    /\ O!Reading \in Readings /\ O!Reading.phase # "invalid" /\ oMem.phase # "invalid"
    /\ ~oPoisoned => O!Reading = oMem

(* Each marker is in the file before its callback is called. *)
HasMarkers ==
    /\ \A c \in oCalled :
        /\ c[1] = "begin" => O!Marker("group_started", c[2], 0)
        /\ c[1] = "execute" => O!Marker("sample_execute_started", c[2], c[3] - 1)
    /\ oPc = "beginning" => O!Marker("group_started", oGroup, 0)
    /\ oPc = "executing" => O!Marker("sample_execute_started", oGroup, Len(oRecords) - 1)

(* What the records of the group say of its samples, and status of the group. *)
RecordsTrue ==
    /\ \A i \in 1 .. Len(oRecords) :
           oRecords[i] = "scored" => <<"execute", oGroup, i>> \in oReturned
    /\ ~oActive => oRecords = <<>>
    /\ oPc \in Inside => oActive
    /\ oPc \in {"finishing", "filing"} /\ oStatus = "completed" => Len(oRecords) = GroupSize
    /\ oPc = "filing" /\ oFinish = "returned" => <<"finish", oGroup, 0>> \in oReturned

Complete(g) ==
    /\ <<"finish", g, 0>> \in oReturned
    /\ \A i \in 1 .. GroupSize : <<"execute", g, i>> \in oReturned

CompleteAreTrue == \A e \in O!Range(O!Reading.groups) : e[2] = "completed" => Complete(e[1])

\* An ended group that the file does not tell as the trainer does.
Untold == O!Range(oEvidence) \ O!Range(O!Reading.groups)

(* After such a group no row can be written any more. *)
UntoldIsLast ==
    /\ \A k \in 1 .. Len(oRows) : oRows[k].group <= oGroup
    /\ oPc \notin Out => oMem.phase # "none"
    /\ \A e \in Untold :
        /\ e[1] \in Nat /\ e[2] # "completed"
        /\ \A k \in 1 .. Len(oRows) : oRows[k].group <= e[1]
        /\ oPc \in Out /\ (oPoisoned \/ ~oOpen \/ oMem.phase # "none")

GroupInv ==
    GroupTypes /\ Readable /\ HasMarkers /\ RecordsTrue /\ CompleteAreTrue /\ UntoldIsLast

LEMMA GroupInitInv == O!Init => GroupInv
<1> SUFFICES ASSUME O!Init PROVE GroupInv
  OBVIOUS
<1>1. /\ oPc = "idle" /\ oGroup = 0 /\ oActive = FALSE /\ oRecords = <<>>
      /\ oStatus = "failed" /\ oFinish = "raised" /\ oEvidence = <<>>
      /\ oRows = <<>> /\ oTorn = FALSE /\ oMem = O!InitialState
      /\ oPoisoned = FALSE /\ oOpen = TRUE /\ oCalled = {} /\ oReturned = {}
  BY DEF O!Init
<1>2. \A X : <<>> \in Seq(X) /\ Len(<<>>) = 0
  OBVIOUS
<1>3. O!InitialState \in Readings /\ O!InitialState.phase # "invalid" /\ O!InitialState.groups = <<>>
  BY <1>2 DEF O!InitialState, Readings, O!Phases
<1>4. O!Reading = O!InitialState
  BY <1>1, ReadFirst DEF O!Reading
<1>5. GroupTypes
  BY <1>1, <1>2, <1>3 DEF GroupTypes, Out, O!Statuses
<1>6. Readable
  BY <1>1, <1>3, <1>4 DEF Readable
<1>7. HasMarkers
  BY <1>1 DEF HasMarkers
<1>8. RecordsTrue
  BY <1>1, <1>2 DEF RecordsTrue, Inside
<1>9. O!Range(O!Reading.groups) = {} /\ O!Range(oEvidence) = {}
  BY <1>1, <1>3, <1>4 DEF O!Range
<1>10. CompleteAreTrue
  BY <1>9 DEF CompleteAreTrue
<1>11. UntoldIsLast
  BY <1>1, <1>2, <1>9 DEF UntoldIsLast, Untold, Out
<1> QED
  BY <1>5, <1>6, <1>7, <1>8, <1>10, <1>11 DEF GroupInv

LEMMA RowFacts ==
    ASSUME GroupTypes, NEW event \in Events, NEW sample \in Int, NEW row, row = O!Row(event, sample)
    PROVE  /\ row \in JournalRows /\ row.seq = oMem.seq /\ row.event = event
           /\ row.group = oGroup /\ row.sample = sample
<1>1. oGroup \in Nat /\ oMem.seq \in Nat
  BY DEF GroupTypes, Readings
<1>2. <<>> \in Seq(Kinds)
  OBVIOUS
<1> QED
  BY <1>1, <1>2 DEF O!Row, JournalRows, Said, HowEnded

LEMMA FinalTyped ==
    ASSUME NEW event \in Events, NEW number \in Nat, NEW place \in Nat, NEW said \in Said,
           NEW finish \in HowEnded, NEW list \in Seq(Kinds)
    PROVE  [event |-> event, group |-> number, seq |-> place, sample |-> 0,
            status |-> said, finish |-> finish, records |-> list] \in JournalRows
BY DEF JournalRows

LEMMA FinalFacts ==
    ASSUME GroupTypes, NEW row, row = O!FinalRow
    PROVE  /\ row \in JournalRows /\ row.seq = oMem.seq /\ row.event = "group_finished"
           /\ row.group = oGroup /\ row.status = oStatus /\ row.finish = oFinish
           /\ row.records = oRecords
<1>1. /\ oGroup \in Nat /\ oMem.seq \in Nat /\ oStatus \in Said /\ oRecords \in Seq(Kinds)
      /\ oFinish \in HowEnded
  BY DEF GroupTypes, Readings, Said, HowEnded
<1>2. row = [event |-> "group_finished", group |-> oGroup, seq |-> oMem.seq, sample |-> 0,
             status |-> oStatus, finish |-> oFinish, records |-> oRecords]
  BY DEF O!FinalRow, O!Row
<1>3. "group_finished" \in Events /\ 0 \in Int
  BY DEF Events
<1>4. row \in JournalRows
  BY <1>1, <1>2, <1>3, FinalTyped
<1> QED
  BY <1>2, <1>4

(* Each event has its phase, and a final row its place among the groups.       *)
PhaseAfter(event) ==
    CASE event = "group_started" -> "started"
      [] event = "group_observed" -> "observed"
      [] event = "sample_started" -> "sample_started"
      [] event = "sample_execute_started" -> "executed"
      [] OTHER -> "none"

LEMMA NoSamples ==
    ASSUME NEW s \in Readings
    PROVE  /\ [s EXCEPT !.samples = 0] \in Readings
           /\ [s EXCEPT !.samples = 0].phase = s.phase
           /\ [s EXCEPT !.samples = 0].groups = s.groups
<1>1. \A X, Y : \A r \in [phase : X, group : Nat, samples : Nat, seq : Nat, groups : Y] :
          /\ [r EXCEPT !.samples = 0] \in [phase : X, group : Nat, samples : Nat, seq : Nat, groups : Y]
          /\ [r EXCEPT !.samples = 0].phase = r.phase
          /\ [r EXCEPT !.samples = 0].groups = r.groups
  OBVIOUS
<1> QED
  BY <1>1 DEF Readings

LEMMA AppliedFacts ==
    ASSUME NEW s \in Readings, NEW row \in JournalRows
    PROVE  /\ O!Applied(s, row) \in Readings
           /\ O!Applied(s, row).phase = PhaseAfter(row.event)
           /\ O!Applied(s, row).phase # "invalid"
           /\ O!Applied(s, row).phase = "none" <=> row.event = "group_finished"
           /\ O!Applied(s, row).groups =
                  IF row.event = "group_finished" THEN Append(s.groups, <<row.group, row.status>>)
                  ELSE s.groups
<1>1. /\ row.event \in Events /\ row.group \in Nat /\ row.status \in Said
      /\ s.seq + 1 \in Nat /\ s.samples + 1 \in Nat /\ s.groups \in Seq(Nat \X Said)
      /\ s.group \in Nat /\ s.samples \in Nat /\ s.phase \in O!Phases \cup {"invalid"}
  <2>1. row.event \in Events /\ row.group \in Nat /\ row.status \in Said
    BY DEF JournalRows
  <2>2. /\ s.seq \in Nat /\ s.samples \in Nat /\ s.groups \in Seq(Nat \X Said)
        /\ s.group \in Nat /\ s.phase \in O!Phases \cup {"invalid"}
    BY DEF Readings
  <2> QED
    BY <2>1, <2>2
<1>2. PICK next : next = [s EXCEPT !.seq = s.seq + 1]
  OBVIOUS
<1>3. /\ next \in Readings /\ next.groups = s.groups /\ next.phase = s.phase
      /\ next.group = s.group /\ next.samples = s.samples
  BY <1>1, <1>2 DEF Readings
<1>4. CASE row.event = "group_started"
  <2>1. O!Applied(s, row) = [next EXCEPT !.phase = "started", !.group = row.group, !.samples = 0]
    BY <1>2, <1>4 DEF O!Applied
  <2>2. PICK one : one = [next EXCEPT !.phase = "started"]
    OBVIOUS
  <2>3. one \in Readings /\ one.phase = "started" /\ one.groups = s.groups
    BY <1>3, <2>2 DEF Readings, O!Phases
  <2>4. PICK two : two = [one EXCEPT !.group = row.group]
    OBVIOUS
  <2>5. two \in Readings /\ two.phase = "started" /\ two.groups = s.groups
    BY <1>1, <2>3, <2>4 DEF Readings
  <2>6. O!Applied(s, row) = [two EXCEPT !.samples = 0]
    BY <2>1, <2>2, <2>4
  <2>7. O!Applied(s, row) \in Readings
    BY <2>5, <2>6, NoSamples
  <2>8. O!Applied(s, row).phase = two.phase /\ O!Applied(s, row).groups = two.groups
    BY <2>5, <2>6 DEF Readings
  <2> QED
    BY <1>4, <2>5, <2>7, <2>8 DEF PhaseAfter
<1>5. CASE row.event = "group_observed"
  <2>1. O!Applied(s, row) = [next EXCEPT !.phase = "observed"]
    BY <1>2, <1>5 DEF O!Applied
  <2> QED
    BY <1>1, <1>3, <1>5, <2>1 DEF Readings, O!Phases, PhaseAfter
<1>6. CASE row.event = "sample_started"
  <2>1. O!Applied(s, row) = [next EXCEPT !.phase = "sample_started", !.samples = s.samples + 1]
    BY <1>2, <1>6 DEF O!Applied
  <2> QED
    BY <1>1, <1>3, <1>6, <2>1 DEF Readings, O!Phases, PhaseAfter
<1>7. CASE row.event = "sample_execute_started"
  <2>1. O!Applied(s, row) = [next EXCEPT !.phase = "executed"]
    BY <1>2, <1>7 DEF O!Applied
  <2> QED
    BY <1>1, <1>3, <1>7, <2>1 DEF Readings, O!Phases, PhaseAfter
<1>8. CASE row.event = "group_finished"
  <2>1. PICK told : told = Append(s.groups, <<row.group, row.status>>)
    OBVIOUS
  <2>2. told \in Seq(Nat \X Said)
    BY <1>1, <2>1
  <2>3. O!Applied(s, row) = [next EXCEPT !.phase = "none", !.samples = 0, !.groups = told]
    BY <1>2, <1>8, <2>1 DEF O!Applied
  <2>4. PICK one : one = [next EXCEPT !.phase = "none"]
    OBVIOUS
  <2>5. one \in Readings /\ one.phase = "none"
    BY <1>3, <2>4 DEF Readings, O!Phases
  <2>6. PICK two : two = [one EXCEPT !.samples = 0]
    OBVIOUS
  <2>7. two \in Readings /\ two.phase = "none"
    BY <2>5, <2>6, NoSamples
  <2>8. O!Applied(s, row) = [two EXCEPT !.groups = told]
    BY <2>3, <2>4, <2>6
  <2>9. /\ O!Applied(s, row) \in Readings /\ O!Applied(s, row).phase = "none"
        /\ O!Applied(s, row).groups = told
    BY <2>2, <2>7, <2>8 DEF Readings
  <2> QED
    BY <1>8, <2>1, <2>9 DEF PhaseAfter
<1> QED
  BY <1>1, <1>4, <1>5, <1>6, <1>7, <1>8 DEF Events

LEMMA RangeAppend ==
    ASSUME NEW X, NEW s \in Seq(X), NEW x \in X
    PROVE  O!Range(Append(s, x)) = O!Range(s) \cup {x}
<1>1. PICK t : t = Append(s, x)
  OBVIOUS
<1>2. /\ DOMAIN s = 1 .. Len(s) /\ DOMAIN t = 1 .. Len(s) + 1 /\ Len(s) \in Nat
      /\ t[Len(s) + 1] = x /\ \A k \in 1 .. Len(s) : t[k] = s[k]
  BY <1>1
<1>3. \A k \in 1 .. Len(s) + 1 : k \in 1 .. Len(s) \/ k = Len(s) + 1
  BY <1>2
<1>4. (\A k \in 1 .. Len(s) : k \in 1 .. Len(s) + 1) /\ Len(s) + 1 \in 1 .. Len(s) + 1
  BY <1>2
<1> QED
  BY <1>1, <1>2, <1>3, <1>4 DEF O!Range

\* A row that continues the file is in it.
Grows(row) ==
    /\ oRows' = Append(oRows, row) /\ O!Follows(oMem, row) /\ O!IsValid(row)
    /\ oOpen /\ ~oPoisoned /\ O!Reading = oMem /\ O!Reading' = O!Applied(oMem, row)

LEMMA MayGrow ==
    ASSUME GroupTypes, Readable, NEW row \in JournalRows, row.seq = oMem.seq, O!MayAppend(row),
           oRows' = Append(oRows, row)
    PROVE  /\ Grows(row) /\ oRows' \in Seq(JournalRows)
           /\ O!Applied(oMem, row) \in Readings /\ O!Applied(oMem, row).phase # "invalid"
<1>1. /\ oOpen /\ ~oPoisoned /\ O!IsValid(row) /\ O!Follows(oMem, row)
      /\ O!Reading = oMem /\ oMem.phase # "invalid"
  BY DEF O!MayAppend, Readable
<1>2. oRows \in Seq(JournalRows) /\ oMem \in Readings
  BY DEF GroupTypes
<1>3. O!ReadRow(oMem, row) = O!Applied(oMem, row)
  BY <1>1 DEF O!ReadRow
<1>4. O!Reading' = O!ReadRow(O!Reading, row)
  BY <1>2, ReadNext DEF O!Reading
<1>5. Append(oRows, row) \in Seq(JournalRows)
  BY <1>2
<1> QED
  BY <1>1, <1>2, <1>3, <1>4, <1>5, AppliedFacts DEF Grows

LEMMA AcceptsFacts ==
    ASSUME GroupTypes, Readable, NEW row \in JournalRows, row.seq = oMem.seq, O!Accepts(row)
    PROVE  /\ Grows(row) /\ oRows' \in Seq(JournalRows) /\ Readable' /\ oMem' \in Readings
           /\ oMem' = O!Applied(oMem, row) /\ UNCHANGED <<oTorn, oPoisoned, oOpen>>
<1>1. /\ O!MayAppend(row) /\ oRows' = Append(oRows, row) /\ oMem' = O!Applied(oMem, row)
      /\ UNCHANGED <<oTorn, oPoisoned, oOpen>>
  BY DEF O!Accepts
<1>2. /\ Grows(row) /\ oRows' \in Seq(JournalRows)
      /\ O!Applied(oMem, row) \in Readings /\ O!Applied(oMem, row).phase # "invalid"
  BY <1>1, MayGrow
<1>3. O!Reading' = oMem'
  BY <1>1, <1>2 DEF Grows
<1> QED
  BY <1>1, <1>2, <1>3 DEF Readable

LEMMA FailsFacts ==
    ASSUME GroupTypes, Readable, NEW row \in JournalRows, row.seq = oMem.seq, O!Fails(row)
    PROVE  /\ (oRows' = oRows /\ O!Reading' = O!Reading) \/ Grows(row)
           /\ oRows' \in Seq(JournalRows) /\ Readable'
           /\ oPoisoned' \in BOOLEAN /\ oTorn' \in BOOLEAN /\ (oPoisoned' \/ ~oOpen)
           /\ UNCHANGED <<oMem, oOpen>>
<1>1. oPoisoned \in BOOLEAN /\ oTorn \in BOOLEAN /\ oOpen \in BOOLEAN /\ oRows \in Seq(JournalRows)
  BY DEF GroupTypes
<1>2. ASSUME oRows' = oRows, oMem' = oMem, oPoisoned => oPoisoned'
      PROVE  O!Reading' = O!Reading /\ Readable'
  <2>1. O!Reading' = O!Reading
    BY <1>2 DEF O!Reading
  <2> QED
    BY <1>2, <2>1 DEF Readable
<1>3. CASE O!Refuses(row)
  <2>1. /\ oPoisoned' <=> (oPoisoned \/ oOpen)
        /\ UNCHANGED <<oRows, oTorn, oMem, oOpen>>
    BY <1>3 DEF O!Refuses
  <2>2. oPoisoned' \in BOOLEAN
    BY <1>3 DEF O!Refuses
  <2> QED
    BY <1>1, <1>2, <2>1, <2>2
<1>4. CASE O!IsCutOff(row)
  <2>1. /\ O!MayAppend(row) /\ oPoisoned' = TRUE /\ UNCHANGED <<oMem, oOpen>>
        /\ oTorn' = oTorn \/ oTorn' = TRUE
        /\ oRows' = oRows \/ oRows' = Append(oRows, row)
    BY <1>4 DEF O!IsCutOff
  <2>2. CASE oRows' = oRows
    BY <1>1, <1>2, <2>1, <2>2
  <2>3. CASE oRows' = Append(oRows, row)
    <3>1. /\ Grows(row) /\ oRows' \in Seq(JournalRows)
          /\ O!Applied(oMem, row) \in Readings /\ O!Applied(oMem, row).phase # "invalid"
      BY <2>1, <2>3, MayGrow
    <3>2. O!Reading' = O!Applied(oMem, row)
      BY <3>1 DEF Grows
    <3>3. Readable'
      BY <2>1, <3>1, <3>2 DEF Readable
    <3> QED
      BY <1>1, <2>1, <3>1, <3>3
  <2> QED
    BY <2>1, <2>2, <2>3
<1> QED
  BY <1>3, <1>4 DEF O!Fails

(* What is in the file stays there.                                           *)
LEMMA MarkersKept ==
    ASSUME oRows \in Seq(JournalRows), NEW row \in JournalRows,
           oRows' = oRows \/ oRows' = Append(oRows, row),
           NEW event, NEW g, NEW i, O!Marker(event, g, i)
    PROVE  \E k \in DOMAIN oRows' :
               oRows'[k].event = event /\ oRows'[k].group = g /\ oRows'[k].sample = i
<1>1. PICK k \in DOMAIN oRows :
          oRows[k].event = event /\ oRows[k].group = g /\ oRows[k].sample = i
  BY DEF O!Marker
<1>2. CASE oRows' = oRows
  BY <1>1, <1>2
<1>3. CASE oRows' = Append(oRows, row)
  <2>1. k \in DOMAIN oRows' /\ oRows'[k] = oRows[k]
    BY <1>1, <1>3
  <2> QED
    BY <1>1, <2>1
<1> QED
  BY <1>2, <1>3

LEMMA RowsBounded ==
    ASSUME oRows \in Seq(JournalRows), NEW row \in JournalRows, row.group = oGroup,
           oRows' = oRows \/ oRows' = Append(oRows, row), oGroup \in Nat,
           \A k \in 1 .. Len(oRows) : oRows[k].group <= oGroup
    PROVE  \A k \in 1 .. Len(oRows') : oRows'[k].group <= oGroup
<1>1. CASE oRows' = oRows
  BY <1>1
<1>2. CASE oRows' = Append(oRows, row)
  <2>1. /\ Len(oRows) \in Nat /\ Len(oRows') = Len(oRows) + 1 /\ oRows'[Len(oRows) + 1] = row
        /\ \A k \in 1 .. Len(oRows) : oRows'[k] = oRows[k]
    BY <1>2
  <2>2. \A k \in 1 .. Len(oRows) + 1 : k \in 1 .. Len(oRows) \/ k = Len(oRows) + 1
    BY <2>1
  <2> QED
    BY <2>1, <2>2
<1> QED
  BY <1>1, <1>2

LEMMA NoneUntold == ASSUME UntoldIsLast, oPc \notin Out PROVE Untold = {}
BY DEF UntoldIsLast

LEMMA CompleteStays ==
    ASSUME CompleteAreTrue, oReturned \subseteq oReturned', O!Reading'.groups = O!Reading.groups
    PROVE  CompleteAreTrue'
<1>1. O!Range(O!Reading'.groups) = O!Range(O!Reading.groups)
  OBVIOUS
<1>2. \A g : Complete(g) => Complete(g)'
  BY DEF Complete
<1> QED
  BY <1>1, <1>2 DEF CompleteAreTrue

(* Steps that leave the journal alone.                                         *)
Quiet == UNCHANGED <<oRows, oTorn, oMem, oPoisoned>>

LEMMA QuietFacts ==
    ASSUME GroupInv, Quiet, oReturned \subseteq oReturned'
    PROVE  /\ O!Reading' = O!Reading /\ Readable' /\ CompleteAreTrue'
           /\ \A event, g, i : O!Marker(event, g, i) => O!Marker(event, g, i)'
<1>1. O!Reading' = O!Reading
  BY DEF Quiet, O!Reading
<1>2. Readable'
  BY <1>1 DEF GroupInv, Readable, Quiet
<1>3. CompleteAreTrue'
  BY <1>1, CompleteStays DEF GroupInv
<1>4. \A event, g, i : O!Marker(event, g, i) => O!Marker(event, g, i)'
  BY DEF O!Marker, Quiet
<1> QED
  BY <1>1, <1>2, <1>3, <1>4

LEMMA UntoldStays ==
    ASSUME GroupInv, Quiet, oEvidence' = oEvidence, oGroup' \in Nat, oGroup <= oGroup',
           oOpen' => oOpen, oPc \in Out => oPc' \in Out
    PROVE  UntoldIsLast'
<1>1. O!Reading' = O!Reading
  BY DEF Quiet, O!Reading
<1>2. Untold' = Untold
  BY <1>1 DEF Untold
<1>3. \A k \in 1 .. Len(oRows) : oRows[k].group \in Nat
  <2>1. oRows \in Seq(JournalRows)
    BY DEF GroupInv, GroupTypes
  <2>2. \A k \in 1 .. Len(oRows) : oRows[k] \in JournalRows
    BY <2>1
  <2>3. \A x \in JournalRows : x.group \in Nat
    BY DEF JournalRows
  <2> QED
    BY <2>2, <2>3
<1>4. \A k \in 1 .. Len(oRows) : oRows[k].group <= oGroup'
  <2>1. oGroup \in Nat /\ \A k \in 1 .. Len(oRows) : oRows[k].group <= oGroup
    BY DEF GroupInv, GroupTypes, UntoldIsLast
  <2> QED
    BY <1>3, <2>1
<1> QED
  BY <1>2, <1>4 DEF GroupInv, UntoldIsLast, Quiet

LEMMA StartInv == ASSUME GroupInv, O!Start PROVE GroupInv'
<1>1. /\ oPc = "idle" /\ ~oActive /\ oGroup' = oGroup + 1 /\ oStatus' = "failed"
      /\ oPc' = "starting" /\ Quiet
      /\ UNCHANGED <<oActive, oRecords, oFinish, oEvidence, oOpen, oCalled, oReturned>>
  BY DEF O!Start, O!Goes, O!journal, Quiet
<1>2. GroupTypes'
  BY <1>1 DEF GroupInv, GroupTypes, Quiet, Out, O!Statuses
<1>3. /\ Readable' /\ CompleteAreTrue'
      /\ \A event, g, i : O!Marker(event, g, i) => O!Marker(event, g, i)'
  BY <1>1, QuietFacts
<1>4. HasMarkers'
  BY <1>1, <1>3 DEF GroupInv, HasMarkers
<1>5. oRecords' = <<>> /\ Len(<<>>) = 0
  BY <1>1 DEF GroupInv, RecordsTrue
<1>6. RecordsTrue'
  BY <1>1, <1>5 DEF RecordsTrue, Inside
<1>7. oGroup' \in Nat /\ oGroup <= oGroup'
  BY <1>1 DEF GroupInv, GroupTypes
<1>8. UntoldIsLast'
  BY <1>1, <1>7, UntoldStays DEF Out
<1> QED
  BY <1>2, <1>3, <1>4, <1>6, <1>8 DEF GroupInv

LEMMA BeginInv == ASSUME GroupInv, O!Begin PROVE GroupInv'
<1>1. /\ oPc = "beginning" /\ oCalled' = oCalled \cup {<<"begin", oGroup, 0>>} /\ Quiet
      /\ UNCHANGED <<oGroup, oFinish, oEvidence, oOpen>> /\ oReturned \subseteq oReturned'
      /\ \/ oActive' = TRUE /\ oRecords' = <<>> /\ oPc' = "observing" /\ oStatus' = oStatus
         \/ /\ oPc' = "finishing" /\ oStatus' \in {"failed", "interrupted"}
            /\ UNCHANGED <<oActive, oRecords, oReturned>>
  BY DEF O!Begin, O!Goes, O!Throws, O!Raises, O!journal, Quiet
<1>2. <<>> \in Seq(Kinds) /\ Len(<<>>) = 0
  OBVIOUS
<1>3. GroupTypes'
  BY <1>1, <1>2 DEF GroupInv, GroupTypes, Quiet, Inside, O!Statuses
<1>4. /\ Readable' /\ CompleteAreTrue'
      /\ \A event, g, i : O!Marker(event, g, i) => O!Marker(event, g, i)'
  BY <1>1, QuietFacts
<1>5. O!Marker("group_started", oGroup, 0)'
  BY <1>1, <1>4 DEF GroupInv, HasMarkers
<1>6. \A c \in oCalled' : c \in oCalled \/ (c[1] = "begin" /\ c[2] = oGroup)
  BY <1>1
<1>7. HasMarkers'
  BY <1>1, <1>4, <1>5, <1>6 DEF GroupInv, HasMarkers
<1>8. RecordsTrue'
  BY <1>1, <1>2 DEF GroupInv, RecordsTrue, Inside
<1>9. UntoldIsLast'
  BY <1>1, <1>3, UntoldStays DEF Out, GroupInv, GroupTypes
<1> QED
  BY <1>3, <1>4, <1>7, <1>8, <1>9 DEF GroupInv

LEMMA GenerateInv == ASSUME GroupInv, O!Generate PROVE GroupInv'
<1>1. /\ oPc = "generating" /\ Quiet
      /\ UNCHANGED <<oGroup, oActive, oRecords, oFinish, oEvidence, oOpen, oCalled, oReturned>>
      /\ \/ oPc' = "sampling" /\ oStatus' = oStatus
         \/ oPc' = "finishing" /\ oStatus' \in {"failed", "interrupted"}
  BY DEF O!Generate, O!Goes, O!Throws, O!Raises, O!journal, Quiet
<1>2. GroupTypes'
  BY <1>1 DEF GroupInv, GroupTypes, Quiet, Inside, O!Statuses
<1>3. /\ Readable' /\ CompleteAreTrue'
      /\ \A event, g, i : O!Marker(event, g, i) => O!Marker(event, g, i)'
  BY <1>1, QuietFacts
<1>4. HasMarkers'
  BY <1>1, <1>3 DEF GroupInv, HasMarkers
<1>5. RecordsTrue'
  BY <1>1 DEF GroupInv, RecordsTrue, Inside
<1>6. UntoldIsLast'
  BY <1>1, UntoldStays DEF Out, GroupInv, GroupTypes
<1> QED
  BY <1>2, <1>3, <1>4, <1>5, <1>6 DEF GroupInv

LEMMA AdmitInv == ASSUME GroupInv, O!Admit PROVE GroupInv'
<1>1. /\ oPc = "admitting" /\ Quiet
      /\ oCalled' = oCalled \cup {<<"before_action", oGroup, Len(oRecords)>>}
      /\ UNCHANGED <<oGroup, oActive, oRecords, oFinish, oEvidence, oOpen>>
      /\ oReturned \subseteq oReturned'
      /\ \/ oPc' = "marking" /\ oStatus' = oStatus
         \/ oPc' = "finishing" /\ oStatus' \in {"failed", "interrupted"}
  BY DEF O!Admit, O!Calls, O!Returns, O!Goes, O!Throws, O!Raises, O!journal, Quiet
<1>2. GroupTypes'
  BY <1>1 DEF GroupInv, GroupTypes, Quiet, Inside, O!Statuses
<1>3. /\ Readable' /\ CompleteAreTrue'
      /\ \A event, g, i : O!Marker(event, g, i) => O!Marker(event, g, i)'
  BY <1>1, QuietFacts
<1>4. \A c \in oCalled' : c \in oCalled \/ c[1] = "before_action"
  BY <1>1
<1>5. HasMarkers'
  BY <1>1, <1>3, <1>4 DEF GroupInv, HasMarkers
<1>6. RecordsTrue'
  BY <1>1 DEF GroupInv, RecordsTrue, Inside
<1>7. UntoldIsLast'
  BY <1>1, UntoldStays DEF Out, GroupInv, GroupTypes
<1> QED
  BY <1>2, <1>3, <1>5, <1>6, <1>7 DEF GroupInv

LEMMA ExecuteInv == ASSUME GroupInv, O!Execute PROVE GroupInv'
<1>1. /\ oPc = "executing" /\ Quiet
      /\ oCalled' = oCalled \cup {<<"execute", oGroup, Len(oRecords)>>}
      /\ UNCHANGED <<oGroup, oActive, oFinish, oEvidence, oOpen>>
      /\ oReturned \subseteq oReturned'
      /\ \/ /\ oRecords' = [oRecords EXCEPT ![Len(oRecords)] = "scored"]
            /\ <<"execute", oGroup, Len(oRecords)>> \in oReturned'
            /\ oPc' = "sampling" /\ oStatus' = oStatus
         \/ /\ oRecords' = oRecords \/ oRecords' = [oRecords EXCEPT ![Len(oRecords)] = "strange"]
            /\ oPc' = "finishing" /\ oStatus' \in {"failed", "interrupted"}
  BY DEF O!Execute, O!Calls, O!Returns, O!Goes, O!Throws, O!Raises, O!journal, Quiet
<1>2. oRecords \in Seq(Kinds) /\ "scored" \in Kinds /\ "strange" \in Kinds
  BY DEF GroupInv, GroupTypes, Kinds
<1>3. oRecords' \in Seq(Kinds) /\ Len(oRecords') = Len(oRecords)
  <2>1. ASSUME NEW x \in Kinds, oRecords' = [oRecords EXCEPT ![Len(oRecords)] = x]
        PROVE  oRecords' \in Seq(Kinds) /\ Len(oRecords') = Len(oRecords)
    <3>1. CASE Len(oRecords) \in 1 .. Len(oRecords)
      BY <1>2, <2>1, <3>1, ExceptSeq
    <3>2. CASE Len(oRecords) \notin 1 .. Len(oRecords)
      <4>1. DOMAIN oRecords = 1 .. Len(oRecords) /\ oRecords = [i \in DOMAIN oRecords |-> oRecords[i]]
        BY <1>2
      <4>2. oRecords' = oRecords
        BY <2>1, <3>2, <4>1
      <4> QED
        BY <1>2, <4>2
    <3> QED
      BY <3>1, <3>2
  <2> QED
    BY <1>1, <1>2, <2>1
<1>4. GroupTypes'
  BY <1>1, <1>3 DEF GroupInv, GroupTypes, Quiet, Inside, O!Statuses
<1>5. /\ Readable' /\ CompleteAreTrue'
      /\ \A event, g, i : O!Marker(event, g, i) => O!Marker(event, g, i)'
  BY <1>1, QuietFacts
<1>6. O!Marker("sample_execute_started", oGroup, Len(oRecords) - 1)'
  BY <1>1, <1>3, <1>5 DEF GroupInv, HasMarkers
<1>7. \A c \in oCalled' :
          c \in oCalled \/ (c[1] = "execute" /\ c[2] = oGroup /\ c[3] = Len(oRecords))
  BY <1>1
<1>8. HasMarkers'
  <2>1. ASSUME NEW c \in oCalled'
        PROVE  /\ c[1] = "begin" => O!Marker("group_started", c[2], 0)'
               /\ c[1] = "execute" => O!Marker("sample_execute_started", c[2], c[3] - 1)'
    <3>1. CASE c \in oCalled
      BY <1>5, <3>1 DEF GroupInv, HasMarkers
    <3>2. CASE c[1] = "execute" /\ c[2] = oGroup /\ c[3] = Len(oRecords)
      <4>1. c[3] - 1 = Len(oRecords) - 1
        BY <3>2
      <4> QED
        BY <1>1, <1>3, <1>6, <3>2, <4>1
    <3> QED
      BY <1>7, <3>1, <3>2
  <2> QED
    BY <1>1, <2>1 DEF HasMarkers
<1>9. RecordsTrue'
  <2>1. ASSUME NEW i \in 1 .. Len(oRecords'), oRecords'[i] = "scored"
        PROVE  <<"execute", oGroup, i>> \in oReturned'
    <3>1. i \in 1 .. Len(oRecords)
      BY <1>3
    <3>2. CASE /\ oRecords' = [oRecords EXCEPT ![Len(oRecords)] = "scored"]
               /\ <<"execute", oGroup, Len(oRecords)>> \in oReturned'
      <4>1. CASE i = Len(oRecords)
        BY <3>2, <4>1
      <4>2. CASE i # Len(oRecords)
        <5>1. oRecords[i] = "scored"
          BY <1>2, <2>1, <3>1, <3>2, <4>2
        <5> QED
          BY <1>1, <3>1, <5>1 DEF GroupInv, RecordsTrue
      <4> QED
        BY <4>1, <4>2
    <3>3. CASE oRecords' = oRecords \/ oRecords' = [oRecords EXCEPT ![Len(oRecords)] = "strange"]
      <4>1. oRecords[i] = "scored"
        BY <1>2, <2>1, <3>1, <3>3
      <4> QED
        BY <1>1, <3>1, <4>1 DEF GroupInv, RecordsTrue
    <3> QED
      BY <1>1, <3>2, <3>3
  <2>2. oActive
    BY <1>1 DEF GroupInv, RecordsTrue, Inside
  <2> QED
    BY <1>1, <2>1, <2>2 DEF RecordsTrue
<1>10. UntoldIsLast'
  BY <1>1, UntoldStays DEF Out, GroupInv, GroupTypes
<1> QED
  BY <1>4, <1>5, <1>8, <1>9, <1>10 DEF GroupInv

LEMMA ScoreInv == ASSUME GroupInv, O!Score PROVE GroupInv'
<1>1. /\ oPc = "sampling" /\ Len(oRecords) = GroupSize /\ Quiet
      /\ UNCHANGED <<oGroup, oActive, oRecords, oFinish, oEvidence, oOpen, oCalled, oReturned>>
      /\ oPc' = "finishing" /\ oStatus' \in O!Statuses
  BY DEF O!Score, O!Goes, O!Throws, O!Raises, O!journal, O!Statuses, Quiet
<1>2. GroupTypes'
  BY <1>1 DEF GroupInv, GroupTypes, Quiet
<1>3. /\ Readable' /\ CompleteAreTrue'
      /\ \A event, g, i : O!Marker(event, g, i) => O!Marker(event, g, i)'
  BY <1>1, QuietFacts
<1>4. HasMarkers'
  BY <1>1, <1>3 DEF GroupInv, HasMarkers
<1>5. RecordsTrue'
  BY <1>1 DEF GroupInv, RecordsTrue, Inside
<1>6. UntoldIsLast'
  BY <1>1, UntoldStays DEF Out, GroupInv, GroupTypes
<1> QED
  BY <1>2, <1>3, <1>4, <1>5, <1>6 DEF GroupInv

LEMMA FinishInv == ASSUME GroupInv, O!Finish PROVE GroupInv'
<1>1. /\ oPc = "finishing" /\ oPc' = "filing" /\ Quiet
      /\ oCalled' = oCalled \cup {<<"finish", oGroup, 0>>}
      /\ UNCHANGED <<oGroup, oActive, oRecords, oEvidence, oOpen>>
      /\ oReturned \subseteq oReturned'
      /\ \/ oFinish' = "returned" /\ oStatus' = oStatus /\ <<"finish", oGroup, 0>> \in oReturned'
         \/ /\ oFinish' = "raised"
            /\ oStatus' = IF oStatus = "completed" THEN "failed" ELSE oStatus
  BY DEF O!Finish, O!Goes, O!journal, Quiet
<1>2. GroupTypes'
  BY <1>1 DEF GroupInv, GroupTypes, Quiet, O!Statuses
<1>3. /\ Readable' /\ CompleteAreTrue'
      /\ \A event, g, i : O!Marker(event, g, i) => O!Marker(event, g, i)'
  BY <1>1, QuietFacts
<1>4. \A c \in oCalled' : c \in oCalled \/ c[1] = "finish"
  BY <1>1
<1>5. HasMarkers'
  BY <1>1, <1>3, <1>4 DEF GroupInv, HasMarkers
<1>6. RecordsTrue'
  BY <1>1 DEF GroupInv, RecordsTrue, Inside
<1>7. UntoldIsLast'
  BY <1>1, UntoldStays DEF Out, GroupInv, GroupTypes
<1> QED
  BY <1>2, <1>3, <1>5, <1>6, <1>7 DEF GroupInv

LEMMA InterruptGroupInv == ASSUME GroupInv, O!Interrupt PROVE GroupInv'
<1>1. /\ oPc \notin {"idle", "filing", "dead"} /\ Quiet
      /\ UNCHANGED <<oGroup, oActive, oFinish, oEvidence, oOpen, oCalled, oReturned>>
      /\ \/ /\ oPc \in {"starting", "beginning", "finishing"} /\ oPc' = "idle" /\ oStatus' = oStatus
         \/ /\ oPc \notin {"starting", "beginning", "finishing"}
            /\ oPc' = "finishing" /\ oStatus' = "interrupted"
      /\ oRecords' = oRecords \/ (oPc = "sampling" /\ oRecords' = Append(oRecords, "open"))
  BY DEF O!Interrupt, O!Goes, O!Raises, O!journal, Quiet
<1>2. oRecords \in Seq(Kinds) /\ "open" \in Kinds
  BY DEF GroupInv, GroupTypes, Kinds
<1>3. oRecords' \in Seq(Kinds)
  BY <1>1, <1>2
<1>4. GroupTypes'
  BY <1>1, <1>3 DEF GroupInv, GroupTypes, Quiet, Out, O!Statuses
<1>5. /\ Readable' /\ CompleteAreTrue'
      /\ \A event, g, i : O!Marker(event, g, i) => O!Marker(event, g, i)'
  BY <1>1, QuietFacts
<1>6. HasMarkers'
  BY <1>1, <1>5 DEF GroupInv, HasMarkers
<1>7. RecordsTrue'
  <2>1. ASSUME NEW i \in 1 .. Len(oRecords'), oRecords'[i] = "scored"
        PROVE  <<"execute", oGroup, i>> \in oReturned
    <3>1. CASE oRecords' = oRecords
      BY <2>1, <3>1 DEF GroupInv, RecordsTrue
    <3>2. CASE oRecords' = Append(oRecords, "open")
      <4>1. i \in 1 .. Len(oRecords) /\ oRecords[i] = "scored"
        BY <1>2, <2>1, <3>2
      <4> QED
        BY <4>1 DEF GroupInv, RecordsTrue
    <3> QED
      BY <1>1, <3>1, <3>2
  <2>2. ~oActive => oRecords' = <<>>
    BY <1>1 DEF GroupInv, RecordsTrue, Inside
  <2> QED
    BY <1>1, <2>1, <2>2 DEF RecordsTrue, Inside
<1>8. UntoldIsLast'
  BY <1>1, UntoldStays DEF Out, GroupInv, GroupTypes
<1> QED
  BY <1>4, <1>5, <1>6, <1>7, <1>8 DEF GroupInv

LEMMA CloseInv == ASSUME GroupInv, O!Close PROVE GroupInv'
<1>1. /\ oPc = "idle" /\ oOpen' = FALSE /\ Quiet
      /\ UNCHANGED <<oPc, oGroup, oActive, oRecords, oStatus, oFinish, oEvidence, oCalled, oReturned>>
  BY DEF O!Close, O!trainer, Quiet
<1>2. GroupTypes'
  BY <1>1 DEF GroupInv, GroupTypes, Quiet
<1>3. /\ Readable' /\ CompleteAreTrue'
      /\ \A event, g, i : O!Marker(event, g, i) => O!Marker(event, g, i)'
  BY <1>1, QuietFacts
<1>4. HasMarkers' /\ RecordsTrue'
  BY <1>1, <1>3 DEF GroupInv, HasMarkers, RecordsTrue
<1>5. UntoldIsLast'
  BY <1>1, UntoldStays DEF Out, GroupInv, GroupTypes
<1> QED
  BY <1>2, <1>3, <1>4, <1>5 DEF GroupInv

LEMMA KillInv == ASSUME GroupInv, O!Kill PROVE GroupInv'
<1>1. /\ oPc' = "dead" /\ oOpen' = FALSE /\ Quiet
      /\ UNCHANGED <<oGroup, oActive, oRecords, oStatus, oFinish, oEvidence, oCalled, oReturned>>
  BY DEF O!Kill, O!Goes, Quiet
<1>2. GroupTypes'
  BY <1>1 DEF GroupInv, GroupTypes, Quiet, Out
<1>3. /\ Readable' /\ CompleteAreTrue'
      /\ \A event, g, i : O!Marker(event, g, i) => O!Marker(event, g, i)'
  BY <1>1, QuietFacts
<1>4. HasMarkers' /\ RecordsTrue'
  BY <1>1, <1>3 DEF GroupInv, HasMarkers, RecordsTrue, Inside
<1>5. UntoldIsLast'
  BY <1>1, UntoldStays DEF Out, GroupInv, GroupTypes
<1> QED
  BY <1>2, <1>3, <1>4, <1>5 DEF GroupInv

(* The thread is interrupted before the final row: the file tells of a group   *)
(* that began, and not of its end.                                             *)
LEMMA InterruptFilingInv == ASSUME GroupInv, O!InterruptFiling PROVE GroupInv'
<1>1. PICK e : e = <<oGroup, "failed">>
  OBVIOUS
<1>2. /\ oPc = "filing" /\ oPc' = "idle" /\ oEvidence' = Append(oEvidence, e) /\ Quiet
      /\ oActive' = FALSE /\ oRecords' = <<>>
      /\ UNCHANGED <<oGroup, oStatus, oFinish, oOpen, oCalled, oReturned>>
  BY <1>1 DEF O!InterruptFiling, O!Goes, O!journal, Quiet
<1>3. /\ oGroup \in Nat /\ oEvidence \in Seq(Nat \X Said) /\ <<>> \in Seq(Kinds) /\ Len(<<>>) = 0
  BY DEF GroupInv, GroupTypes
<1>4. e \in Nat \X Said /\ e[1] = oGroup /\ e[2] = "failed"
  BY <1>1, <1>3 DEF Said, O!Statuses
<1>5. oEvidence' \in Seq(Nat \X Said) /\ O!Range(oEvidence') = O!Range(oEvidence) \cup {e}
  BY <1>2, <1>3, <1>4, RangeAppend
<1>6. GroupTypes'
  BY <1>2, <1>3, <1>5 DEF GroupInv, GroupTypes, Quiet, Out
<1>7. /\ O!Reading' = O!Reading /\ Readable' /\ CompleteAreTrue'
      /\ \A event, g, i : O!Marker(event, g, i) => O!Marker(event, g, i)'
  BY <1>2, QuietFacts
<1>8. HasMarkers' /\ RecordsTrue'
  BY <1>2, <1>3, <1>7 DEF GroupInv, HasMarkers, RecordsTrue, Inside
<1>9. UntoldIsLast'
  <2>1. Untold = {} /\ oMem.phase # "none"
    BY <1>2, NoneUntold DEF Out, GroupInv, UntoldIsLast
  <2>2. \A x \in Untold' : x = e
    BY <1>5, <1>7, <2>1 DEF Untold
  <2>3. \A k \in 1 .. Len(oRows) : oRows[k].group <= oGroup
    BY DEF GroupInv, UntoldIsLast
  <2> QED
    BY <1>2, <1>3, <1>4, <2>1, <2>2, <2>3 DEF UntoldIsLast, Quiet, Out
<1> QED
  BY <1>6, <1>7, <1>8, <1>9 DEF GroupInv

(* A marker is written or not; if it is refused, the journal takes no other.   *)
LEMMA MarkerFacts ==
    ASSUME GroupInv, NEW event \in Events \ {"group_finished"}, NEW sample \in Int,
           NEW row, row = O!Row(event, sample), O!Accepts(row) \/ O!Fails(row),
           oReturned' = oReturned, oEvidence' = oEvidence, oGroup' = oGroup
    PROVE  /\ oRows' \in Seq(JournalRows) /\ oMem' \in Readings /\ oTorn' \in BOOLEAN
           /\ oPoisoned' \in BOOLEAN /\ oOpen' = oOpen
           /\ Readable' /\ CompleteAreTrue' /\ Untold' = Untold
           /\ \A ev, g, i : O!Marker(ev, g, i) => O!Marker(ev, g, i)'
           /\ \A k \in 1 .. Len(oRows') : oRows'[k].group <= oGroup
           /\ oRows' = oRows \/ Grows(row)
           /\ O!Accepts(row) =>
               /\ Grows(row) /\ oMem'.phase # "none"
               /\ \E k \in DOMAIN oRows' :
                   oRows'[k].event = event /\ oRows'[k].group = oGroup /\ oRows'[k].sample = sample
           /\ O!Fails(row) => oMem' = oMem /\ (oPoisoned' \/ ~oOpen)
<1>1. GroupTypes /\ Readable
  BY DEF GroupInv
<1>2. /\ row \in JournalRows /\ row.seq = oMem.seq /\ row.event = event
      /\ row.group = oGroup /\ row.sample = sample
  BY <1>1, RowFacts
<1>3. /\ oRows \in Seq(JournalRows) /\ oMem \in Readings /\ oTorn \in BOOLEAN
      /\ oPoisoned \in BOOLEAN /\ oGroup \in Nat
  BY <1>1 DEF GroupTypes
<1>4. ASSUME O!Accepts(row)
      PROVE  /\ Grows(row) /\ oRows' \in Seq(JournalRows) /\ Readable' /\ oMem' \in Readings
             /\ oMem' = O!Applied(oMem, row) /\ UNCHANGED <<oTorn, oPoisoned, oOpen>>
  BY <1>1, <1>2, <1>4, AcceptsFacts
<1>5. ASSUME O!Fails(row)
      PROVE  /\ (oRows' = oRows /\ O!Reading' = O!Reading) \/ Grows(row)
             /\ oRows' \in Seq(JournalRows) /\ Readable'
             /\ oPoisoned' \in BOOLEAN /\ oTorn' \in BOOLEAN /\ (oPoisoned' \/ ~oOpen)
             /\ UNCHANGED <<oMem, oOpen>>
  BY <1>1, <1>2, <1>5, FailsFacts
<1>6. /\ oRows' \in Seq(JournalRows) /\ oMem' \in Readings /\ oTorn' \in BOOLEAN
      /\ oPoisoned' \in BOOLEAN /\ oOpen' = oOpen /\ Readable'
      /\ (oRows' = oRows /\ O!Reading' = O!Reading) \/ Grows(row)
  BY <1>3, <1>4, <1>5
<1>7. Grows(row) => oRows' = Append(oRows, row)
  BY DEF Grows
<1>8. O!Reading'.groups = O!Reading.groups
  <2>1. CASE O!Reading' = O!Reading
    BY <2>1
  <2>2. CASE Grows(row)
    BY <1>2, <1>3, <2>2, AppliedFacts DEF Grows
  <2> QED
    BY <1>6, <2>1, <2>2
<1>9. CompleteAreTrue'
  BY <1>8, CompleteStays DEF GroupInv
<1>10. Untold' = Untold
  BY <1>8 DEF Untold
<1>11. \A ev, g, i : O!Marker(ev, g, i) => O!Marker(ev, g, i)'
  <2>1. SUFFICES ASSUME NEW ev, NEW g, NEW i, O!Marker(ev, g, i)
                 PROVE  \E k \in DOMAIN oRows' :
                            oRows'[k].event = ev /\ oRows'[k].group = g /\ oRows'[k].sample = i
    BY DEF O!Marker
  <2> QED
    BY <1>2, <1>3, <1>6, <1>7, <2>1, MarkersKept
<1>12. \A k \in 1 .. Len(oRows') : oRows'[k].group <= oGroup
  BY <1>2, <1>3, <1>6, <1>7, RowsBounded DEF GroupInv, UntoldIsLast
<1>13. ASSUME O!Accepts(row)
       PROVE  /\ oMem'.phase # "none"
              /\ \E k \in DOMAIN oRows' :
                     oRows'[k].event = event /\ oRows'[k].group = oGroup /\ oRows'[k].sample = sample
  <2>1. O!Applied(oMem, row).phase # "none"
    BY <1>2, <1>3, AppliedFacts
  <2>2. Len(oRows) + 1 \in DOMAIN oRows' /\ oRows'[Len(oRows) + 1] = row
    BY <1>2, <1>3, <1>4, <1>7, <1>13
  <2> QED
    BY <1>2, <1>4, <1>13, <2>1, <2>2
<1> QED
  BY <1>4, <1>5, <1>6, <1>9, <1>10, <1>11, <1>12, <1>13

LEMMA MarkGroupInv == ASSUME GroupInv, O!MarkGroup PROVE GroupInv'
<1>1. PICK row : row = O!Row("group_started", 0)
  OBVIOUS
<1>2. /\ oPc = "starting"
      /\ \/ O!Accepts(row) /\ oPc' = "beginning"
         \/ O!Fails(row) /\ oPc' = "idle"
      /\ UNCHANGED <<oGroup, oActive, oRecords, oStatus, oFinish, oEvidence, oCalled, oReturned>>
  BY <1>1 DEF O!MarkGroup, O!Goes
<1>3. "group_started" \in Events \ {"group_finished"} /\ 0 \in Int
  BY DEF Events
<1>4. /\ oRows' \in Seq(JournalRows) /\ oMem' \in Readings /\ oTorn' \in BOOLEAN
      /\ oPoisoned' \in BOOLEAN /\ oOpen' = oOpen
      /\ Readable' /\ CompleteAreTrue' /\ Untold' = Untold
      /\ \A ev, g, i : O!Marker(ev, g, i) => O!Marker(ev, g, i)'
      /\ \A k \in 1 .. Len(oRows') : oRows'[k].group <= oGroup
      /\ oRows' = oRows \/ Grows(row)
      /\ O!Accepts(row) =>
          /\ Grows(row) /\ oMem'.phase # "none"
          /\ \E k \in DOMAIN oRows' : /\ oRows'[k].event = "group_started"
                                      /\ oRows'[k].group = oGroup /\ oRows'[k].sample = 0
      /\ O!Fails(row) => oMem' = oMem /\ (oPoisoned' \/ ~oOpen)
  BY <1>1, <1>2, <1>3, MarkerFacts
<1>5. GroupTypes'
  BY <1>2, <1>4 DEF GroupInv, GroupTypes, Out
<1>6. HasMarkers'
  <2>1. O!Accepts(row) => O!Marker("group_started", oGroup, 0)'
    BY <1>2, <1>4 DEF O!Marker
  <2> QED
    BY <1>2, <1>4, <2>1 DEF GroupInv, HasMarkers
<1>7. RecordsTrue'
  BY <1>2 DEF GroupInv, RecordsTrue, Inside
<1>8. UntoldIsLast'
  <2>1. \A e \in Untold : ~ Grows(row)
    <3>1. Grows(row) => oOpen /\ ~oPoisoned /\ oMem.phase = "none"
      <4>1. row.event = "group_started"
        BY <1>1, <1>3, RowFacts DEF GroupInv
      <4> QED
        BY <4>1 DEF Grows, O!Follows
    <3> QED
      BY <3>1 DEF GroupInv, UntoldIsLast
  <2>2. \A e \in Untold :
            /\ e[1] \in Nat /\ e[2] # "completed"
            /\ \A k \in 1 .. Len(oRows) : oRows[k].group <= e[1]
    BY DEF GroupInv, UntoldIsLast
  <2>3. \A e \in Untold : oRows' = oRows /\ oPc' = "idle" /\ (oPoisoned' \/ ~oOpen')
    BY <1>2, <1>4, <2>1
  <2>4. oPc' \notin Out => oMem'.phase # "none"
    BY <1>2, <1>4 DEF Out
  <2> QED
    BY <1>2, <1>4, <2>2, <2>3, <2>4 DEF UntoldIsLast, Out
<1> QED
  BY <1>4, <1>5, <1>6, <1>7, <1>8 DEF GroupInv

(* The markers of a group that is under way.                                   *)
LEMMA UnderWay ==
    ASSUME GroupInv, NEW event \in Events \ {"group_finished"}, NEW sample \in Int,
           NEW row, row = O!Row(event, sample), oPc \in Inside, oPc' \notin Out,
           O!Accepts(row) \/ O!Fails(row),
           oReturned' = oReturned, oEvidence' = oEvidence, oGroup' = oGroup
    PROVE  UntoldIsLast'
<1>1. /\ Untold' = Untold /\ \A k \in 1 .. Len(oRows') : oRows'[k].group <= oGroup
      /\ O!Accepts(row) => oMem'.phase # "none"
      /\ O!Fails(row) => oMem' = oMem
  BY MarkerFacts
<1>2. Untold = {} /\ oMem.phase # "none"
  BY NoneUntold DEF GroupInv, UntoldIsLast, Inside, Out
<1> QED
  BY <1>1, <1>2 DEF UntoldIsLast

LEMMA ObserveInv == ASSUME GroupInv, O!Observe PROVE GroupInv'
<1>1. PICK row : row = O!Row("group_observed", 0)
  OBVIOUS
<1>2. /\ oPc = "observing"
      /\ \/ O!Accepts(row) /\ oPc' = "generating" /\ oStatus' = oStatus
         \/ O!Fails(row) /\ oPc' = "finishing" /\ oStatus' \in {"failed", "interrupted"}
      /\ UNCHANGED <<oGroup, oActive, oRecords, oFinish, oEvidence, oCalled, oReturned>>
  BY <1>1 DEF O!Observe, O!Goes, O!Throws, O!Raises
<1>3. "group_observed" \in Events \ {"group_finished"} /\ 0 \in Int
  BY DEF Events
<1>4. /\ oRows' \in Seq(JournalRows) /\ oMem' \in Readings /\ oTorn' \in BOOLEAN
      /\ oPoisoned' \in BOOLEAN /\ oOpen' = oOpen /\ Readable' /\ CompleteAreTrue'
      /\ \A ev, g, i : O!Marker(ev, g, i) => O!Marker(ev, g, i)'
  BY <1>1, <1>2, <1>3, MarkerFacts
<1>5. GroupTypes'
  BY <1>2, <1>4 DEF GroupInv, GroupTypes, Inside, O!Statuses
<1>6. HasMarkers'
  BY <1>2, <1>4 DEF GroupInv, HasMarkers
<1>7. RecordsTrue'
  BY <1>2 DEF GroupInv, RecordsTrue, Inside
<1>8. UntoldIsLast'
  BY <1>1, <1>2, <1>3, UnderWay DEF Inside, Out
<1> QED
  BY <1>4, <1>5, <1>6, <1>7, <1>8 DEF GroupInv

LEMMA SampleInv == ASSUME GroupInv, O!Sample PROVE GroupInv'
<1>1. PICK row : row = O!Row("sample_started", Len(oRecords))
  OBVIOUS
<1>2. /\ oPc = "sampling" /\ oRecords' = Append(oRecords, "open")
      /\ \/ O!Accepts(row) /\ oPc' = "admitting" /\ oStatus' = oStatus
         \/ O!Fails(row) /\ oPc' = "finishing" /\ oStatus' \in {"failed", "interrupted"}
      /\ UNCHANGED <<oGroup, oActive, oFinish, oEvidence, oCalled, oReturned>>
  BY <1>1 DEF O!Sample, O!Goes, O!Throws, O!Raises
<1>3. /\ oRecords \in Seq(Kinds) /\ Len(oRecords) \in Int /\ "open" \in Kinds
      /\ "sample_started" \in Events \ {"group_finished"}
  <2>1. oRecords \in Seq(Kinds)
    BY DEF GroupInv, GroupTypes
  <2>2. "open" \in Kinds /\ "sample_started" \in Events \ {"group_finished"}
    BY DEF Kinds, Events
  <2> QED
    BY <2>1, <2>2
<1>4. /\ oRows' \in Seq(JournalRows) /\ oMem' \in Readings /\ oTorn' \in BOOLEAN
      /\ oPoisoned' \in BOOLEAN /\ oOpen' = oOpen /\ Readable' /\ CompleteAreTrue'
      /\ \A ev, g, i : O!Marker(ev, g, i) => O!Marker(ev, g, i)'
  BY <1>1, <1>2, <1>3, MarkerFacts
<1>5. oRecords' \in Seq(Kinds)
  BY <1>2, <1>3
<1>6. GroupTypes'
  BY <1>2, <1>4, <1>5 DEF GroupInv, GroupTypes, Inside, O!Statuses
<1>7. HasMarkers'
  BY <1>2, <1>4 DEF GroupInv, HasMarkers
<1>8. RecordsTrue'
  <2>1. ASSUME NEW i \in 1 .. Len(oRecords'), oRecords'[i] = "scored"
        PROVE  <<"execute", oGroup, i>> \in oReturned
    <3>1. i \in 1 .. Len(oRecords) /\ oRecords[i] = "scored"
      BY <1>2, <1>3, <2>1
    <3> QED
      BY <3>1 DEF GroupInv, RecordsTrue
  <2>2. oActive
    BY <1>2 DEF GroupInv, RecordsTrue, Inside
  <2> QED
    BY <1>2, <2>1, <2>2 DEF RecordsTrue
<1>9. UntoldIsLast'
  BY <1>1, <1>2, <1>3, UnderWay DEF Inside, Out
<1> QED
  BY <1>4, <1>6, <1>7, <1>8, <1>9 DEF GroupInv

LEMMA MarkExecutionInv == ASSUME GroupInv, O!MarkExecution PROVE GroupInv'
<1>1. PICK row : row = O!Row("sample_execute_started", Len(oRecords) - 1)
  OBVIOUS
<1>2. /\ oPc = "marking"
      /\ \/ O!Accepts(row) /\ oPc' = "executing" /\ oStatus' = oStatus
         \/ O!Fails(row) /\ oPc' = "finishing" /\ oStatus' \in {"failed", "interrupted"}
      /\ UNCHANGED <<oGroup, oActive, oRecords, oFinish, oEvidence, oCalled, oReturned>>
  BY <1>1 DEF O!MarkExecution, O!Goes, O!Throws, O!Raises
<1>3. Len(oRecords) - 1 \in Int /\ "sample_execute_started" \in Events \ {"group_finished"}
  <2>1. oRecords \in Seq(Kinds)
    BY DEF GroupInv, GroupTypes
  <2>2. "sample_execute_started" \in Events \ {"group_finished"}
    BY DEF Events
  <2> QED
    BY <2>1, <2>2
<1>4. /\ oRows' \in Seq(JournalRows) /\ oMem' \in Readings /\ oTorn' \in BOOLEAN
      /\ oPoisoned' \in BOOLEAN /\ oOpen' = oOpen /\ Readable' /\ CompleteAreTrue'
      /\ \A ev, g, i : O!Marker(ev, g, i) => O!Marker(ev, g, i)'
      /\ O!Accepts(row) =>
             \E k \in DOMAIN oRows' : /\ oRows'[k].event = "sample_execute_started"
                                      /\ oRows'[k].group = oGroup
                                      /\ oRows'[k].sample = Len(oRecords) - 1
  BY <1>1, <1>2, <1>3, MarkerFacts
<1>5. GroupTypes'
  BY <1>2, <1>4 DEF GroupInv, GroupTypes, Inside, O!Statuses
<1>6. HasMarkers'
  <2>1. O!Accepts(row) => O!Marker("sample_execute_started", oGroup, Len(oRecords) - 1)'
    BY <1>2, <1>4 DEF O!Marker
  <2> QED
    BY <1>2, <1>4, <2>1 DEF GroupInv, HasMarkers
<1>7. RecordsTrue'
  BY <1>2 DEF GroupInv, RecordsTrue, Inside
<1>8. UntoldIsLast'
  BY <1>1, <1>2, <1>3, UnderWay DEF Inside, Out
<1> QED
  BY <1>4, <1>5, <1>6, <1>7, <1>8 DEF GroupInv

(* The final row calls a group completed only where every sample was executed *)
(* and scored, and finish returned.                                           *)
LEMMA FinalIsTrue ==
    ASSUME GroupInv, oPc = "filing", NEW row, row = O!FinalRow, O!IsValid(row),
           row.status = "completed"
    PROVE  Complete(oGroup)
<1>1. /\ row.event = "group_finished" /\ row.status = oStatus /\ row.finish = oFinish
      /\ row.records = oRecords
  BY FinalFacts DEF GroupInv
<1>2. oFinish = "returned" /\ O!Range(oRecords) \subseteq {"scored"} /\ oStatus = "completed"
  BY <1>1 DEF O!IsValid
<1>3. /\ Len(oRecords) = GroupSize /\ <<"finish", oGroup, 0>> \in oReturned
      /\ \A i \in 1 .. Len(oRecords) :
             oRecords[i] = "scored" => <<"execute", oGroup, i>> \in oReturned
  BY <1>2 DEF GroupInv, RecordsTrue
<1>4. \A i \in 1 .. Len(oRecords) : oRecords[i] = "scored"
  <2>1. oRecords \in Seq(Kinds)
    BY DEF GroupInv, GroupTypes
  <2>2. \A i \in 1 .. Len(oRecords) : i \in DOMAIN oRecords
    BY <2>1
  <2>3. \A i \in DOMAIN oRecords : oRecords[i] \in O!Range(oRecords)
    BY DEF O!Range
  <2> QED
    BY <1>2, <2>2, <2>3
<1> QED
  BY <1>3, <1>4 DEF Complete

LEMMA FileInv == ASSUME GroupInv, O!File PROVE GroupInv'
<1>1. PICK row : row = O!FinalRow
  OBVIOUS
<1>2. PICK e : e = <<oGroup, IF O!Accepts(row) THEN oStatus ELSE "failed">>
  OBVIOUS
<1>3. /\ oPc = "filing" /\ oPc' = "idle" /\ oActive' = FALSE /\ oRecords' = <<>>
      /\ UNCHANGED <<oGroup, oStatus, oFinish, oCalled, oReturned>>
      /\ O!Accepts(row) \/ O!Fails(row)
  BY <1>1 DEF O!File, O!Goes
<1>4. ~ (O!Accepts(row) /\ O!Fails(row))
  <2>1. O!Accepts(row) => O!MayAppend(row) /\ oRows' = Append(oRows, row) /\ oPoisoned' = oPoisoned
    BY DEF O!Accepts
  <2>2. O!MayAppend(row) => ~oPoisoned
    BY DEF O!MayAppend
  <2>3. O!Fails(row) => ~O!MayAppend(row) \/ oPoisoned' = TRUE
    BY DEF O!Fails, O!Refuses, O!IsCutOff
  <2> QED
    BY <2>1, <2>2, <2>3
<1>5. oEvidence' = Append(oEvidence, e)
  BY <1>1, <1>2, <1>4 DEF O!File
<1>6. GroupTypes /\ Readable
  BY DEF GroupInv
<1>7. /\ row \in JournalRows /\ row.seq = oMem.seq /\ row.event = "group_finished"
      /\ row.group = oGroup /\ row.status = oStatus
  BY <1>1, <1>6, FinalFacts
<1>8. /\ oGroup \in Nat /\ oStatus \in O!Statuses /\ oEvidence \in Seq(Nat \X Said)
      /\ oRows \in Seq(JournalRows) /\ oMem \in Readings /\ oTorn \in BOOLEAN
      /\ oPoisoned \in BOOLEAN
  BY <1>6 DEF GroupTypes
<1>9. e \in Nat \X Said /\ e[1] = oGroup /\ (O!Fails(row) => e[2] = "failed")
      /\ (O!Accepts(row) => e[2] = oStatus)
  BY <1>2, <1>4, <1>8 DEF Said, O!Statuses
<1>10. oEvidence' \in Seq(Nat \X Said) /\ O!Range(oEvidence') = O!Range(oEvidence) \cup {e}
  BY <1>5, <1>8, <1>9, RangeAppend
<1>11. ASSUME O!Accepts(row)
       PROVE  /\ Grows(row) /\ oRows' \in Seq(JournalRows) /\ Readable' /\ oMem' \in Readings
              /\ UNCHANGED <<oTorn, oPoisoned, oOpen>>
  BY <1>6, <1>7, <1>11, AcceptsFacts
<1>12. ASSUME O!Fails(row)
       PROVE  /\ (oRows' = oRows /\ O!Reading' = O!Reading) \/ Grows(row)
              /\ oRows' \in Seq(JournalRows) /\ Readable' /\ oMem' = oMem
              /\ oPoisoned' \in BOOLEAN /\ oTorn' \in BOOLEAN /\ (oPoisoned' \/ ~oOpen)
              /\ oOpen' = oOpen
  BY <1>6, <1>7, <1>12, FailsFacts
<1>13. /\ oRows' \in Seq(JournalRows) /\ Readable' /\ oMem' \in Readings
       /\ oTorn' \in BOOLEAN /\ oPoisoned' \in BOOLEAN /\ oOpen' = oOpen
       /\ (oRows' = oRows /\ O!Reading' = O!Reading) \/ Grows(row)
  BY <1>3, <1>8, <1>11, <1>12
<1>14. Grows(row) => oRows' = Append(oRows, row)
  BY DEF Grows
<1>15. GroupTypes'
  <2>1. <<>> \in Seq(Kinds)
    OBVIOUS
  <2> QED
    BY <1>3, <1>6, <1>10, <1>13, <2>1 DEF GroupTypes, Out
<1>16. HasMarkers'
  <2>1. ASSUME NEW ev, NEW g, NEW i, O!Marker(ev, g, i) PROVE O!Marker(ev, g, i)'
    <3>1. \E k \in DOMAIN oRows' :
              oRows'[k].event = ev /\ oRows'[k].group = g /\ oRows'[k].sample = i
      BY <1>7, <1>8, <1>13, <1>14, <2>1, MarkersKept
    <3> QED
      BY <3>1 DEF O!Marker
  <2> QED
    BY <1>3, <2>1 DEF GroupInv, HasMarkers
<1>17. RecordsTrue'
  <2>1. Len(<<>>) = 0
    OBVIOUS
  <2> QED
    BY <1>3, <2>1 DEF RecordsTrue, Inside
<1>18. PICK x : x = <<oGroup, oStatus>>
  OBVIOUS
<1>19. ASSUME Grows(row)
       PROVE  /\ O!Range(O!Reading'.groups) = O!Range(O!Reading.groups) \cup {x}
              /\ x[2] = "completed" => Complete(oGroup)
  <2>1. /\ O!Reading = oMem /\ O!Reading' = O!Applied(oMem, row) /\ O!IsValid(row)
    BY <1>19 DEF Grows
  <2>2. O!Applied(oMem, row).groups = Append(oMem.groups, x)
    BY <1>7, <1>8, <1>18, AppliedFacts
  <2>3. oMem.groups \in Seq(Nat \X Said) /\ x \in Nat \X Said
    BY <1>8, <1>18 DEF Readings, Said
  <2>4. O!Range(Append(oMem.groups, x)) = O!Range(oMem.groups) \cup {x}
    BY <2>3, RangeAppend
  <2>5. x[2] = "completed" => Complete(oGroup)
    BY <1>1, <1>3, <1>7, <1>18, <2>1, FinalIsTrue
  <2> QED
    BY <2>1, <2>2, <2>4, <2>5
<1>20. CompleteAreTrue'
  <2>1. \A g : Complete(g) => Complete(g)'
    BY <1>3 DEF Complete
  <2>2. CASE oRows' = oRows /\ O!Reading' = O!Reading
    BY <2>1, <2>2 DEF GroupInv, CompleteAreTrue
  <2>3. CASE Grows(row)
    <3>1. x[1] = oGroup
      BY <1>18
    <3>2. ASSUME NEW f \in O!Range(O!Reading'.groups), f[2] = "completed" PROVE Complete(f[1])
      <4>1. CASE f \in O!Range(O!Reading.groups)
        BY <3>2, <4>1 DEF GroupInv, CompleteAreTrue
      <4>2. CASE f = x
        BY <1>19, <2>3, <3>1, <3>2, <4>2
      <4> QED
        BY <1>19, <2>3, <4>1, <4>2
    <3> QED
      BY <2>1, <3>2 DEF CompleteAreTrue
  <2> QED
    BY <1>13, <2>2, <2>3
<1>21. UntoldIsLast'
  <2>1. \A k \in 1 .. Len(oRows') : oRows'[k].group <= oGroup
    BY <1>7, <1>8, <1>13, <1>14, RowsBounded DEF GroupInv, UntoldIsLast
  <2>2. Untold = {}
    BY <1>3, NoneUntold DEF GroupInv, Out
  <2>3. O!Range(O!Reading.groups) \subseteq O!Range(O!Reading'.groups)
    BY <1>13, <1>19
  <2>4. \A f \in Untold' : f = e
    BY <1>10, <2>2, <2>3 DEF Untold
  <2>5. CASE O!Accepts(row)
    <3>1. e = x
      BY <1>2, <1>18, <2>5
    <3>2. Untold' = {}
      BY <1>11, <1>19, <2>4, <2>5, <3>1 DEF Untold
    <3> QED
      BY <1>3, <2>1, <3>2 DEF UntoldIsLast, Out
  <2>6. CASE O!Fails(row)
    <3>1. e[1] = oGroup /\ e[2] = "failed" /\ (oPoisoned' \/ ~oOpen')
      BY <1>9, <1>12, <2>6
    <3> QED
      BY <1>3, <1>8, <2>1, <2>4, <3>1 DEF UntoldIsLast, Out
  <2> QED
    BY <1>3, <2>5, <2>6
<1> QED
  BY <1>13, <1>15, <1>16, <1>17, <1>20, <1>21 DEF GroupInv

LEMMA GroupStepInv == GroupInv /\ [O!Next]_(O!vars) => GroupInv'
<1> SUFFICES ASSUME GroupInv, [O!Next]_(O!vars) PROVE GroupInv'
  OBVIOUS
<1>1. CASE O!Next
  BY <1>1, StartInv, MarkGroupInv, BeginInv, ObserveInv, GenerateInv, SampleInv, AdmitInv,
     MarkExecutionInv, ExecuteInv, ScoreInv, FinishInv, FileInv, InterruptGroupInv,
     InterruptFilingInv, CloseInv, KillInv DEF O!Next
<1>2. CASE UNCHANGED O!vars
  <2>1. /\ UNCHANGED <<oPc, oGroup, oActive, oRecords, oStatus, oFinish, oEvidence, oOpen,
                       oCalled, oReturned>>
        /\ Quiet
    BY <1>2 DEF O!vars, O!trainer, O!journal, Quiet
  <2>2. /\ Readable' /\ CompleteAreTrue'
        /\ \A event, g, i : O!Marker(event, g, i) => O!Marker(event, g, i)'
    BY <2>1, QuietFacts
  <2>3. GroupTypes'
    BY <2>1 DEF GroupInv, GroupTypes, Quiet
  <2>4. HasMarkers' /\ RecordsTrue'
    BY <2>1, <2>2 DEF GroupInv, HasMarkers, RecordsTrue
  <2>5. UntoldIsLast'
    BY <2>1, UntoldStays DEF GroupInv, GroupTypes
  <2> QED
    BY <2>2, <2>3, <2>4, <2>5 DEF GroupInv
<1> QED
  BY <1>1, <1>2

LEMMA GroupInvHonest == GroupInv => JournalIsHonest
<1> SUFFICES ASSUME GroupInv PROVE JournalIsHonest
  OBVIOUS
<1>1. O!ReadStatus # "INVALID"
  BY DEF GroupInv, Readable, O!ReadStatus
<1>2. \A c \in oCalled :
        /\ c[1] = "begin" => O!Marker("group_started", c[2], 0)
        /\ c[1] = "execute" => O!Marker("sample_execute_started", c[2], c[3] - 1)
  BY DEF GroupInv, HasMarkers
<1>3. \A e \in O!Range(O!Reading.groups) :
        e[2] = "completed" =>
            /\ <<"finish", e[1], 0>> \in oReturned
            /\ \A i \in 1 .. GroupSize : <<"execute", e[1], i>> \in oReturned
  BY DEF GroupInv, CompleteAreTrue, Complete
<1>4. DOMAIN oRows = 1 .. Len(oRows)
  BY DEF GroupInv, GroupTypes
<1>5. \A e \in O!Range(oEvidence) \ O!Range(O!Reading.groups) :
        /\ e[2] # "completed"
        /\ \A k \in DOMAIN oRows : oRows[k].group =< e[1]
  BY <1>4 DEF GroupInv, UntoldIsLast, Untold
<1> QED
  BY <1>1, <1>2, <1>3, <1>5 DEF JournalIsHonest, O!JournalIsHonest

(* MCParts.JournalIsHonest, for every number of groups, samples, interrupts    *)
(* and writes that are cut off: append, _apply_event and                       *)
(* read_observation_journal, and the order of the trainer's callbacks.         *)
THEOREM JournalHonest == O!Spec => []JournalIsHonest
<1>1. O!Init => GroupInv
  BY GroupInitInv
<1>2. GroupInv /\ [O!Next]_(O!vars) => GroupInv'
  BY GroupStepInv
<1>3. GroupInv => JournalIsHonest
  BY GroupInvHonest
<1> QED
  BY <1>1, <1>2, <1>3, PTL DEF O!Spec
=============================================================================
