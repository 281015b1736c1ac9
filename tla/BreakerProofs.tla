---------------------------- MODULE BreakerProofs ----------------------------
(***************************************************************************)
(* What each method of the breaker leaves of its state, for the proofs of    *)
(* the modules that use it.                                                 *)
(***************************************************************************)
EXTENDS Breaker, TLAPS

(* The constructor and reset() give a breaker with every counter at zero. *)
LEMMA ClosedFacts ==
    /\ Closed \in Breaker /\ Closed.active = 0 /\ Closed.spent = 0
    /\ ~Closed.stale /\ ~Closed.tripped /\ \A i \in Incidents : Closed.calls[i] = 0
BY BreakerAssumption DEF Closed, Breaker

(* start_incident() counts one more incident and changes nothing else. *)
LEMMA EnteredFacts ==
    ASSUME NEW b \in Breaker
    PROVE  /\ Entered(b) \in Breaker /\ Entered(b).active = b.active + 1
           /\ Entered(b).calls = b.calls /\ Entered(b).spent = b.spent
           /\ Entered(b).stale = b.stale
BY DEF Entered, Breaker

(* _roll_hour_window() empties the quota of an hour that is over, and only that. *)
LEMMA RolledFacts ==
    ASSUME NEW b \in Breaker
    PROVE  /\ Rolled(b) \in Breaker /\ ~Rolled(b).stale
           /\ Rolled(b).active = b.active /\ Rolled(b).calls = b.calls
           /\ Rolled(b).spent = IF b.stale THEN 0 ELSE b.spent
<1>1. CASE b.stale
  <2> DEFINE emptied == [b EXCEPT !.spent = 0]
  <2>1. /\ emptied \in Breaker /\ emptied.spent = 0
        /\ emptied.active = b.active /\ emptied.calls = b.calls
    BY BreakerAssumption DEF Breaker
  <2>2. Rolled(b) = [emptied EXCEPT !.stale = FALSE]
    BY <1>1 DEF Rolled
  <2> HIDE DEF emptied
  <2>3. /\ [emptied EXCEPT !.stale = FALSE] \in Breaker
        /\ ~[emptied EXCEPT !.stale = FALSE].stale
        /\ [emptied EXCEPT !.stale = FALSE].spent = emptied.spent
        /\ [emptied EXCEPT !.stale = FALSE].active = emptied.active
        /\ [emptied EXCEPT !.stale = FALSE].calls = emptied.calls
    BY <2>1 DEF Breaker
  <2> QED BY <1>1, <2>1, <2>2, <2>3
<1>2. CASE ~b.stale
  BY <1>2 DEF Rolled, Breaker
<1> QED BY <1>1, <1>2

(* pause() opens the breaker and keeps its counts. *)
LEMMA PausedFacts ==
    ASSUME NEW b \in Breaker
    PROVE  /\ Paused(b) \in Breaker /\ Paused(b).active = b.active
           /\ Paused(b).calls = b.calls /\ Paused(b).stale = b.stale
           /\ Paused(b).spent = b.spent
BY DEF Paused, Breaker

(* c is what a run of i leaves of b when it finishes. *)
LeavesOf(b, i, c) ==
    /\ c \in Breaker /\ c.active = Fewer(b.active) /\ c.spent = b.spent
    /\ c.calls = [b.calls EXCEPT ![i] = 0] /\ c.stale = b.stale

(* finish_incident() gives the place back, forgets the calls of the run and never closes the breaker. *)
LEMMA LeftFacts ==
    ASSUME NEW b \in Breaker, NEW i \in Incidents, NEW resolved, NEW reason
    PROVE  LeavesOf(b, i, Left(b, i, resolved, reason))
<1> DEFINE counted  == ~resolved /\ reason \notin Designed
           failures == IF resolved THEN 0 ELSE IF counted THEN b.failures + 1 ELSE b.failures
           places   == Fewer(b.active)
           tripped  == b.tripped \/ (counted /\ failures >= Threshold)
           first    == [b EXCEPT !.calls = [b.calls EXCEPT ![i] = 0]]
           second   == [first EXCEPT !.active = places]
           third    == [second EXCEPT !.failures = failures]
<1>1. /\ failures \in Nat /\ places \in Nat /\ tripped \in BOOLEAN
      /\ [b.calls EXCEPT ![i] = 0] \in [Incidents -> 0 .. MaxCalls]
  <2>1. failures \in Nat /\ places \in Nat
    BY DEF Breaker, Fewer
  <2>2. [b.calls EXCEPT ![i] = 0] \in [Incidents -> 0 .. MaxCalls]
    BY BreakerAssumption DEF Breaker
  <2>3. b.tripped \in BOOLEAN
    BY DEF Breaker
  <2> QED BY <2>1, <2>2, <2>3
<1>2. Left(b, i, resolved, reason) = [third EXCEPT !.tripped = tripped]
  BY DEF Left
<1> HIDE DEF counted, failures, places, tripped
<1>3. /\ first \in Breaker /\ first.active = b.active /\ first.spent = b.spent
      /\ first.calls = [b.calls EXCEPT ![i] = 0] /\ first.stale = b.stale
  BY <1>1 DEF Breaker
<1> HIDE DEF first
<1>4. /\ second \in Breaker /\ second.active = places /\ second.spent = first.spent
      /\ second.calls = first.calls /\ second.stale = first.stale
  BY <1>1, <1>3 DEF Breaker
<1> HIDE DEF second
<1>5. /\ third \in Breaker /\ third.active = places /\ third.spent = second.spent
      /\ third.calls = second.calls /\ third.stale = second.stale
  BY <1>1, <1>4 DEF Breaker
<1> HIDE DEF third
<1>6. /\ [third EXCEPT !.tripped = tripped] \in Breaker
      /\ [third EXCEPT !.tripped = tripped].active = third.active
      /\ [third EXCEPT !.tripped = tripped].spent = third.spent
      /\ [third EXCEPT !.tripped = tripped].calls = third.calls
      /\ [third EXCEPT !.tripped = tripped].stale = third.stale
  BY <1>1, <1>5 DEF Breaker
<1> QED BY <1>2, <1>3, <1>4, <1>5, <1>6 DEF places, LeavesOf

(* check_before_tool_call() counts a granted call, and never beyond a limit. *)
LEMMA CheckedFacts ==
    ASSUME NEW b \in Breaker, NEW i \in Incidents, NEW mutating \in BOOLEAN
    PROVE  LET c == Checked(b, i, mutating)  spent == IF b.stale THEN 0 ELSE b.spent
           IN  /\ c \in Breaker /\ c.active = b.active /\ ~c.stale
               /\ Grants(b, i, mutating) =>
                     /\ c.calls = [b.calls EXCEPT ![i] = @ + 1]
                     /\ b.calls[i] < MaxCalls
               /\ Grants(b, i, mutating) /\ mutating => c.spent = spent + 1
               /\ ~(Grants(b, i, mutating) /\ mutating) => c.spent = spent
               /\ c.calls = b.calls \/ c.calls = [b.calls EXCEPT ![i] = @ + 1]
<1> DEFINE r == Rolled(b)
           counted == [r EXCEPT !.calls[i] = @ + 1]
<1>1. /\ r \in Breaker /\ ~r.stale /\ r.active = b.active /\ r.calls = b.calls
      /\ r.spent = IF b.stale THEN 0 ELSE b.spent
  BY RolledFacts
<1>2. CASE b.tripped \/ b.calls[i] >= MaxCalls
  <2>1. ~Grants(b, i, mutating)
    BY <1>2, BreakerAssumption DEF Grants, Breaker
  <2> QED BY <1>1, <1>2, <2>1 DEF Checked
<1>3. CASE ~(b.tripped \/ b.calls[i] >= MaxCalls)
  <2>1. b.calls[i] + 1 \in 0 .. MaxCalls /\ b.calls[i] < MaxCalls
    BY <1>3, BreakerAssumption DEF Breaker
  <2> HIDE DEF r
  <2>2. /\ counted \in Breaker /\ ~counted.stale /\ counted.active = b.active
        /\ counted.calls = [b.calls EXCEPT ![i] = @ + 1] /\ counted.spent = r.spent
    BY <1>1, <2>1 DEF Breaker
  <2>3. Checked(b, i, mutating) =
          IF Grants(b, i, mutating) /\ mutating
          THEN [counted EXCEPT !.spent = @ + 1] ELSE counted
    BY <1>3 DEF Checked, r
  <2>4. CASE Grants(b, i, mutating) /\ mutating
    <3>1. r.spent < MaxMutations
      BY <2>4 DEF Grants, r
    <3>2. r.spent + 1 \in 0 .. MaxMutations
      BY <1>1, <3>1, BreakerAssumption DEF Breaker
    <3> HIDE DEF counted
    <3>3. /\ [counted EXCEPT !.spent = @ + 1] \in Breaker
          /\ [counted EXCEPT !.spent = @ + 1].active = counted.active
          /\ [counted EXCEPT !.spent = @ + 1].calls = counted.calls
          /\ [counted EXCEPT !.spent = @ + 1].stale = counted.stale
          /\ [counted EXCEPT !.spent = @ + 1].spent = r.spent + 1
      BY <2>2, <3>2 DEF Breaker
    <3> QED BY <1>1, <2>1, <2>2, <2>3, <2>4, <3>3
  <2>5. CASE ~(Grants(b, i, mutating) /\ mutating)
    <3> HIDE DEF counted
    <3> QED BY <1>1, <2>1, <2>2, <2>3, <2>5
  <2> QED BY <2>4, <2>5
<1> QED BY <1>2, <1>3

(* Neither a start, a pause nor a call counts a failure, and only a pause opens. *)
LEMMA StreakKept ==
    ASSUME NEW b \in Breaker
    PROVE  /\ Entered(b).failures = b.failures /\ Entered(b).tripped = b.tripped
           /\ Rolled(b).failures = b.failures /\ Rolled(b).tripped = b.tripped
           /\ Paused(b).failures = b.failures /\ Paused(b).tripped = TRUE
           /\ \A i \in Incidents, m \in BOOLEAN :
                 /\ Checked(b, i, m).failures = b.failures
                 /\ Checked(b, i, m).tripped = b.tripped
<1>1. Entered(b).failures = b.failures /\ Entered(b).tripped = b.tripped
  BY DEF Entered, Breaker
<1> DEFINE r == Rolled(b)
<1>2. r.failures = b.failures /\ r.tripped = b.tripped /\ r \in Breaker
  <2>1. CASE b.stale
    <3> DEFINE emptied == [b EXCEPT !.spent = 0]
    <3>1. emptied \in Breaker /\ emptied.failures = b.failures /\ emptied.tripped = b.tripped
      BY BreakerAssumption DEF Breaker
    <3>2. Rolled(b) = [emptied EXCEPT !.stale = FALSE]
      BY <2>1 DEF Rolled
    <3> HIDE DEF emptied
    <3>3. /\ [emptied EXCEPT !.stale = FALSE].failures = emptied.failures
          /\ [emptied EXCEPT !.stale = FALSE].tripped = emptied.tripped
      BY <3>1 DEF Breaker
    <3> QED BY <3>1, <3>2, <3>3, RolledFacts
  <2>2. CASE ~b.stale
    BY <2>2 DEF Rolled
  <2> QED BY <2>1, <2>2
<1> HIDE DEF r
<1>3. Paused(b).failures = b.failures /\ Paused(b).tripped = TRUE
  BY DEF Paused, Breaker
<1>4. ASSUME NEW i \in Incidents, NEW m \in BOOLEAN
      PROVE  /\ Checked(b, i, m).failures = b.failures
             /\ Checked(b, i, m).tripped = b.tripped
  <2> DEFINE counted == [r EXCEPT !.calls[i] = @ + 1]
  <2>1. counted.failures = r.failures /\ counted.tripped = r.tripped
        /\ DOMAIN counted = DOMAIN r
    BY <1>2 DEF Breaker
  <2>2. Checked(b, i, m) \in {r, counted, [counted EXCEPT !.spent = @ + 1]}
    BY DEF Checked, r
  <2> HIDE DEF counted
  <2>3. /\ [counted EXCEPT !.spent = @ + 1].failures = counted.failures
        /\ [counted EXCEPT !.spent = @ + 1].tripped = counted.tripped
    BY <1>2, <2>1 DEF Breaker
  <2> QED BY <1>2, <2>1, <2>2, <2>3
<1> QED BY <1>1, <1>2, <1>3, <1>4 DEF r

(* finish_incident() counts an error, forgets them after a success, and opens at the threshold. *)
LEMMA LeftStreak ==
    ASSUME NEW b \in Breaker, NEW i \in Incidents, NEW resolved \in BOOLEAN, NEW reason
    PROVE  LET c == Left(b, i, resolved, reason)  counted == ~resolved /\ reason \notin Designed
           IN  /\ resolved => c.failures = 0 /\ c.tripped = b.tripped
               /\ ~resolved /\ ~counted => c.failures = b.failures /\ c.tripped = b.tripped
               /\ counted => /\ c.failures = b.failures + 1
                             /\ c.tripped = (b.tripped \/ b.failures + 1 >= Threshold)
<1> DEFINE counted  == ~resolved /\ reason \notin Designed
           failures == IF resolved THEN 0 ELSE IF counted THEN b.failures + 1 ELSE b.failures
           places   == Fewer(b.active)
           tripped  == b.tripped \/ (counted /\ failures >= Threshold)
           first    == [b EXCEPT !.calls = [b.calls EXCEPT ![i] = 0]]
           second   == [first EXCEPT !.active = places]
           third    == [second EXCEPT !.failures = failures]
<1>1. Left(b, i, resolved, reason) = [third EXCEPT !.tripped = tripped]
  BY DEF Left
<1> HIDE DEF counted, failures, places, tripped
<1>2. {"failures", "tripped"} \subseteq DOMAIN first
  BY DEF Breaker
<1> HIDE DEF first
<1>3. {"failures", "tripped"} \subseteq DOMAIN second
  BY <1>2
<1> HIDE DEF second
<1>4. third.failures = failures /\ {"failures", "tripped"} \subseteq DOMAIN third
  BY <1>3
<1> HIDE DEF third
<1>5. /\ [third EXCEPT !.tripped = tripped].failures = failures
      /\ [third EXCEPT !.tripped = tripped].tripped = tripped
  BY <1>4
<1>6. b.failures \in Nat /\ b.tripped \in BOOLEAN
  BY DEF Breaker
<1> QED BY <1>1, <1>5, <1>6 DEF counted, failures, tripped
=============================================================================
