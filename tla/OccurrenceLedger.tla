-------------------------- MODULE OccurrenceLedger --------------------------
(***************************************************************************)
(* What durable admission promises of alert occurrences, without processes, *)
(* queues, tasks or crashes: an occurrence is free, reserved for one        *)
(* dispatch, or spent; a reservation may be withdrawn until it is spent; a  *)
(* handler runs only on occurrences that were reserved for its dispatch and *)
(* are spent by it, once.  IncidentDispatch implements it.                  *)
(***************************************************************************)
EXTENDS Naturals, Sequences

CONSTANTS Keys, MaxDispatch

Token == 1 .. MaxDispatch
Free  == [state |-> "none", token |-> 0]
Reserved(t) == [state |-> "queued", token |-> t]
Spent(t)    == [state |-> "attempted", token |-> t]

VARIABLES row,  \* occurrence -> free, reserved or spent
          made, \* number of reservations made so far
          ran   \* tokens in the order their handlers ran

ledger == <<row, made, ran>>

Init == row = [k \in Keys |-> Free] /\ made = 0 /\ ran = <<>>

(* Some of the free occurrences are reserved under a fresh token. *)
Reserve ==
    /\ made + 1 \in Token
    /\ made' = made + 1
    /\ \E ks \in (SUBSET {k \in Keys : row[k] = Free}) \ {{}} :
          row' = [k \in Keys |-> IF k \in ks THEN Reserved(made + 1) ELSE row[k]]
    /\ UNCHANGED ran

Withdraw(t) ==
    /\ row' = [k \in Keys |-> IF row[k] = Reserved(t) THEN Free ELSE row[k]]
    /\ UNCHANGED <<made, ran>>

Spend(t) ==
    /\ \E k \in Keys : row[k] = Reserved(t)
    /\ row' = [k \in Keys |-> IF row[k] = Reserved(t) THEN Spent(t) ELSE row[k]]
    /\ UNCHANGED <<made, ran>>

Run(t) ==
    /\ \E k \in Keys : row[k] = Spent(t)
    /\ \A k \in Keys : row[k] # Reserved(t)
    /\ \A n \in DOMAIN ran : ran[n] # t
    /\ ran' = Append(ran, t)
    /\ UNCHANGED <<row, made>>

Next == Reserve \/ \E t \in Token : Withdraw(t) \/ Spend(t) \/ Run(t)

Spec == Init /\ [][Next]_ledger
=============================================================================
