----------------------------- MODULE CallLedger -----------------------------
(***************************************************************************)
(* What a shared call budget promises the agents that draw on it, with no  *)
(* counter of reservations: an agent holds at most one permit, a permit is *)
(* either spent (a runtime call was made) or handed back, and permits held *)
(* plus calls spent never exceed limit, whatever order the agents run in.  *)
(* limit is the number of calls the approval in force allows; it is fixed  *)
(* for one execution.                                                      *)
(***************************************************************************)
EXTENDS Naturals, FiniteSets

CONSTANT Agent

VARIABLES limit,      \* the calls allowed in all
          spent,      \* calls made so far
          holders     \* agents between taking a permit and using it

ledger == <<limit, spent, holders>>

Init ==
  /\ limit \in Nat
  /\ spent = 0
  /\ holders = {}

Take(a) ==
  /\ a \notin holders
  /\ spent + Cardinality(holders) < limit
  /\ holders' = holders \cup {a}
  /\ UNCHANGED <<limit, spent>>

Spend(a) ==
  /\ a \in holders
  /\ holders' = holders \ {a}
  /\ spent' = spent + 1
  /\ UNCHANGED limit

HandBack(a) ==
  /\ a \in holders
  /\ holders' = holders \ {a}
  /\ UNCHANGED <<limit, spent>>

Next == \E a \in Agent : Take(a) \/ Spend(a) \/ HandBack(a)

Spec == Init /\ [][Next]_ledger

=============================================================================
