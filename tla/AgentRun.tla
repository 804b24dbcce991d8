------------------------------ MODULE AgentRun ------------------------------
(***************************************************************************)
(* What the AgentRuntime protocol (adapters/runtime.py) promises about one *)
(* run, whichever adapter implements it: submit hands out a handle once,   *)
(* the run gets one terminal result that never changes, every wait answers *)
(* with that result, and quiesce succeeds only after it.  A run may finish *)
(* in the very step that hands it out, and be recorded as finished by the  *)
(* step that answers.                                                      *)
(***************************************************************************)
CONSTANTS Results,      \* terminal results
          NoResult      \* none recorded yet

VARIABLES handed,       \* has submit returned the handle?
          result,       \* the recorded result
          answers,      \* results wait has returned
          released      \* has quiesce succeeded?

run == <<handed, result, answers, released>>

Init ==
  /\ handed = FALSE
  /\ result = NoResult
  /\ answers = {}
  /\ released = FALSE

Record == result = NoResult /\ result' \in Results
Keep == result' = result

HandOut ==
  /\ ~handed /\ handed'
  /\ Record \/ Keep
  /\ UNCHANGED <<answers, released>>

Finish ==
  /\ handed
  /\ Record
  /\ UNCHANGED <<handed, answers, released>>

Answer ==
  /\ handed
  /\ Record \/ Keep
  /\ result' \in Results
  /\ answers' = answers \cup {result'}
  /\ UNCHANGED <<handed, released>>

Release ==
  /\ handed
  /\ result \in Results
  /\ released' = TRUE
  /\ UNCHANGED <<handed, result, answers>>

Next == HandOut \/ Finish \/ Answer \/ Release

Spec == Init /\ [][Next]_run

=============================================================================
