----------------------------- MODULE RunPromise -----------------------------
(***************************************************************************)
(* What a durable run promises its user, said without requests, attempts,  *)
(* checkpoints or faults: the results of steps are recorded once and for   *)
(* all, a step has a result only when user code could have called it on    *)
(* the results recorded, and the run completes only when user code could   *)
(* have returned on them.                                                  *)
(***************************************************************************)
EXTENDS Naturals

CONSTANTS
  Steps,        \* ids of the steps of the function
  CallAfter,    \* [Steps -> SUBSET SUBSET Steps]: the alternatives after which a step is called
  ReturnAfter,  \* SUBSET SUBSET Steps: the alternatives after which the function returns
  Caught        \* the steps whose rejection user code catches

VARIABLES
  results,      \* the recorded result of each step
  outcome       \* of the run

promiseVars == <<results, outcome>>

StepValue == {"none", "ok", "err"}

\* The steps user code can go on from, given the recorded results.
Passed(m) == {s \in Steps : m[s] = "ok" \/ (m[s] = "err" /\ s \in Caught)}
Enough(m, alternatives) == \E A \in alternatives : A \subseteq Passed(m)

PromiseTypeOK ==
  /\ results \in [Steps -> StepValue]
  /\ outcome \in {"running", "completed", "failed"}

PromiseInit ==
  /\ results = [s \in Steps |-> "none"]
  /\ outcome = "running"

\* Results are only added, and only for steps that user code could have called.
Grows ==
  /\ results' \in [Steps -> StepValue]
  /\ \A s \in Steps :
       IF results[s] # "none"
         THEN results'[s] = results[s]
         ELSE results'[s] # "none" => Enough(results', CallAfter[s])

Record == outcome = "running" /\ Grows /\ UNCHANGED outcome

Complete ==
  /\ outcome = "running" /\ Grows
  /\ Enough(results', ReturnAfter)
  /\ outcome' = "completed"

Fail == outcome = "running" /\ Grows /\ outcome' = "failed"

PromiseNext == Record \/ Complete \/ Fail

PromiseSpec == PromiseInit /\ [][PromiseNext]_promiseVars
=============================================================================
