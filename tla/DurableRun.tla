------------------------------ MODULE DurableRun ------------------------------
(***************************************************************************)
(* A durable run from its first request to its end: the execution engine   *)
(* (module Execution) composed with the Inngest Server, which is outside   *)
(* the repository.  The server is modelled from what the SDK sends it and  *)
(* expects of it: it memoizes step results, plans the steps it is told of, *)
(* ends those without a body itself (a sleep is over, an event arrives, an *)
(* invoked function returns), counts attempts per queue item, and sends    *)
(* one request after another.                                              *)
(*                                                                         *)
(* Faults: the process dies, a checkpoint call fails for good (recorded by *)
(* the server or not), or the server gives a request up and sends its      *)
(* queue item again while the old request still runs (a stale dispatch).   *)
(***************************************************************************)
EXTENDS Execution

CONSTANTS
  MaxFaults   \* bound: faults of the environment in one behaviour

ASSUME MaxFaultsAssumption == MaxFaults \in Nat

VARIABLES
  memo,       \* the results the server has recorded
  completion, \* the order in which it recorded them
  planned,    \* steps with a queue item of their own, and waits under way
  discovery,  \* discovery requests due, one being served included (more merge into one)
  attempts,   \* attempt of the queue item of each step, and of discovery
  received,   \* defers the server has received
  outcome,    \* of the run
  stale,      \* the request being served has been given up
  recorded,   \* the server has applied the checkpoint in flight
  faults,     \* faults so far
  history     \* what has happened so far: see below

serverVars == <<memo, completion, planned, discovery, attempts, received, outcome>>
vars == <<engineVars, serverVars, stale, recorded, faults, history>>

\* History, for the properties only:
\*   runs       how often the body of each step has succeeded in the run, capped at 2
\*   ranHere    steps whose body has succeeded in the request being served
\*   staleStarts  bodies started in it since it was given up
\*   throws     how often it has thrown, capped at MaxAttempts
\*   seen       results in the order user code first saw them
\*   deferred   defers user code has called before it settled
\*   notFound   a request has answered that it did not find its step
History == [runs : [Steps -> 0 .. 2], ranHere : SUBSET Steps, staleStarts : Nat,
            throws : [Steps -> 0 .. MaxAttempts], seen : Seq(Steps), deferred : SUBSET Defers,
            notFound : BOOLEAN]

RunTypeOK ==
  /\ TypeOK
  /\ memo \in [Steps -> StepValue]
  /\ completion \in Seq(Steps)
  /\ planned \subseteq Steps
  /\ discovery \in 0 .. 2
  /\ attempts \in [Steps \cup {NoStep} -> 0 .. MaxAttempts - 1]
  /\ received \subseteq Defers
  /\ outcome \in {"running", "completed", "failed"}
  /\ stale \in BOOLEAN
  /\ recorded \in BOOLEAN
  /\ faults \in 0 .. MaxFaults
  /\ history \in History

Init ==
  /\ memo = [s \in Steps |-> "none"]
  /\ completion = <<>> /\ planned = {} /\ discovery = 1
  /\ attempts = [i \in Steps \cup {NoStep} |-> 0]
  /\ received = {} /\ outcome = "running"
  /\ stale = FALSE /\ recorded = FALSE /\ faults = 0
  /\ history = [runs |-> [s \in Steps |-> 0], ranHere |-> {}, staleStarts |-> 0,
                throws |-> [s \in Steps |-> 0], seen |-> <<>>, deferred |-> {}, notFound |-> FALSE]
  /\ req = [step |-> NoStep, attempt |-> 0, die |-> FALSE]
  /\ stepState = [s \in Steps |-> "none"]
  /\ order = <<>> /\ found = {} /\ resolved = <<>> /\ toReport = {} /\ ticking = FALSE
  /\ queue = <<>> /\ pc = PcAt("off") /\ buffer = <<>> /\ lazy = {}
  /\ seenDefers = {} /\ priorDefers = {} /\ exceeded = FALSE /\ timers = {}
  /\ fn = "running" /\ response = NoResponse

-----------------------------------------------------------------------------
(* The server.                                                             *)

\* Send the next due request.  Immediate execution is off while steps are planned.
Dispatch ==
  /\ outcome = "running" /\ pc.at = "off"
  /\ \E item \in (planned \ Waits) \cup (IF discovery > 0 THEN {NoStep} ELSE {}) :
       StartRequest([step |-> item, attempt |-> attempts[item], die |-> planned # {}],
                    memo, completion, received)
  /\ stale' = FALSE /\ recorded' = FALSE
  /\ history' = [history EXCEPT !.ranHere = {}, !.staleStarts = 0]
  /\ UNCHANGED <<serverVars, faults>>

\* The results to memoize: none when a step is to be retried, or when the batch
\* repeats one the server has applied already.
NewResults(ran) ==
  IF \A i \in DOMAIN ran : ran[i].kind # "error" /\ memo[ran[i].step] = "none" THEN ran ELSE <<>>

ValueOf(kind) == IF kind = "ok" THEN "ok" ELSE "err"

RecordResults(batch) ==
  LET new == NewResults(batch.ran)
  IN /\ memo' = [s \in Steps |->
                   IF \E i \in DOMAIN new : new[i].step = s
                     THEN ValueOf(new[CHOOSE i \in DOMAIN new : new[i].step = s].kind)
                     ELSE memo[s]]
     /\ completion' = completion \o [i \in DOMAIN new |-> new[i].step]
     /\ received' = received \cup batch.defers

\* The server applies a checkpoint, at some point before the call returns.
RecordCheckpoint ==
  /\ pc.at = "checkpoint" /\ ~stale /\ ~recorded
  /\ RecordResults(CheckpointBatch)
  /\ recorded' = TRUE
  /\ UNCHANGED <<engineVars, planned, discovery, attempts, outcome, stale, faults, history>>

Retry(item) ==
  IF attempts[item] + 1 < MaxAttempts
    THEN attempts' = [attempts EXCEPT ![item] = @ + 1] /\ UNCHANGED outcome
    ELSE outcome' = "failed" /\ UNCHANGED attempts

\* The server applies a response.  A stale response is ignored.
ApplyResponse ==
  /\ pc.at = "done"
  /\ pc' = PcAt("off")
  /\ LET batch == response.batch
         item == req.step
         retried == \/ response.type = "step-not-found"
                    \/ batch.end = "error"
                    \/ \E i \in DOMAIN batch.ran : batch.ran[i].kind = "error"
     IN IF stale
          THEN UNCHANGED serverVars
          ELSE /\ RecordResults(batch)
               /\ CASE batch.end \in {"complete", "failed"} ->
                         /\ outcome' = IF batch.end = "complete" THEN "completed" ELSE "failed"
                         /\ UNCHANGED <<planned, discovery, attempts>>
                    [] batch.end \notin {"complete", "failed"} /\ retried ->
                         Retry(item) /\ UNCHANGED <<planned, discovery>>
                    [] OTHER ->
                         /\ planned' = {s \in (planned \ {item}) \cup batch.plan : memo'[s] = "none"}
                         /\ discovery' = IF batch.plan = {} \/ (item = NoStep /\ discovery = 2) THEN 1
                                         ELSE IF item = NoStep THEN 0 ELSE discovery
                         /\ attempts' = [attempts EXCEPT ![item] = 0]
                         /\ UNCHANGED outcome
  /\ UNCHANGED <<requestVars, userVars, shipVars, queue, exceeded, timers, response,
                 stale, recorded, faults, history>>

\* A wait ends, whatever request is being served: the function is to be discovered anew.
WaitEnds(s) ==
  /\ outcome = "running" /\ s \in planned \cap Waits
  /\ \E value \in IF s \in Failing THEN {"ok", "err"} ELSE {"ok"} :
       memo' = [memo EXCEPT ![s] = value]
  /\ completion' = Append(completion, s)
  /\ planned' = planned \ {s}
  /\ discovery' = IF pc.at # "off" /\ req.step = NoStep THEN 2 ELSE 1
  /\ UNCHANGED <<engineVars, attempts, received, outcome, stale, recorded, faults, history>>

-----------------------------------------------------------------------------
(* The engine, with what its steps add to the history.                     *)

Capped(n, bound) == IF n > bound THEN bound ELSE n

\* A step of the engine shows user code one result at most.
SeenAfter(seen) ==
  IF resolved' = resolved \/ Contains(seen, Last(resolved')) THEN seen
  ELSE Append(seen, Last(resolved'))

Observed(h) ==
  [h EXCEPT !.seen = SeenAfter(@),
            !.deferred = IF fn = "running" THEN @ \cup seenDefers' ELSE @,
            !.notFound = @ \/ (pc.at = "loop" /\ pc'.at = "done" /\ response'.type = "step-not-found"),
            !.staleStarts = IF stale /\ pc.at # "exec" /\ pc'.at = "exec" THEN @ + 1 ELSE @]

EngineMoves ==
  /\ EngineStep
  /\ history' = Observed(history)
  /\ UNCHANGED <<serverVars, stale, recorded, faults>>

StepSucceeds ==
  /\ BodySucceeds
  /\ history' = [Observed(history) EXCEPT !.runs[pc.step] = Capped(@ + 1, 2), !.ranHere = @ \cup {pc.step}]
  /\ UNCHANGED <<serverVars, stale, recorded, faults>>

StepThrows ==
  /\ BodyThrows
  /\ history' = [history EXCEPT !.throws[pc.step] = Capped(@ + 1, MaxAttempts)]
  /\ UNCHANGED <<serverVars, stale, recorded, faults>>

CheckpointOk ==
  /\ recorded /\ CheckpointSucceeds
  /\ recorded' = FALSE
  /\ UNCHANGED <<serverVars, stale, faults, history>>

CheckpointRefused ==
  /\ stale /\ ~recorded /\ CheckpointIsStale
  /\ UNCHANGED <<serverVars, stale, recorded, faults, history>>

-----------------------------------------------------------------------------
(* Faults.                                                                 *)

Fault == faults < MaxFaults /\ faults' = faults + 1

\* The call's retries are exhausted; the server may have applied it all the same.
CheckpointLost ==
  /\ Fault /\ ~stale /\ CheckpointFails
  /\ recorded' = FALSE
  /\ UNCHANGED <<serverVars, stale, history>>

\* The process dies; the server sends the queue item again.
Crash ==
  /\ Fault /\ Running
  /\ pc' = PcAt("off") /\ recorded' = FALSE
  /\ UNCHANGED <<requestVars, userVars, shipVars, queue, exceeded, timers, response,
                 serverVars, stale, history>>

\* The server gives the request up and will send its queue item again.
GiveUp ==
  /\ Fault /\ Running /\ ~stale
  /\ stale' = TRUE
  /\ UNCHANGED <<engineVars, serverVars, recorded, history>>

\* The run has ended and nothing more happens.
Ended == outcome # "running" /\ pc.at = "off" /\ UNCHANGED vars

Next ==
  \/ Dispatch \/ EngineMoves \/ StepSucceeds \/ StepThrows
  \/ RecordCheckpoint \/ CheckpointOk \/ CheckpointRefused
  \/ ApplyResponse \/ (\E s \in Waits : WaitEnds(s))
  \/ CheckpointLost \/ Crash \/ GiveUp
  \/ Ended

Spec == Init /\ [][Next]_vars

\* The event loop keeps turning and the server keeps answering; user code, step
\* bodies and waits end.  Faults need not happen.
Fairness ==
  /\ WF_vars(Dispatch) /\ WF_vars(EngineMoves) /\ WF_vars(StepSucceeds \/ StepThrows)
  /\ WF_vars(RecordCheckpoint) /\ WF_vars(CheckpointOk) /\ WF_vars(CheckpointRefused)
  /\ WF_vars(ApplyResponse) /\ WF_vars(\E s \in Waits : WaitEnds(s))

FairSpec == Spec /\ Fairness

-----------------------------------------------------------------------------
(* Properties.                                                             *)

\* A request never answers without the results of the steps it ran: each is
\* recorded by the server or is in the response (createCheckpointHandlers flushes
\* checkpointingStepBuffer on every path that returns).
NoLostResults ==
  pc.at = "done" /\ ~stale =>
    \A s \in history.ranHere :
      memo[s] # "none" \/ \E i \in DOMAIN response.batch.ran : response.batch.ran[i].step = s

\* What a crash can make the run repeat: never more than bufferedSteps results of
\* this request are unknown to the server (attemptCheckpointAndResume).
LossWindow ==
  Running => Cardinality({s \in history.ranHere : memo[s] = "none"}) <= Max({1, BufferedSteps})

\* Without faults every step body succeeds at most once in the run, however many
\* requests replay the function (memoization, immediate execution, checkpointing).
ExactlyOnce == faults = 0 => \A s \in Steps : history.runs[s] <= 1

\* A step's result is recorded after results that let user code call it, whatever
\* was buffered, checkpointed, returned or lost in between.
RecordedInProgramOrder ==
  \A i \in DOMAIN completion :
    \E A \in CallAfter[completion[i]] :
      \A s \in A : \E j \in 1 .. i - 1 : completion[j] = s

\* A run completes only with every result user code returned on: RunComplete does
\* not overtake the buffered steps.
CompleteHasResults ==
  outcome = "completed" => \E A \in ReturnAfter : \A s \in A : memo[s] # "none"

\* A step has all its attempts: when its body starts at attempt n it has thrown n
\* times before, so no step inherits the attempts that another step of the same
\* request has used up (attemptCheckpointAndResume, startedAsRetry).  Only user
\* code that throws, a step that was not found and a fault use attempts otherwise.
FullRetryBudget ==
  pc.at = "exec" /\ faults = 0 /\ ~MayThrow /\ ~history.notFound
    => history.throws[pc.step] >= req.attempt

\* A request whose queue item has gone stale halts at its next checkpoint: it
\* starts no more than bufferedSteps bodies (isStaleDispatchError).
StaleRunsBounded == history.staleStarts <= Max({1, BufferedSteps})

\* Replay shows user code results in the order it first saw them, so a race has
\* the same winner in every request (stepCompletionOrder, reportNextTick).
DeterministicReplay ==
  PromptUser /\ faults = 0 =>
    \A i, j \in DOMAIN resolved :
      i < j => \E k, l \in DOMAIN history.seen :
                 k < l /\ history.seen[k] = resolved[i] /\ history.seen[l] = resolved[j]

\* Every defer user code has called before it returned reaches the server by the
\* time the run completes (attachLazyOps, maybeReturnNewSteps, checkpoint).
DefersReachServer == outcome = "completed" => history.deferred \subseteq received

\* While results are buffered a timer is running that will checkpoint them
\* (checkpointing.maxInterval: "the maximum interval to wait before checkpointing").
IntervalArmed ==
  Running /\ pc.at # "checkpoint" /\ buffer # <<>> /\ "interval" \in CheckpointTimers =>
    \/ "interval" \in timers
    \/ \E i \in DOMAIN queue : queue[i].type = "checkpointing-buffer-interval-reached"

\* The run keeps the promise of module RunPromise: recorded results never change,
\* a step is recorded on results that let user code call it, and the run ends
\* once, completed only on results that let user code return.
Promise == INSTANCE RunPromise WITH
  results <- memo, CallAfter <- [s \in Steps |-> CallAfter[s]]
KeepsPromise == Promise!PromiseSpec

\* The run ends: no request hangs and no queue item is forgotten.
RunEnds == <>(outcome # "running")
=============================================================================
