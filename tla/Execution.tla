------------------------------ MODULE Execution ------------------------------
(***************************************************************************)
(* One request of a durable run inside the SDK: the execution engine of    *)
(* packages/inngest/src/components/execution/engine.ts in the step modes   *)
(* Async and AsyncCheckpointing.                                           *)
(*                                                                         *)
(* User code runs concurrently with the core loop.  User code calls steps  *)
(* and defers and waits for the promises of steps; the core loop takes     *)
(* checkpoints one at a time from a FIFO queue, runs at most one step body *)
(* at a time, and ends by returning a result to the Inngest Server.        *)
(*                                                                         *)
(* The user function is a constant: CallAfter[c] holds the alternatives    *)
(* after which user code calls c (Promise.all is one alternative with      *)
(* several steps, Promise.race is several alternatives), and ReturnAfter   *)
(* the alternatives after which it returns.                                *)
(*                                                                         *)
(* This module declares the engine; module DurableRun composes it with     *)
(* the Inngest Server and closes the next-state relation.                  *)
(***************************************************************************)
EXTENDS Naturals, Sequences, FiniteSets, SequencesExt

CONSTANTS
  Steps,          \* ids of the steps of the function
  Waits,          \* those without a body: sleep, waitForEvent, invoke, ...
  Defers,         \* ids of its defer() calls
  NoStep,         \* no step: a discovery request, an idle core loop
  CallAfter,      \* [Steps \cup Defers -> SUBSET SUBSET Steps]
  ReturnAfter,    \* SUBSET SUBSET Steps
  Caught,         \* the steps whose rejection user code catches
  Failing,        \* the steps whose body may throw
  MayThrow,       \* whether user code itself may throw between steps
  PromptUser,     \* user code between steps ends within microtasks
  Checkpointing,  \* the function has not opted out of checkpointing
  BufferedSteps,  \* checkpointing.bufferedSteps
  CheckpointTimers, \* which of maxRuntime, maxInterval are configured
  MaxAttempts     \* attempts the server allows for a queue item

ASSUME NoStepAssumption == NoStep \notin Steps
ASSUME DefersAssumption == Steps \cap Defers = {}
ASSUME CallAfterAssumption == CallAfter \in [Steps \cup Defers -> SUBSET SUBSET Steps]
ASSUME ReturnAfterAssumption == ReturnAfter \in SUBSET SUBSET Steps
ASSUME UserCodeAssumption == /\ Caught \subseteq Steps
                             /\ Failing \subseteq Steps
                             /\ Waits \subseteq Steps
                             /\ MayThrow \in BOOLEAN
                             /\ PromptUser \in BOOLEAN
ASSUME OptionsAssumption == /\ Checkpointing \in BOOLEAN
                            /\ BufferedSteps \in Nat
                            /\ CheckpointTimers \subseteq {"runtime", "interval"}
                            /\ MaxAttempts \in Nat \ {0}

VARIABLES
  req,        \* the request served: requested step, attempt, disableImmediateExecution
  stepState,  \* state.stepState: what is known of the result of each step
  order,      \* state.stepCompletionOrder
  found,      \* keys of state.steps: the steps user code has called
  resolved,   \* steps whose promise is settled, in the order user code sees it
  toReport,   \* foundStepsToReport
  ticking,    \* foundStepsReportPromise is pending
  queue,      \* checkpoints set and not yet taken by the core loop
  pc,         \* where the core loop is
  buffer,     \* state.checkpointingStepBuffer
  lazy,       \* state.lazyOps: defers waiting to ship
  seenDefers, \* ids the lazy-op buffer has seen in this request
  priorDefers,\* defers the server had received when the request was sent
  exceeded,   \* state.checkpointingRuntimeExceeded
  timers,     \* timers that may still fire
  fn,         \* whether the user function has settled
  response    \* what the request returned

requestVars == <<req, order, priorDefers>>
userVars == <<stepState, found, resolved, toReport, ticking, seenDefers, fn>>
shipVars == <<buffer, lazy>>
engineVars == <<requestVars, userVars, shipVars, queue, pc, exceeded, timers, response>>

-----------------------------------------------------------------------------
(* Data.  A batch is what one outbound message carries: results of steps,  *)
(* steps planned, defers, and possibly the end of the run.                 *)

StepValue == {"none", "ok", "err"}
ResultKind == {"ok", "error", "failed"}      \* StepRun, StepError, StepFailed
EndKind == {"none", "complete", "error", "failed"}

Result == [step : Steps, kind : ResultKind]
Batch == [ran : Seq(Result), plan : SUBSET Steps, defers : SUBSET Defers, end : EndKind]
ResponseType == {"steps-found", "step-ran", "function-resolved",
                 "function-rejected", "step-not-found"}
Response == [type : ResponseType, batch : Batch, retriable : BOOLEAN]

EmptyBatch == [ran |-> <<>>, plan |-> {}, defers |-> {}, end |-> "none"]
NoResponse == [type |-> "step-not-found", batch |-> EmptyBatch, retriable |-> FALSE]

CheckpointType == {"steps-found", "function-resolved", "function-rejected", "step-not-found",
                   "checkpointing-runtime-reached", "checkpointing-buffer-interval-reached"}
Checkpoint == [type : CheckpointType, steps : SUBSET Steps, final : BOOLEAN]
CheckpointOf(type) == [type |-> type, steps |-> {}, final |-> FALSE]

\* What the core loop does once a checkpoint call has ended well.
Continuation == {"none", "loop", "plan", "planAll", "stepRan", "reject"}
Location == {"off", "loop", "exec", "checkpoint", "done"}
Pc == {p \in [at : Location, step : Steps \cup {NoStep}, then : Continuation,
               steps : SUBSET Steps, defers : SUBSET Defers, kind : ResultKind, final : BOOLEAN] :
         p.at = "exec" \/ p.then = "stepRan" => p.step \in Steps}
PcAt(at) == [at |-> at, step |-> NoStep, then |-> "none", steps |-> {}, defers |-> {},
             kind |-> "ok", final |-> FALSE]

Request == [step : Steps \cup {NoStep}, attempt : 0 .. MaxAttempts - 1, die : BOOLEAN]

TypeOK ==
  /\ req \in Request
  /\ stepState \in [Steps -> StepValue]
  /\ order \in Seq(Steps)
  /\ found \subseteq Steps
  /\ resolved \in Seq(Steps)
  /\ toReport \subseteq Steps
  /\ ticking \in BOOLEAN
  /\ queue \in Seq(Checkpoint)
  /\ pc \in Pc
  /\ buffer \in Seq(Result)
  /\ lazy \subseteq Defers
  /\ seenDefers \subseteq Defers
  /\ priorDefers \subseteq Defers
  /\ exceeded \in BOOLEAN
  /\ timers \subseteq {"runtime", "interval", "notfound"}
  /\ fn \in {"running", "settled"}
  /\ response \in Response

-----------------------------------------------------------------------------
(* Starting a request.                                                     *)

\* A request for one step, or one that disables immediate execution, never checkpoints.
StepMode(r) ==
  IF r.step = NoStep /\ ~r.die /\ Checkpointing THEN "AsyncCheckpointing" ELSE "Async"

InitialTimers(r) ==
  (IF r.step # NoStep THEN {"notfound"} ELSE {})
    \cup (IF StepMode(r) = "AsyncCheckpointing" THEN CheckpointTimers ELSE {})

StartRequest(r, memo, completionOrder, defersReceived) ==
  /\ req' = r
  /\ stepState' = memo
  /\ order' = completionOrder
  /\ priorDefers' = defersReceived
  /\ found' = {} /\ resolved' = <<>> /\ toReport' = {} /\ ticking' = FALSE
  /\ queue' = <<>> /\ pc' = PcAt("loop")
  /\ buffer' = <<>> /\ lazy' = {} /\ seenDefers' = {}
  /\ exceeded' = FALSE /\ timers' = InitialTimers(r)
  /\ fn' = "running" /\ response' = NoResponse

Running == pc.at \in {"loop", "exec", "checkpoint"}
Final == req.attempt = MaxAttempts - 1      \* retries are exhausted

-----------------------------------------------------------------------------
(* User code.                                                              *)

\* The steps whose settled promise lets user code go on.
Settled == {s \in ToSet(resolved) : stepState[s] = "ok" \/ s \in Caught}
Uncaught == {s \in ToSet(resolved) : stepState[s] = "err"} \ Caught
Reached(alternatives) == \E A \in alternatives : A \subseteq Settled

ReadyCalls == {c \in (Steps \ found) \cup (Defers \ seenDefers) : Reached(CallAfter[c])}
CanSettle == fn = "running" /\ (Uncaught # {} \/ (ReadyCalls = {} /\ Reached(ReturnAfter)))

SetCheckpoint(c) == queue' = Append(queue, c)

\* User code calls everything it has reached in one synchronous turn.  A turn of
\* code that awaits something else first may make only some of its calls.
UserCalls ==
  /\ Running /\ ReadyCalls # {}
  /\ \E C \in (IF PromptUser THEN {ReadyCalls} ELSE SUBSET ReadyCalls \ {{}}) :
       LET steps == C \cap Steps
           defers == C \cap Defers
       IN /\ found' = found \cup steps
          /\ toReport' = toReport \cup steps
          /\ ticking' = (ticking \/ steps # {})
          /\ lazy' = lazy \cup (defers \ priorDefers)
          /\ seenDefers' = seenDefers \cup defers
  /\ UNCHANGED <<requestVars, stepState, resolved, buffer, queue, pc, exceeded, timers, fn, response>>

FunctionReturns ==
  /\ Running /\ fn = "running"
  /\ Uncaught = {} /\ ReadyCalls = {} /\ Reached(ReturnAfter)
  /\ fn' = "settled"
  /\ SetCheckpoint(CheckpointOf("function-resolved"))
  /\ UNCHANGED <<requestVars, stepState, found, resolved, toReport, ticking, seenDefers, shipVars, pc,
                 exceeded, timers, response>>

\* User code is not waiting for a step: it goes on to a call or to its end.
AtTurn == ReadyCalls # {} \/ Reached(ReturnAfter)

\* A step error nobody catches rejects the function for good; an error of the
\* function's own is retriable unless it says otherwise or no attempt is left.
FunctionThrows ==
  /\ Running /\ fn = "running"
  /\ \/ Uncaught # {} /\ SetCheckpoint([CheckpointOf("function-rejected") EXCEPT !.final = TRUE])
     \/ MayThrow /\ AtTurn /\ \E final \in BOOLEAN :
          (Final => final) /\ SetCheckpoint([CheckpointOf("function-rejected") EXCEPT !.final = final])
  /\ fn' = "settled"
  /\ UNCHANGED <<requestVars, stepState, found, resolved, toReport, ticking, seenDefers, shipVars, pc,
                 exceeded, timers, response>>

-----------------------------------------------------------------------------
(* Reporting found steps: reportNextTick.                                  *)

\* Found steps with a memoized result that are not yet handled.
Handleable == {i \in DOMAIN order : order[i] \in toReport \ ToSet(resolved)}
UserIsDone == ReadyCalls = {} /\ ~CanSettle

\* Mutant: the handled step is any one that has a result.
HandleMemoizedAnyOrder ==
  /\ Running /\ ticking /\ (PromptUser => UserIsDone)
  /\ \E i \in Handleable : resolved' = Append(resolved, order[i])
  /\ UNCHANGED <<requestVars, stepState, found, toReport, ticking, seenDefers, fn, shipVars, queue, pc,
                 exceeded, timers, response>>

\* A tick handles one memoized step, the first found one in completion order.
HandleMemoized ==
  /\ Running /\ ticking /\ (PromptUser => UserIsDone)
  /\ \E i \in Handleable :
       /\ \A j \in Handleable : i <= j
       /\ resolved' = Append(resolved, order[i])
  /\ UNCHANGED <<requestVars, stepState, found, toReport, ticking, seenDefers, fn, shipVars, queue, pc,
                 exceeded, timers, response>>

\* A tick with nothing left to handle rolls up what was found and reports it.
ReportFound ==
  /\ Running /\ ticking /\ (PromptUser => UserIsDone)
  /\ Handleable = {}
  /\ ticking' = FALSE
  /\ toReport' = {}
  /\ queue' = IF toReport = {} THEN queue
              ELSE Append(queue, [CheckpointOf("steps-found") EXCEPT !.steps = toReport])
  /\ UNCHANGED <<requestVars, stepState, found, resolved, seenDefers, fn, shipVars, pc, exceeded,
                 timers, response>>

-----------------------------------------------------------------------------
(* Timers.  A timeout promise settles once; reset() has no effect after.    *)

TimerCheckpoint ==
  [notfound |-> "step-not-found",
   runtime  |-> "checkpointing-runtime-reached",
   interval |-> "checkpointing-buffer-interval-reached"]

TimerFires ==
  /\ Running
  /\ \E t \in timers :
       /\ timers' = timers \ {t}
       /\ SetCheckpoint(CheckpointOf(TimerCheckpoint[t]))
  /\ UNCHANGED <<requestVars, userVars, shipVars, pc, exceeded, response>>

-----------------------------------------------------------------------------
(* The core loop.                                                          *)

Return(type, batch, retriable) ==
  /\ pc' = PcAt("done")
  /\ timers' = {}
  /\ response' = [type |-> type, batch |-> batch, retriable |-> retriable]

NewSteps(steps) == {s \in steps : stepState[s] = "none"}

\* filterNewSteps: nothing is planned on behalf of a request for one step.
PlannedSteps(steps) == IF req.step # NoStep THEN {} ELSE NewSteps(steps)

\* maybeReturnNewSteps: plan the new steps with the lazy ops, or go on.
MaybeReturnNewSteps(steps) ==
  /\ lazy' = {}
  /\ IF PlannedSteps(steps) \cup lazy = {}
       THEN pc' = PcAt("loop") /\ UNCHANGED <<timers, response>>
       ELSE Return("steps-found",
                   [EmptyBatch EXCEPT !.plan = PlannedSteps(steps), !.defers = lazy], FALSE)

\* stepRanHandler: return the one step that ran in this request.
StepRan(result) ==
  Return("step-ran", [EmptyBatch EXCEPT !.ran = <<result>>], result.kind # "failed")

\* transformOutput of an error, with the lazy ops when there are some.
Reject(final, defers) ==
  LET batch == [EmptyBatch EXCEPT !.defers = defers, !.end = IF final THEN "failed" ELSE "error"]
  IN IF defers = {}
       THEN Return("function-rejected", batch, ~final)
       ELSE Return("steps-found", batch, FALSE)

\* checkpoint(): drain the lazy ops and start the call for the buffered steps.
StartCheckpoint(continuation) ==
  /\ pc' = [continuation EXCEPT !.at = "checkpoint", !.defers = lazy]
  /\ lazy' = {}
  /\ UNCHANGED <<timers, response>>

\* executeStep: the not-found timer is cleared, the body is running.
StartStep(s) ==
  /\ pc' = [PcAt("exec") EXCEPT !.step = s]
  /\ timers' = timers \ {"notfound"}
  /\ UNCHANGED <<lazy, response>>

TakeCheckpoint(type) ==
  /\ pc.at = "loop" /\ queue # <<>> /\ Head(queue).type = type
  /\ queue' = Tail(queue)

\* createTool: step.run, sendEvent, publish, ... have a function to run and report StepPlanned;
\* the other tools only say what the server is to wait for.
Bodies == Steps \ Waits

\* getEarlyExecRunStep: immediate execution needs exactly one unfulfilled step, with a body.
EarlyStep(steps) ==
  IF ~req.die /\ Cardinality(NewSteps(steps)) = 1 /\ NewSteps(steps) \subseteq Bodies
    THEN CHOOSE s \in NewSteps(steps) : TRUE
    ELSE NoStep

StepToRun(steps) ==
  IF req.step # NoStep
    THEN IF req.step \in steps \cap Bodies THEN req.step ELSE NoStep
    ELSE EarlyStep(steps)

AsyncStepsFound ==
  /\ StepMode(req) = "Async" /\ TakeCheckpoint("steps-found")
  /\ LET steps == Head(queue).steps
     IN IF StepToRun(steps) # NoStep
          THEN StartStep(StepToRun(steps))
          ELSE MaybeReturnNewSteps(steps)
  /\ UNCHANGED <<requestVars, userVars, buffer, exceeded>>

CheckpointingStepsFound ==
  /\ StepMode(req) = "AsyncCheckpointing" /\ TakeCheckpoint("steps-found")
  /\ LET steps == Head(queue).steps
         plan == IF exceeded THEN [PcAt("loop") EXCEPT !.then = "planAll"]
                 ELSE [PcAt("loop") EXCEPT !.then = "plan", !.steps = steps]
     IN CASE NewSteps(steps) = {} ->
               UNCHANGED <<pc, lazy, timers, response>>
          [] NewSteps(steps) # {} /\ ~exceeded /\ EarlyStep(NewSteps(steps)) # NoStep ->
               StartStep(EarlyStep(NewSteps(steps)))
          [] OTHER ->
               IF buffer # <<>>
                 THEN StartCheckpoint(plan)
                 ELSE MaybeReturnNewSteps(IF exceeded THEN found ELSE steps)
  /\ UNCHANGED <<requestVars, userVars, buffer, exceeded>>

\* Mutant: the lazy ops take the place of the step's result.
AsyncStepEndsWithDefersOnly(kind) ==
  /\ StepMode(req) = "Async" /\ pc.at = "exec"
  /\ IF lazy = {}
       THEN StepRan([step |-> pc.step, kind |-> kind])
       ELSE Return("steps-found", [EmptyBatch EXCEPT !.defers = lazy], FALSE)
  /\ lazy' = {}
  /\ UNCHANGED <<requestVars, userVars, queue, buffer, exceeded>>

\* The step body ends and Async mode returns it, lazy ops attached.
AsyncStepEnds(kind) ==
  /\ StepMode(req) = "Async" /\ pc.at = "exec"
  /\ LET result == [step |-> pc.step, kind |-> kind]
     IN IF lazy = {}
          THEN StepRan(result)
          ELSE Return("steps-found",
                      [EmptyBatch EXCEPT !.ran = <<result>>, !.defers = lazy], FALSE)
  /\ lazy' = {}
  /\ UNCHANGED <<requestVars, userVars, queue, buffer, exceeded>>

\* Mutant: the error is returned without flushing the buffer.
CheckpointingStepThrowsUnflushed(kind) ==
  /\ StepMode(req) = "AsyncCheckpointing" /\ pc.at = "exec" /\ kind # "ok"
  /\ StepRan([step |-> pc.step, kind |-> kind])
  /\ UNCHANGED <<requestVars, userVars, queue, buffer, lazy, exceeded>>

\* The step body threw while checkpointing: flush the buffer, then return the error.
CheckpointingStepThrows(kind) ==
  /\ StepMode(req) = "AsyncCheckpointing" /\ pc.at = "exec" /\ kind # "ok"
  /\ IF buffer # <<>>
       THEN StartCheckpoint([PcAt("loop") EXCEPT !.then = "stepRan", !.step = pc.step, !.kind = kind])
       ELSE StepRan([step |-> pc.step, kind |-> kind]) /\ UNCHANGED lazy
  /\ UNCHANGED <<requestVars, userVars, queue, buffer, exceeded>>

\* resumeStepWithResult: user code goes on with the result, which is buffered; a
\* buffer that has reached its limit is checkpointed.
ResumeUser(limit) ==
  /\ stepState' = [stepState EXCEPT ![pc.step] = "ok"]
  /\ resolved' = Append(resolved, pc.step)
  /\ buffer' = Append(buffer, [step |-> pc.step, kind |-> "ok"])
  /\ IF Len(buffer') >= limit
       THEN StartCheckpoint([PcAt("loop") EXCEPT !.then = "loop"])
       ELSE pc' = PcAt("loop") /\ UNCHANGED <<lazy, timers, response>>

\* Mutant of CheckpointingStepEnds: a retried request goes on to later steps.
StepEndsIgnoringRetry ==
  /\ StepMode(req) = "AsyncCheckpointing" /\ pc.at = "exec"
  /\ ResumeUser(BufferedSteps)
  /\ UNCHANGED <<requestVars, found, toReport, ticking, seenDefers, fn, queue, exceeded>>

\* attemptCheckpointAndResume: a retried request returns the step to the server;
\* otherwise user code resumes, and a full buffer is checkpointed.
CheckpointingStepEnds ==
  /\ StepMode(req) = "AsyncCheckpointing" /\ pc.at = "exec"
  /\ IF req.attempt > 0
       THEN /\ StepRan([step |-> pc.step, kind |-> "ok"])
            /\ UNCHANGED <<stepState, resolved, buffer, lazy>>
       ELSE ResumeUser(BufferedSteps)
  /\ UNCHANGED <<requestVars, found, toReport, ticking, seenDefers, fn, queue, exceeded>>

BodySucceeds == CheckpointingStepEnds \/ AsyncStepEnds("ok")

\* A thrown error is final when it is a NonRetriableError or no attempt is left.
BodyThrows ==
  /\ pc.step \in Failing
  /\ \E kind \in IF Final THEN {"failed"} ELSE {"error", "failed"} :
       AsyncStepEnds(kind) \/ CheckpointingStepThrows(kind)

\* The function has returned: any steps not reported yet go first, else the run is
\* complete, in one batch with the lazy ops when there are some.
AsyncFunctionResolved ==
  /\ StepMode(req) = "Async" /\ TakeCheckpoint("function-resolved")
  /\ LET planned == PlannedSteps(found)
     IN IF planned # {}
          THEN Return("steps-found", [EmptyBatch EXCEPT !.plan = planned, !.defers = lazy], FALSE)
          ELSE Return(IF lazy = {} THEN "function-resolved" ELSE "steps-found",
                      [EmptyBatch EXCEPT !.defers = lazy, !.end = "complete"], FALSE)
  /\ lazy' = {}
  /\ UNCHANGED <<requestVars, userVars, buffer, exceeded>>

\* While checkpointing, the end of the run takes the buffered results along.
ResolvedAs(complete) ==
  /\ StepMode(req) = "AsyncCheckpointing" /\ TakeCheckpoint("function-resolved")
  /\ IF PlannedSteps(found) # {}
       THEN Return("steps-found", [EmptyBatch EXCEPT !.plan = PlannedSteps(found), !.defers = lazy], FALSE)
       ELSE Return("steps-found", complete, FALSE)
  /\ lazy' = {}
  /\ UNCHANGED <<requestVars, userVars, buffer, exceeded>>

\* Mutants: the end of the run overtakes the defers; the response lacks the end of the run.
ResolvedWithoutDefers == ResolvedAs([EmptyBatch EXCEPT !.ran = buffer, !.end = "complete"])
ResolvedWithoutEnd == ResolvedAs([EmptyBatch EXCEPT !.ran = buffer, !.defers = lazy])

CheckpointingFunctionResolved ==
  ResolvedAs([EmptyBatch EXCEPT !.ran = buffer, !.defers = lazy, !.end = "complete"])

AsyncFunctionRejected ==
  /\ StepMode(req) = "Async" /\ TakeCheckpoint("function-rejected")
  /\ Reject(Head(queue).final, lazy)
  /\ lazy' = {}
  /\ UNCHANGED <<requestVars, userVars, buffer, exceeded>>

CheckpointingFunctionRejected ==
  /\ StepMode(req) = "AsyncCheckpointing" /\ TakeCheckpoint("function-rejected")
  /\ IF buffer # <<>> \/ lazy # {}
       THEN StartCheckpoint([PcAt("loop") EXCEPT !.then = "reject", !.final = Head(queue).final])
       ELSE Reject(Head(queue).final, {}) /\ UNCHANGED lazy
  /\ UNCHANGED <<requestVars, userVars, buffer, exceeded>>

StepNotFound ==
  /\ TakeCheckpoint("step-not-found")
  /\ Return("step-not-found", EmptyBatch, TRUE)
  /\ UNCHANGED <<requestVars, userVars, shipVars, exceeded>>

RuntimeReached ==
  /\ TakeCheckpoint("checkpointing-runtime-reached")
  /\ exceeded' = TRUE
  /\ UNCHANGED <<requestVars, userVars, shipVars, pc, timers, response>>

BufferIntervalReached ==
  /\ TakeCheckpoint("checkpointing-buffer-interval-reached")
  /\ StartCheckpoint([PcAt("loop") EXCEPT !.then = "loop"])
  /\ UNCHANGED <<requestVars, userVars, buffer, exceeded>>

-----------------------------------------------------------------------------
(* The end of a checkpoint call, after its retries.                        *)

CheckpointBatch == [EmptyBatch EXCEPT !.ran = buffer, !.defers = pc.defers]

Continue ==
  CASE pc.then = "loop" -> pc' = PcAt("loop") /\ UNCHANGED <<lazy, timers, response>>
    [] pc.then = "plan" -> MaybeReturnNewSteps(pc.steps)
    [] pc.then = "planAll" -> MaybeReturnNewSteps(found)
    [] pc.then = "stepRan" -> StepRan([step |-> pc.step, kind |-> pc.kind]) /\ UNCHANGED lazy
    [] OTHER -> Reject(pc.final, {}) /\ UNCHANGED lazy

CheckpointSucceeds ==
  /\ pc.at = "checkpoint"
  /\ Continue
  /\ buffer' = <<>>
  /\ UNCHANGED <<requestVars, userVars, queue, exceeded>>

\* The call failed for good: the buffered steps go back as the response.  The
\* lazy ops it had drained are gone.
CheckpointFails ==
  /\ pc.at = "checkpoint"
  /\ IF buffer # <<>>
       THEN Return("steps-found", [EmptyBatch EXCEPT !.ran = buffer], FALSE) /\ UNCHANGED lazy
       ELSE Continue
  /\ buffer' = <<>>
  /\ UNCHANGED <<requestVars, userVars, queue, exceeded>>

\* Mutant: a stale queue item is a failed checkpoint like any other, and user code goes on.
StaleContinues ==
  /\ pc.at = "checkpoint"
  /\ pc' = PcAt("loop")
  /\ buffer' = <<>>
  /\ UNCHANGED <<requestVars, userVars, lazy, queue, exceeded, timers, response>>

\* The server answered that the queue item is stale: halt without retrying.
CheckpointIsStale ==
  /\ pc.at = "checkpoint"
  /\ Return("function-rejected", [EmptyBatch EXCEPT !.end = "failed"], FALSE)
  /\ buffer' = <<>>
  /\ UNCHANGED <<requestVars, userVars, lazy, queue, exceeded>>

\* What happens inside the process, but for the end of a step body.
EngineStep ==
  \/ UserCalls \/ FunctionReturns \/ FunctionThrows
  \/ HandleMemoized \/ ReportFound
  \/ TimerFires
  \/ AsyncStepsFound \/ CheckpointingStepsFound
  \/ AsyncFunctionResolved \/ CheckpointingFunctionResolved
  \/ AsyncFunctionRejected \/ CheckpointingFunctionRejected
  \/ StepNotFound \/ RuntimeReached \/ BufferIntervalReached
=============================================================================
