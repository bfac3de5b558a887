---------------------------- MODULE SandboxSteps ----------------------------
(***************************************************************************)
(* Durable sandbox steps: components/sandbox, client.ts (the REST client), *)
(* durable.ts (step.sandbox) and middleware.ts (executeAsStep).            *)
(*                                                                         *)
(* A function creates a sandbox, waits until it runs, does a job in it and *)
(* destroys it, each as a durable step, and follows the advice of the      *)
(* error messages when one fails.  The API may lose a request or an        *)
(* answer, refuse, or not know itself, and something before it may answer  *)
(* in its place; the client says of an error whether the operation is      *)
(* ambiguous and whether it is retryable; a retryable error makes the      *)
(* server send the step again.                                             *)
(***************************************************************************)
EXTENDS Naturals, Sequences

CONSTANTS
  MaxAttempts,  \* attempts of a step
  Faults,       \* SUBSET FaultKinds
  MaxFaults,    \* bound: faults in a behaviour
  MaxSteps      \* bound: steps of the function

FaultKinds == {"lost", "unanswered", "refused", "opaque", "unsure", "invalid", "startFails",
               "crash"}

ASSUME SandboxFaults == Faults \subseteq FaultKinds
ASSUME SandboxBounds == /\ MaxAttempts \in Nat \ {0} /\ MaxFaults \in Nat
                        /\ MaxSteps \in Nat \ {0}

VARIABLES
  job,         \* what user code does in the sandbox: "exec" or "process.start"
  timeout,     \* runningTimeout is given: create waits until the sandbox runs
  memo,        \* results of the steps, in order
  attempt,     \* attempts the current step has used
  at,          \* the current step: "idle", "sent", "answered", "asleep"
  polling,     \* it is in the loop of waitUntilSandboxRunning
  ref,         \* its `sandbox`: the status it knows
  expired,     \* the deadline of the loop has passed
  answer,      \* what the API has answered
  status,      \* of the sandbox, at the API
  effects,     \* [NonRepeatable -> Nat] times the API has done it
  touched,     \* history: the current step has had an effect
  hidden,      \* history: that effect is hidden, by a crash or an answer without envelope
  crashes,
  opaque,      \* history: effects hidden by an answer without envelope that is retryable
  faults

stepVars == <<attempt, at, polling, ref, expired>>
apiVars == <<status, effects, touched>>
userVars == <<job, timeout>>
failVars == <<hidden, crashes, opaque>>
vars == <<userVars, memo, stepVars, answer, apiVars, failVars, faults>>

\* Mutant: starting a process is taken to be safe to repeat.
SafeRepeatStart == {"create", "list", "waitUntilRunning", "process.list", "process.wait",
                    "process.start", "destroy"}

\* safeRepeatActions.
SafeRepeat == {"create", "list", "waitUntilRunning", "process.list", "process.wait", "destroy"}
NonRepeatable == {"exec", "process.start", "process.signal"}
Actions == SafeRepeat \cup NonRepeatable

Starting == {"STARTING"}   \* sandboxStartingStatuses; PENDING is as STARTING
Statuses == Starting \cup {"RUNNING", "TERMINATING", "TERMINATED", "FAILED"}

\* "plain": a SandboxError that is neither ambiguous nor retryable; "retryable" likewise.
Errors == {"none", "plain", "retryable", "ambiguous", "invalid"}
\* What the client makes of an answer: `found` of a list, `status` of a resource.
Answer == [error : Errors, status : Statuses \cup {"none"}, found : BOOLEAN]
Fine == [error |-> "none", status |-> "none", found |-> FALSE]
Err(error) == [Fine EXCEPT !.error = error]
Resource(s) == [Fine EXCEPT !.status = s]

Memo == [action : Actions, answer : Answer, touched : BOOLEAN, hidden : BOOLEAN]

TypeOK ==
  /\ job \in {"exec", "process.start"} /\ timeout \in BOOLEAN
  /\ memo \in Seq(Memo) /\ Len(memo) <= MaxSteps
  /\ attempt \in 0..(MaxAttempts - 1)
  /\ at \in {"idle", "sent", "answered", "asleep"}
  /\ polling \in BOOLEAN /\ expired \in BOOLEAN
  /\ ref \in Statuses \cup {"none"}
  /\ at = "asleep" => polling
  /\ answer \in Answer
  /\ status \in Statuses \cup {"none"}
  /\ effects \in [NonRepeatable -> Nat]
  /\ touched \in BOOLEAN /\ hidden \in BOOLEAN
  /\ faults \in 0..MaxFaults /\ crashes \in Nat /\ opaque \in Nat

Init ==
  /\ job \in {"exec", "process.start"} /\ timeout \in BOOLEAN
  /\ memo = <<>> /\ attempt = 0 /\ at = "idle" /\ polling = FALSE
  /\ ref = "none" /\ expired = FALSE /\ answer = Fine
  /\ status = "none" /\ effects = [x \in NonRepeatable |-> 0] /\ touched = FALSE
  /\ faults = 0 /\ hidden = FALSE /\ crashes = 0 /\ opaque = 0

-----------------------------------------------------------------------------
(* User code.                                                              *)

\* The next step of a function that reconciles as the messages of
\* sandboxTransportFailureMessage say.
After(a, r) ==
  CASE a = "create" -> IF r.error # "none" THEN "list"
                       ELSE IF r.status = "RUNNING" THEN job ELSE "waitUntilRunning"
    [] a = "list" -> IF r.found THEN "destroy" ELSE "end"
    [] a = "waitUntilRunning" -> IF r.error = "none" THEN job ELSE "destroy"
    [] a = "exec" -> "destroy"
    [] a = "process.start" -> IF r.error = "none" THEN "process.signal"
                              ELSE IF r.error = "ambiguous" THEN "process.list" ELSE "destroy"
    [] a = "process.list" -> IF r.found THEN "process.signal"
                             ELSE IF r.error = "none" THEN "process.start" ELSE "destroy"
    [] a = "process.signal" -> "process.wait"
    [] a = "process.wait" -> "destroy"
    [] a = "destroy" -> "end"

Action == IF memo = <<>> THEN "create" ELSE After(memo[Len(memo)].action, memo[Len(memo)].answer)
Busy == Action # "end" /\ Len(memo) < MaxSteps

\* The status in the reference a waitUntilRunning step is given: that of the memoized create.
Target == memo[Len(memo)].answer.status

-----------------------------------------------------------------------------
(* A step.                                                                 *)

\* The server records the step: callRawTool hands its result or its error to user code.
Record(r) ==
  /\ memo' = Append(memo, [action |-> Action, answer |-> r, touched |-> touched, hidden |-> hidden])
  /\ attempt' = 0 /\ touched' = FALSE /\ hidden' = FALSE

\* The step's request is over; a retryable error makes another, while attempts are left.
Settle(r) ==
  /\ at' = "idle" /\ polling' = FALSE /\ ref' = "none" /\ expired' = FALSE /\ answer' = Fine
  /\ IF r.error = "retryable" /\ attempt + 1 < MaxAttempts
       THEN attempt' = attempt + 1 /\ UNCHANGED <<memo, touched, hidden>>
       ELSE Record(r)
  /\ UNCHANGED <<userVars, status, effects, faults, crashes, opaque>>

\* Mutant: the deadline is looked at before the first request only.
LoopForEver(s) ==
  \/ s = "RUNNING" /\ Settle(Resource(s))
  \/ s \notin Starting \cup {"RUNNING"} /\ Settle(Err("plain"))
  \/ /\ s \in Starting
     /\ at' = "sent"
     /\ polling' = TRUE /\ ref' = s /\ answer' = Fine
     /\ UNCHANGED <<userVars, memo, attempt, expired, apiVars, faults, failVars>>

\* waitUntilSandboxRunning is entered, or goes on after an answer, knowing status s.
Loop(s) ==
  \/ s = "RUNNING" /\ Settle(Resource(s))
  \/ s \notin Starting \cup {"RUNNING"} /\ Settle(Err("plain"))
  \/ s \in Starting /\ expired /\ Settle(Err("plain"))
  \/ /\ s \in Starting /\ ~expired
     /\ at' = IF polling THEN "asleep" ELSE "sent"
     /\ polling' = TRUE /\ ref' = s /\ answer' = Fine
     /\ UNCHANGED <<userVars, memo, attempt, expired, apiVars, faults, failVars>>

\* The step's handler begins: executeSandboxOperation.
Begin ==
  /\ at = "idle" /\ Busy
  /\ IF Action = "waitUntilRunning"
       THEN Loop(Target)
       ELSE /\ at' = "sent"
            /\ UNCHANGED <<userVars, memo, attempt, polling, ref, expired, answer, apiVars,
                           faults, failVars>>

\* The poll interval is over.
Wakes ==
  /\ at = "asleep"
  /\ IF expired THEN Settle(Err("plain"))
     ELSE at' = "sent"
          /\ UNCHANGED <<userVars, memo, attempt, polling, ref, expired, answer, apiVars, faults, failVars>>

Expires ==
  /\ polling /\ ~expired
  /\ expired' = TRUE
  /\ UNCHANGED <<userVars, memo, attempt, at, polling, ref, answer, apiVars, faults, failVars>>

\* An answer of the loop's GET, or the failure to get one: a retryable error is another poll.
Polled ==
  /\ at = "answered" /\ polling
  /\ \/ answer.error = "none" /\ Loop(answer.status)
     \/ answer.error = "retryable" /\ Loop(ref)
     \/ answer.error \notin {"none", "retryable"} /\ Settle(answer)

\* client.create, with runningTimeout.
Created ==
  /\ at = "answered" /\ ~polling
  /\ Action = "create" /\ timeout /\ answer.error = "none"
  /\ Loop(answer.status)

\* Any other request has its result or its error.
Returned ==
  /\ at = "answered" /\ ~polling
  /\ ~(Action = "create" /\ timeout /\ answer.error = "none")
  /\ Settle(answer)

-----------------------------------------------------------------------------
(* The API.                                                                *)

\* Every method of a facade makes one request; those of the loop get the sandbox.
Request == IF polling THEN "get" ELSE Action

Live == status \notin {"none", "TERMINATED"}

\* Mutant: no failure of the transport is ambiguous.
TransportFailurePlain == Err(IF Action \in SafeRepeat THEN "retryable" ELSE "plain")

\* transportFailure.
TransportFailure == Err(IF Action \in SafeRepeat THEN "retryable" ELSE "ambiguous")

\* What the API does for a request, and answers.
Does(x) ==
  \/ /\ Request = "create"
     /\ status' \in (IF Live THEN {status} ELSE {"STARTING", "RUNNING"})
     /\ x = Resource(status') /\ UNCHANGED <<effects, touched>>
  \/ /\ Request = "get" /\ UNCHANGED apiVars
     /\ x = IF Live THEN Resource(status) ELSE Err("plain")
  \/ /\ Request \in {"list", "process.list"} /\ UNCHANGED apiVars
     /\ x = [Fine EXCEPT !.found = IF Request = "list" THEN Live ELSE effects["process.start"] > 0]
  \/ /\ Request = "process.wait" /\ UNCHANGED apiVars
     /\ x \in {Fine, Err("plain")}
  \/ /\ Request = "destroy" /\ UNCHANGED <<effects, touched>>
     /\ status' = IF Live THEN "TERMINATING" ELSE status
     /\ x = Resource(IF Live THEN "TERMINATING" ELSE "TERMINATED")
  \/ /\ Request \in NonRepeatable /\ UNCHANGED status
     /\ IF status = "RUNNING"
          THEN effects' = [effects EXCEPT ![Request] = @ + 1] /\ touched' = TRUE /\ x = Fine
          ELSE UNCHANGED <<effects, touched>> /\ x = Err("plain")

Answers(x) == at' = "answered" /\ answer' = x

Serve ==
  /\ at = "sent"
  /\ \E x \in Answer : Does(x) /\ Answers(x)
  /\ UNCHANGED <<userVars, memo, attempt, polling, ref, expired, faults, failVars>>

Fault(kind) == kind \in Faults /\ faults < MaxFaults /\ faults' = faults + 1

\* fetch rejects before the API has seen the request, or after.
Lost ==
  /\ at = "sent" /\ Fault("lost")
  /\ Answers(TransportFailure)
  /\ UNCHANGED <<userVars, memo, attempt, polling, ref, expired, apiVars, failVars>>

Unanswered ==
  /\ at = "sent" /\ Fault("unanswered")
  /\ \E x \in Answer : Does(x)
  /\ Answers(TransportFailure)
  /\ UNCHANGED <<userVars, memo, attempt, polling, ref, expired, failVars>>

\* errorFromItem: the API itself says, in its envelope, that it is unavailable or limits the
\* rate, and has done nothing.
Refuse ==
  /\ at = "sent" /\ Fault("refused")
  /\ Answers(Err("retryable"))
  /\ UNCHANGED <<userVars, memo, attempt, polling, ref, expired, apiVars, failVars>>

\* throwResponseError: an error without the API's envelope, of a proxy or a gateway before it,
\* is an internal_error: never ambiguous, and retryable for 429 and 503, whatever the action
\* and whether or not the API has done it.
Opaque ==
  /\ at = "sent" /\ Fault("opaque")
  /\ UNCHANGED apiVars \/ \E x \in Answer : Does(x)
  /\ \E error \in {"plain", "retryable"} :
       /\ Answers(Err(error))
       /\ opaque' = IF error = "retryable" /\ effects' # effects THEN opaque + 1 ELSE opaque
  /\ hidden' = (hidden \/ effects' # effects)
  /\ UNCHANGED <<userVars, memo, attempt, polling, ref, expired, crashes>>

\* errorFromItem: operation_ambiguous, sandbox_exec_timed_out, sandbox_exec_output_too_large.
Unsure ==
  /\ at = "sent" /\ Fault("unsure") /\ Request \in NonRepeatable \cup {"create"}
  /\ UNCHANGED apiVars \/ \E x \in Answer : Does(x)
  /\ Answers(Err("ambiguous"))
  /\ UNCHANGED <<userVars, memo, attempt, polling, ref, expired, failVars>>

\* A success whose body does not parse.
Invalid ==
  /\ at = "sent" /\ Fault("invalid")
  /\ \E x \in Answer : Does(x)
  /\ Answers(Err("invalid"))
  /\ UNCHANGED <<userVars, memo, attempt, polling, ref, expired, failVars>>

\* The sandbox gets on by itself.
Moves ==
  /\ \/ status = "STARTING" /\ status' = "RUNNING" /\ UNCHANGED faults
     \/ status = "STARTING" /\ Fault("startFails") /\ status' = "FAILED"
     \/ status = "TERMINATING" /\ status' = "TERMINATED" /\ UNCHANGED faults
  /\ UNCHANGED <<userVars, memo, stepVars, answer, effects, touched, failVars>>

\* The worker dies before it has answered the server, which sends the step again.
Crash ==
  /\ at # "idle" /\ Fault("crash")
  /\ crashes' = crashes + 1 /\ hidden' = (hidden \/ touched)
  /\ at' = "idle" /\ polling' = FALSE /\ ref' = "none" /\ expired' = FALSE /\ answer' = Fine
  /\ UNCHANGED <<userVars, memo, attempt, apiVars, opaque>>

Step == Begin \/ Wakes \/ Polled \/ Created \/ Returned
Next == Step \/ Expires \/ Serve \/ Lost \/ Unanswered \/ Refuse \/ Opaque \/ Unsure \/ Invalid
          \/ Moves \/ Crash

Spec == Init /\ [][Next]_vars

\* Handlers and timers run and the API answers; a sandbox need not ever start.
FairSpec == Spec /\ WF_vars(Step) /\ WF_vars(Expires) /\ WF_vars(Serve)

-----------------------------------------------------------------------------
(* What must hold.                                                         *)

\* What must not be repeated is done once, whatever requests and answers are lost, refused or
\* uncertain: only a worker that dies before its step is recorded has it done again, or a 429
\* or a 503 without the API's envelope that hides that it was done (safeRepeatActions).
AtMostOnce == \A x \in NonRepeatable : effects[x] <= 1 + crashes + opaque

\* An error that is neither ambiguous nor about the form of the answer means that nothing was
\* done, unless the step's worker died or its answer had no envelope after it was
\* (transportFailure, errorFromItem).
PlainErrorsAreTrue ==
  \A i \in 1..Len(memo) :
    memo[i].action \in NonRepeatable /\ memo[i].touched /\ ~memo[i].hidden
      => memo[i].answer.error \in {"none", "ambiguous", "invalid"}

\* The function comes to its end, though its sandbox may never start.
FunctionEnds == <>(~Busy)
=============================================================================
