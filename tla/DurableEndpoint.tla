--------------------------- MODULE DurableEndpoint ---------------------------
(***************************************************************************)
(* A durable endpoint: a user's HTTP handler that runs as an Inngest       *)
(* function.  The request is served in Sync mode (engine.ts, syncHandlers);*)
(* each step is run at once and checkpointed.  A client that accepts SSE   *)
(* gets a stream (StreamTools.ts), as soon as user code writes to it, else *)
(* with the result.  What cannot be finished in the request is handed to   *)
(* the server, which calls the endpoint in Async mode and relays its       *)
(* stream to the URL of the redirect event.                                *)
(*                                                                         *)
(* Four parties write to or read from the stream at their own pace: user   *)
(* code, the core loop, its detached continuations and the client          *)
(* (experimental/durable-endpoints/client.ts).                             *)
(***************************************************************************)
EXTENDS Naturals, Sequences

CONSTANTS
  N,             \* steps of the function
  HighWaterMark, \* chunks the stream holds before a piped chunk waits for the reader
  MaxPushes,     \* bound: chunks written
  MaxAttempts,   \* attempts the server makes in Async mode
  Faults,        \* SUBSET FaultKinds
  MaxFaults      \* bound: faults in a behaviour

\* A checkpoint is refused, or applied and its answer lost, for all attempts; the redirect
\* URL cannot be fetched; the client closes the connection.
FaultKinds == {"refused", "lost", "redirect", "leave"}

ASSUME EndpointBounds == /\ N \in Nat /\ HighWaterMark \in Nat \ {0} /\ MaxPushes \in Nat
                         /\ MaxAttempts \in Nat \ {0} /\ MaxFaults \in Nat
ASSUME EndpointFaults == Faults \subseteq FaultKinds

VARIABLES
  sse,        \* acceptsSse
  \* User code.
  at,         \* steps that have been resolved for it
  user,       \* "code", "waiting" for a step, or "over"
  \* The core loop.
  queue,      \* checkpoints set and not yet taken
  pc, task,   \* where the loop is, and what its handler still has to do
  background, \* the detached continuation of a handler
  known,      \* checkpointedRun is set
  response,   \* what the HTTP layer has answered
  \* Stream, and the redirect event.
  activated, stream, closed, broken,
  redirect,   \* "none", "fetching", "sent" or "failed"
  \* The server and the client.
  run, attempts, client,
  piped,      \* events written when the chunk that user code pipes last was
  pushes, faults,
  unsaved     \* history: what a checkpoint that threw was to save

userVars == <<at, user>>
loopVars == <<queue, pc, task, background, known>>
streamVars == <<activated, stream, closed, broken, redirect>>
serverVars == <<run, attempts>>
boundVars == <<pushes, faults, unsaved>>
vars == <<sse, userVars, loopVars, response, streamVars, serverVars, client, piped, boundVars>>

-----------------------------------------------------------------------------

Checkpoints == {"step", "plan", "resolved", "rejected", "rejectedFinal"}
\* What is checkpointed: a step's result or error, a plan of steps, the function's error or
\* result.
Ops == {"step", "stepError", "stepFailed", "plan", "runError", "runFailed",
        "runComplete"}
Closes == {"no", "end", "failed", "succeeded", "switch"}
Replies == {"none", "sse", "json", "error", "redirect"}
Task == [op : Ops \cup {"none"}, close : Closes, reply : Replies]
Background == [stage : {"none", "save", "close"}, op : Ops \cup {"none"}, close : Closes]

Event == [type : {"chunk", "commit", "rollback"}, step : 0 .. N]
           \cup [type : {"redirect", "succeeded", "failed"}]

Client == [read : Nat, url : BOOLEAN, link : BOOLEAN,
           relayed : {"none", "succeeded", "failed"},
           outcome : {"none", "left", "noResponse"} \cup Replies
                       \cup {"streamSucceeded", "streamFailed", "relaySucceeded", "relayFailed"}]

TypeOK ==
  /\ sse \in BOOLEAN
  /\ at \in 0 .. N /\ user \in {"code", "waiting", "over"}
  /\ queue \in Seq(Checkpoints) /\ pc \in {"loop", "step", "save", "close", "done"}
  /\ task \in Task /\ background \in Background
  /\ known \in BOOLEAN /\ response \in Replies
  /\ activated \in BOOLEAN /\ stream \in Seq(Event) /\ closed \in BOOLEAN /\ broken \in BOOLEAN
  /\ redirect \in {"none", "fetching", "sent", "failed"}
  /\ run \in {"unknown", "sync", "async", "completed", "failed"}
  /\ attempts \in 0 .. MaxAttempts
  /\ client \in Client
  /\ piped \in Nat
  /\ pushes \in 0 .. MaxPushes /\ faults \in 0 .. MaxFaults /\ unsaved \subseteq Ops

NoTask == [op |-> "none", close |-> "no", reply |-> "none"]
NoBackground == [stage |-> "none", op |-> "none", close |-> "no"]

Init ==
  /\ sse \in BOOLEAN
  /\ at = 0 /\ user = "code"
  /\ queue = <<>> /\ pc = "loop" /\ task = NoTask /\ background = NoBackground
  /\ known = FALSE /\ response = "none"
  /\ activated = FALSE /\ stream = <<>> /\ closed = FALSE /\ broken = FALSE
  /\ redirect = "none"
  /\ run = "unknown" /\ attempts = 0
  /\ client = [read |-> 0, url |-> FALSE, link |-> FALSE, relayed |-> "none", outcome |-> "none"]
  /\ piped = 0
  /\ pushes = 0 /\ faults = 0 /\ unsaved = {}

-----------------------------------------------------------------------------
(* The stream.                                                             *)

\* A write to a stream that is closed, or whose reader is gone, is swallowed.
Written(event) == IF closed \/ broken THEN stream ELSE Append(stream, event)

OfStep(type, step) == [type |-> type, step |-> step]

\* closeSucceeded, closeFailed, end.
CloseWriter(kind) ==
  /\ stream' = IF kind = "end" THEN stream ELSE Written([type |-> kind])
  /\ closed' = TRUE
  /\ UNCHANGED <<activated, broken, redirect>>

\* sendRedirectIfReady, given that the run is known.
RedirectIfReady == redirect' = IF sse /\ redirect = "none" THEN "fetching" ELSE redirect

\* A piped chunk waits for room; nothing reads the stream of a client that takes no SSE.
Blocked == ~broken /\ piped - client.read > HighWaterMark

\* push or pipe, in a step or between steps.  A pipe goes on when what has been written by
\* then has found room (or the stream is gone), a push at once.
Push ==
  /\ pushes < MaxPushes
  /\ pc = "step" \/ user = "code"
  /\ ~Blocked
  /\ pushes' = pushes + 1
  /\ stream' = Written(OfStep("chunk", IF pc = "step" THEN at + 1 ELSE 0))
  /\ piped' \in {piped, Len(stream')}
  /\ activated' = TRUE
  /\ response' = IF sse /\ response = "none" THEN "sse" ELSE response
  /\ IF known /\ ~activated THEN RedirectIfReady ELSE UNCHANGED redirect
  /\ UNCHANGED <<sse, userVars, loopVars, closed, broken, serverVars, client, faults, unsaved>>

\* getRealtimeStreamRedirect answers.
RedirectFetched ==
  /\ redirect = "fetching"
  /\ \/ redirect' = "sent" /\ stream' = Written([type |-> "redirect"]) /\ UNCHANGED faults
     \/ /\ "redirect" \in Faults /\ faults < MaxFaults
        /\ faults' = faults + 1 /\ redirect' = "failed" /\ UNCHANGED stream
  /\ UNCHANGED <<sse, userVars, loopVars, response, activated, closed, broken, serverVars,
                 client, piped, pushes, unsaved>>

-----------------------------------------------------------------------------
(* User code.                                                              *)

SetCheckpoint(type, then) ==
  /\ ~Blocked
  /\ queue' = Append(queue, type)
  /\ user' = then
  /\ UNCHANGED <<sse, at, pc, task, background, known, response, streamVars, serverVars,
                 client, piped, boundVars>>

\* One step that can run at once, or steps in parallel, or one only the server can do.
FindSteps ==
  /\ user = "code" /\ at < N
  /\ \/ SetCheckpoint("step", "waiting")
     \/ SetCheckpoint("plan", "waiting")

Return ==
  /\ user = "code" /\ at = N
  /\ SetCheckpoint("resolved", "over")

\* An error that may be retried, or one that may not.
Throw ==
  /\ user = "code"
  /\ \/ SetCheckpoint("rejected", "over")
     \/ SetCheckpoint("rejectedFinal", "over")

-----------------------------------------------------------------------------
(* The core loop.                                                          *)

Loop(type) ==
  /\ pc = "loop" /\ queue # <<>> /\ Head(queue) = type
  /\ queue' = Tail(queue)
  /\ UNCHANGED <<sse, userVars, known, serverVars, client, piped, boundVars>>

Save(op, close, reply) ==
  /\ pc' = "save"
  /\ task' = [op |-> op, close |-> close, reply |-> reply]
  /\ UNCHANGED <<background, response, streamVars>>

Reply(reply) ==
  /\ pc' = "done" /\ task' = NoTask
  /\ response' = IF response = "none" THEN reply ELSE response

\* checkpointAndSwitchToAsync.
SwitchTask(op) ==
  [op |-> op, close |-> "switch", reply |-> IF sse THEN "sse" ELSE "redirect"]

Switch(op) == Save(op, "switch", SwitchTask(op).reply)

\* Mutant: a stream that goes on elsewhere is closed like one that has its result.
CloseOfResult(t) ==
  IF t.close # "switch" THEN t.close
  ELSE IF activated /\ t.op = "stepFailed" THEN "failed"
  ELSE IF activated \/ sse THEN "succeeded" ELSE "no"

\* How the stream is closed once the checkpoint has been taken.
CloseOf(t) ==
  IF t.close # "switch" THEN t.close
  ELSE IF activated /\ t.op = "stepFailed" THEN "failed"
  ELSE IF activated \/ sse THEN "end" ELSE "no"

TakeStep ==
  /\ Loop("step")
  /\ pc' = "step"
  /\ UNCHANGED <<task, background, response, streamVars>>

TakePlan == Loop("plan") /\ Switch("plan")

\* Mutant: the result is shown to the client only.
TakeResolvedUnsaved ==
  /\ Loop("resolved")
  /\ IF sse
       THEN /\ pc' = "close" /\ task' = [op |-> "none", close |-> "succeeded", reply |-> "sse"]
            /\ UNCHANGED <<background, response, streamVars>>
       ELSE Save("runComplete", "no", "json")

\* With SSE: close the stream, answer, checkpoint the result in the background.  Without: a
\* Response object is passed on and checkpointed in the background, any other result is
\* checkpointed first; a stream nobody reads is closed.
TakeResolved ==
  /\ Loop("resolved")
  /\ IF sse
       THEN /\ pc' = "close"
            /\ task' = [op |-> "runComplete", close |-> "succeeded", reply |-> "sse"]
            /\ UNCHANGED <<background, response, streamVars>>
       ELSE /\ IF activated THEN CloseWriter("succeeded") ELSE UNCHANGED streamVars
            /\ \/ /\ pc' = "save"
                  /\ task' = [op |-> "runComplete", close |-> "no", reply |-> "json"]
                  /\ UNCHANGED <<background, response>>
               \/ /\ Reply("json")
                  /\ background' = [stage |-> "save", op |-> "runComplete", close |-> "no"]

\* The streaming client has its response: checkpoint the error and close the stream in the
\* background.  Otherwise a final error is the answer, any other is left to the server.
TakeRejected ==
  \E final \in BOOLEAN :
    /\ Loop(IF final THEN "rejectedFinal" ELSE "rejected")
    /\ IF activated /\ sse
         THEN /\ pc' = "done" /\ task' = NoTask
              /\ background' = [stage |-> "save", op |-> IF final THEN "runFailed" ELSE "runError",
                                close |-> IF final THEN "failed" ELSE "end"]
              /\ UNCHANGED <<response, streamVars>>
         ELSE IF final
           THEN Reply("error") /\ UNCHANGED <<background, streamVars>>
           ELSE Switch("runError")

StepOver(event) ==
  /\ pc = "step" /\ ~Blocked
  /\ stream' = Written(OfStep(event, at + 1))
  /\ UNCHANGED <<sse, queue, background, known, response, activated, closed, broken,
                 redirect, serverVars, client, piped, boundVars>>

\* Mutant: the error of a step is checkpointed like a result, and the next step goes on.
StepFailsAndContinues ==
  /\ StepOver("rollback")
  /\ at' = at + 1 /\ user' = "code"
  /\ pc' = "save" /\ task' = [NoTask EXCEPT !.op = "stepError"]

\* The body of the step throws.
StepFails ==
  /\ StepOver("rollback")
  /\ \E op \in {"stepError", "stepFailed"} :
       /\ pc' = "save"
       /\ task' = SwitchTask(op)
  /\ UNCHANGED <<at, user>>

\* The body returns: user code resumes, and its result is checkpointed meanwhile.
StepEnds ==
  /\ StepOver("commit")
  /\ at' = at + 1 /\ user' = "code"
  /\ pc' = "save" /\ task' = [NoTask EXCEPT !.op = "step"]

-----------------------------------------------------------------------------
(* Checkpoints, the end of the stream, and the answer.                     *)

Ended == {"completed", "failed"}

Applied(op) ==
  CASE run \in Ended -> run
    [] op = "step" -> IF run = "unknown" THEN "sync" ELSE run
    [] op = "runComplete" -> "completed"
    [] op = "runFailed" -> "failed"
    [] OTHER -> "async"

\* checkpoint() returns: checkpointNewRun or checkpointSteps.
Checkpointed(op) ==
  /\ run' = Applied(op)
  /\ known' = TRUE
  /\ IF known THEN UNCHANGED redirect ELSE RedirectIfReady
  /\ UNCHANGED <<sse, userVars, queue, activated, stream, closed, broken, attempts, client,
                 piped, boundVars>>

SaveSucceeds ==
  /\ pc = "save"
  /\ Checkpointed(task.op)
  /\ IF CloseOf(task) # "no"
       THEN /\ pc' = "close" /\ task' = [task EXCEPT !.op = "none", !.close = CloseOf(task)]
            /\ UNCHANGED response
       ELSE IF task.reply # "none" THEN Reply(task.reply)
       ELSE pc' = "loop" /\ task' = NoTask /\ UNCHANGED response
  /\ UNCHANGED background

\* All attempts have failed; the last may have been applied all the same.
Unsaved(op) ==
  /\ faults < MaxFaults /\ faults' = faults + 1
  /\ unsaved' = unsaved \cup {op}
  /\ \/ "refused" \in Faults /\ UNCHANGED run
     \/ "lost" \in Faults /\ run' = Applied(op)
  /\ UNCHANGED <<sse, userVars, queue, known, streamVars, attempts, client, piped, pushes>>

\* checkpoint() throws: the catch of runCoreLoop.
SaveFails ==
  /\ pc = "save"
  /\ Unsaved(task.op)
  /\ IF sse
       THEN /\ pc' = "close" /\ task' = [op |-> "none", close |-> "failed", reply |-> "error"]
            /\ UNCHANGED response
       ELSE Reply("error")
  /\ UNCHANGED background

\* Mutant: the stream is closed while the redirect is on its way.
CloseAtOnce ==
  /\ pc = "close"
  /\ CloseWriter(task.close)
  /\ Reply(task.reply)
  /\ background' = IF task.op = "none" THEN background
                   ELSE [stage |-> "save", op |-> task.op, close |-> "no"]
  /\ UNCHANGED <<sse, userVars, queue, known, serverVars, client, piped, boundVars>>

\* streamCloseSucceeded, streamCloseFailed, streamEnd, and what the handler does next.
Close ==
  /\ pc = "close" /\ redirect # "fetching"
  /\ CloseWriter(task.close)
  /\ Reply(task.reply)
  /\ background' = IF task.op = "none" THEN background
                   ELSE [stage |-> "save", op |-> task.op, close |-> "no"]
  /\ UNCHANGED <<sse, userVars, queue, known, serverVars, client, piped, boundVars>>

\* Mutant: an error that cannot be checkpointed ends the continuation.
BackgroundSaveOrNothing ==
  /\ background.stage = "save"
  /\ \/ /\ background' = IF background.close = "no" THEN NoBackground
                          ELSE [background EXCEPT !.stage = "close"]
        /\ Checkpointed(background.op)
     \/ background' = NoBackground /\ Unsaved(background.op)
  /\ UNCHANGED <<pc, task, response>>

\* checkpointReturnValue, or the checkpoint of the function's error; failures are logged.
BackgroundSave ==
  /\ background.stage = "save"
  /\ background' = IF background.close = "no" THEN NoBackground
                   ELSE [background EXCEPT !.stage = "close"]
  /\ Checkpointed(background.op) \/ Unsaved(background.op)
  /\ UNCHANGED <<pc, task, response>>

BackgroundClose ==
  /\ background.stage = "close" /\ redirect # "fetching"
  /\ CloseWriter(background.close)
  /\ background' = NoBackground
  /\ UNCHANGED <<sse, userVars, queue, pc, task, known, response, serverVars, client, piped,
                 boundVars>>

-----------------------------------------------------------------------------
(* The run in Async mode: the server calls the endpoint, and relays what   *)
(* it streams to whoever is connected.                                     *)

Relayed(kind) == IF client.link THEN [client EXCEPT !.relayed = kind] ELSE client

Async ==
  /\ run = "async"
  /\ UNCHANGED <<sse, userVars, loopVars, response, streamVars, piped, boundVars>>

AsyncResolves ==
  /\ Async
  /\ run' = "completed" /\ client' = Relayed("succeeded")
  /\ UNCHANGED attempts

AsyncRejects ==
  /\ Async
  /\ attempts' = attempts + 1
  /\ IF attempts' = MaxAttempts
       THEN run' = "failed" /\ client' = Relayed("failed")
       ELSE UNCHANGED <<run, client>>

-----------------------------------------------------------------------------
(* The client: fetchWithStream, or a plain request.                        *)

ClientStep == /\ client.outcome = "none"
              /\ UNCHANGED <<sse, userVars, loopVars, response, activated, stream, closed, redirect,
                             serverVars, piped, pushes, unsaved>>

Answered ==
  /\ ClientStep
  /\ response \in {"json", "error", "redirect"}
  /\ client' = [client EXCEPT !.outcome = response]
  /\ UNCHANGED <<broken, faults>>

ReadEvent ==
  /\ ClientStep /\ response = "sse"
  /\ client.read < Len(stream)
  /\ LET event == stream[client.read + 1]
         next == [client EXCEPT !.read = @ + 1]
     IN client' = CASE event.type = "redirect" -> [next EXCEPT !.url = TRUE]
                    [] event.type = "succeeded" -> [next EXCEPT !.outcome = "streamSucceeded"]
                    [] event.type = "failed" -> [next EXCEPT !.outcome = "streamFailed"]
                    [] OTHER -> next
  /\ UNCHANGED <<broken, faults>>

\* The redirect URL is fetched at once, not when the direct stream has ended.
ConnectEagerly ==
  /\ ClientStep /\ client.url /\ ~client.link
  /\ client' = [client EXCEPT !.link = TRUE]
  /\ UNCHANGED <<broken, faults>>

DirectEnded == response = "sse" /\ closed /\ client.read = Len(stream)

\* The stream has ended without a result, and there is nowhere to go on.
NoResponse ==
  /\ ClientStep /\ DirectEnded /\ ~client.url
  /\ client' = [client EXCEPT !.outcome = "noResponse"]
  /\ UNCHANGED <<broken, faults>>

ReadRelay ==
  /\ ClientStep /\ DirectEnded /\ client.relayed # "none"
  /\ client' = [client EXCEPT !.outcome = IF client.relayed = "succeeded" THEN "relaySucceeded"
                                          ELSE "relayFailed"]
  /\ UNCHANGED <<broken, faults>>

\* The client closes the connection: writes to the stream fail from now on.
Leave ==
  /\ ClientStep /\ "leave" \in Faults /\ faults < MaxFaults /\ response = "sse"
  /\ client' = [client EXCEPT !.outcome = "left"]
  /\ broken' = TRUE /\ faults' = faults + 1

-----------------------------------------------------------------------------

User == FindSteps \/ Return \/ Throw
Core == \/ TakeStep \/ TakePlan \/ TakeResolved \/ TakeRejected
        \/ StepEnds \/ StepFails \/ SaveSucceeds \/ SaveFails \/ Close
Detached == BackgroundSave \/ BackgroundClose
Reader == Answered \/ ReadEvent \/ ConnectEagerly \/ NoResponse \/ ReadRelay

Next == \/ User \/ Push \/ Core \/ Detached \/ RedirectFetched
        \/ AsyncResolves \/ AsyncRejects \/ Reader \/ Leave

Spec == Init /\ [][Next]_vars

\* User code ends, promises settle, the API answers, the client reads, and the server retries.
FairSpec == Spec /\ WF_vars(User) /\ WF_vars(Core) /\ WF_vars(Detached)
                 /\ WF_vars(RedirectFetched) /\ WF_vars(AsyncResolves \/ AsyncRejects)
                 /\ WF_vars(Reader)

-----------------------------------------------------------------------------
(* Properties.                                                             *)

Terminal == {"succeeded", "failed"}
EventAt(i, types) == stream[i].type \in types

\* Before the stream is closed, every chunk of a step is settled by a commit or a rollback
\* of that step: no client is left with data it can neither keep nor discard.
ChunksSettled ==
  (closed /\ ~broken) => \A i \in DOMAIN stream :
              (EventAt(i, {"chunk"}) /\ stream[i].step > 0) =>
                \E j \in DOMAIN stream : /\ j > i /\ EventAt(j, {"commit", "rollback"})
                                         /\ stream[j].step = stream[i].step

\* A stream the client still reads ends with the outcome or has told the client where to go
\* on, however late the redirect URL was known; the exception is a URL that could not be had,
\* or a run of which no checkpoint has been answered (the server may know it all the same).
EndLeadsOn ==
  (sse /\ closed /\ ~broken) =>
    \/ \E i \in DOMAIN stream : EventAt(i, Terminal \cup {"redirect"})
    \/ redirect = "failed" \/ ~known

\* A client that is told of a success is told the truth: the run is not handed to the server
\* besides, and it has not failed there.
SuccessIsFinal ==
  (\E i \in DOMAIN stream : EventAt(i, {"succeeded"})) => run \notin {"async", "failed"}

\* The same of a failure (streaming.md: inngest.response is the terminal event).  It does not
\* hold: a step that fails for good ends the stream, and user code that catches its error on
\* the server's next call completes the run.
FailureIsFinal ==
  (\E i \in DOMAIN stream : EventAt(i, {"failed"})) => run # "completed"

\* Once the server has taken the run over, the request executes no step of it.
ServerRunsAlone == run \in {"async"} \cup Ended => pc # "step"

\* The server hears of the end of every run that a client was told had succeeded, whatever
\* else was refused or lost before and besides, unless the checkpoint of that result itself
\* fails, which nobody but a debug line hears of.
SuccessIsRecorded ==
  (response = "sse" /\ \E i \in DOMAIN stream : EventAt(i, {"succeeded"}))
    ~> (run = "completed" \/ "runComplete" \in unsaved)

\* The client is told where the request's answer is: by its response, its stream, or the
\* relayed stream it is sent to.
IsAnswer(outcome) == outcome \notin {"none", "noResponse"}

\* The stream has ended, and there is nowhere to go on: the redirect URL could not be had, or
\* the checkpoint of the function's error, the run's first, failed.
NowhereToGo ==
  /\ client.outcome = "noResponse"
  /\ redirect = "failed" \/ (~known /\ "runError" \in unsaved)

\* The client waits on the relayed stream in vain: that stream had ended before the client
\* could connect, or the server does not take the run over because the checkpoint of the
\* function's error failed.
Unreached ==
  /\ DirectEnded /\ client.link /\ client.relayed = "none"
  /\ run \in Ended \/ (run = "sync" /\ "runError" \in unsaved)

\* User code pipes to a stream nobody reads, beyond what it holds.
PipesInVain == ~sse /\ Blocked

\* Every request is answered to the end, but for these three cases.
ClientAnswered == <>(IsAnswer(client.outcome) \/ NowhereToGo \/ Unreached \/ PipesInVain)
=============================================================================
