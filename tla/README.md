# Verification of the Inngest TypeScript SDK

TLA+ models of the SDK in `packages/inngest`, checked with TLC, and theorems about
them checked with TLAPS. The paths below are relative to `packages/inngest/src`.

## 1. The system

A user writes a *durable function*: ordinary asynchronous code that calls steps. The
SDK serves requests of the Inngest Server (outside this repository). Every request
runs the user function from its beginning; a step whose result the server has recorded
is *memoized* and settles at once, a new step is run, or reported to the server, which
plans it and sends another request. A run is a sequence of such requests. Requests come
over HTTP, or over a WebSocket a worker keeps open (*Connect*). A *durable endpoint* is
a function that serves an HTTP request of its own and becomes a run only when it cannot
finish in it. Around this are realtime subscriptions (and a React hook for them) and
remote sandboxes driven from steps.

| part | state it keeps | operations | interacts with |
|---|---|---|---|
| execution engine, `components/execution/engine.ts` | the steps found, their results, the checkpoint queue, the buffer of results to checkpoint, lazy ops, timers | user code calls a step; a roll-up is reported; the core loop handles a checkpoint; a step body ends; a checkpoint call ends | user code (promises), the server (request, checkpoint API, response) |
| lazy ops, `components/execution/lazyOps.ts` | buffered defers, ids seen | push, markSeen, drain, abort | engine |
| step tools, `components/InngestStepTools.ts` | none | make a step of a call, with a body or for the server | engine |
| durable endpoints, `engine.ts` (`syncHandlers`), `components/StreamTools.ts`, `experimental/durable-endpoints/client.ts` | the SSE stream, whether it is activated, redirected, ended; whether the run is known to the server | run a step and checkpoint it, push, commit, roll back, switch to async, redirect, close; the client follows | user code, checkpoint API, server, HTTP client |
| communication handler, `components/InngestCommHandler.ts` | none across requests | run, introspect, register, probe | engine, server |
| connect, `components/connect/` | WebSocket connections to the gateway, requests in flight and their leases, buffered responses | connect, drain, reconnect, execute, extend a lease, buffer, flush, shut down | gateway, engine, API |
| worker-thread strategy, `components/connect/strategies/workerThread/` | the thread and its message channel | start, proxy a request, respawn, shut down | connect core in the thread |
| realtime subscriptions, `components/realtime/subscribe/` | the socket, messages being parsed and validated, readers | connect, parse, validate, fan out, close | gateway, user |
| React hook, `react.ts` | connection runs, the current subscription and reader, messages shown and buffered | effect and clean-up, read, reconnect, flush, reset | React, a subscription |
| sandbox, `components/sandbox/` | handles of remote processes | create, wait, exec, start, signal, destroy, each as a durable step | engine, sandbox API |
| middleware manager, `components/middleware/manager.ts` | once-only flags, hook chain | transform, wrap, notify | engine |
| client and function objects, `components/Inngest.ts`, `InngestFunction.ts` | configuration | send events, choose the step mode | all |
| framework adapters, `next.ts`, `express.ts`, ... | none | translate requests and responses | communication handler |
| companion packages | none of their own in a run | encryption, sentry, validation, test engine | client |

What makes the SDK hard: user code and the core loop run concurrently on one event
loop and meet at promises and a queue; results are executed ahead of being recorded
(checkpointing), so every way of ending a request must flush what is buffered; a
request may be given up and sent again while it still runs; the process may die at any
await; checkpoint calls fail after having been applied; sockets close with requests in
flight; threads die between two messages; a React effect is cancelled while it awaits.

For each component, what makes it correct:

| component | properties |
|---|---|
| step ids | a call gets the result of its own body in every request; two calls of a request have different ids; every call settles |
| engine | every path that ends a request carries the results it ran, the steps it found and the defers it collected; results are recorded in program order; replay shows user code the same order; attempts belong to one step; a stale request stops; the run ends |
| durable endpoint | the stream ends with a result or tells the client where to go on; a success it tells is final and recorded; the request and the server never both own the run; the client is answered |
| connection core | no wake-up is lost; every socket is owned by a slot until it is closed, or was drained twice; a shutdown waits for work, takes no new work and ends; a lost connection is replaced, while the loop runs |
| request processor | a lease exists exactly while user code runs; a late answer is harmless |
| response buffer | a response is delivered, pending or buffered, never none of them; a pending response has a deadline; what is buffered is sent |
| worker thread | the thread is replaced while it is wanted and never after close(); a shutdown waits for the calls under way, and returns |
| realtime | every reader gets everything since it was made, in order, and ends; once closed, nothing is fanned out but what was being validated |
| React hook | what is shown belongs to the channel shown; every connection has an owner; an unmounted hook lets go, an enabled one ends up connected |
| sandbox | what must not be repeated is done once, a plain error means nothing was done, unless a crash or an answer in the API's place hides it; the function ends |
| middleware manager | what a middleware does before a step is done before the step runs; hooks nest; the end of memoization is announced once |

## 2. Modules

```
Execution        one request inside the SDK: the engine           (declares the engine's steps)
  DurableRun     the engine + the Inngest Server + faults          (Init, Next, Spec, properties)
    RunPromise   what a run promises, without requests or faults   (refined by DurableRun)
    MCDurableRun user functions for TLC
    DurableRunProofs
StepIds          the ids of steps and the middleware around a step
    MCStepIds    an instance for TLC                                + StepIdsProofs
DurableEndpoint  a Sync request, its stream, server and client      + DurableEndpointProofs
MessageBuffer    the response buffer of a Connect worker           (a specification of its own)
Connection       the connection core                               (declares the core's steps)
  ConnectWorker  core + request processor + buffer + gateway       (refines MessageBuffer)
    ConnectWorkerProofs
WorkerThread     the thread strategy: main thread, thread, channels + WorkerThreadProofs
Subscription     a realtime subscription and its readers            + SubscriptionProofs
RealtimeHook     useRealtime over what Subscription promises        + RealtimeHookProofs
SandboxSteps     durable sandbox steps against the sandbox API      + SandboxStepsProofs
```

Everywhere one action is one callback, or one resumption of a coroutine up to its next
`await`; what is atomic on the event loop is atomic in the model and nothing else is.

### 2.1 Execution and DurableRun

| model | code |
|---|---|
| `UserCalls`, `FunctionReturns`, `FunctionThrows` | user code, `startExecution`, `pushStepToReport` |
| `found`, `toReport`, `ticking`, `HandleMemoized`, `ReportFound` | `state.steps`, `foundStepsToReport`, `reportNextTick` |
| `Bodies`, `Waits` | `createTool`: tools that hand the engine a function to run (`step.run`, `sendEvent`, ...), and those whose op only says what the server is to wait for (`sleep`, `waitForEvent`, `waitForSignal`, `invoke`, `ai.infer`) |
| `queue`, `TakeCheckpoint` | the checkpoint stream that `runCoreLoop` iterates |
| `AsyncStepsFound` ... `BufferIntervalReached` | the handler tables of `asyncHandlers` and `asyncCheckpointingHandlers` |
| `pc.at = "exec"`, `StepSucceeds`, `StepThrows` | `executeStep`, one body at a time because the core loop awaits it |
| `pc.at = "checkpoint"`, `CheckpointOk`, `CheckpointLost`, `CheckpointRefused` | `checkpoint`, `attemptCheckpointAndResume`, the stale-dispatch error |
| `buffer`, `lazy`, `exceeded`, `timers` | `checkpointingStepBuffer`, `lazyOps`, `checkpointingRuntimeExceeded`, the timeout promises |
| `Dispatch`, `RecordCheckpoint`, `ApplyResponse`, `Retry`, `WaitEnds` | external: the server |

The user function is data. `CallAfter[c]` lists the alternatives after which user code
calls `c` (a conjunction for `Promise.all`, a choice for `Promise.race`), `ReturnAfter`
those after which it returns; `PromptUser = FALSE` lets user code await something else
between two calls. The server is what the SDK relies on: one request of a run at a
time, results memoized once, a planned step has a queue item with its own attempts, a
wait ends when it likes (also while a request is being served, which then plans it once
more) and calls for a discovery request, a batch that repeats recorded results is not
applied again.

`RunPromise` says the same without requests: results are only added, a step has one
only if user code could have called it on the recorded results, and the run ends once,
completed only on results that let user code return. `KeepsPromise` is that
specification under `results <- memo`.

### 2.2 Connection, MessageBuffer and ConnectWorker

| model | code |
|---|---|
| `loop`, `woken`, `Iterate`, `Wake` | `reconcileLoop`, `pendingWakeReasons` and the wake promise |
| `StartAccepted`, `StartUnauthorized`, `HandshakeFails`, `HandshakeTimesOut`, `Established` | `establishConnection` and what the loop does with its outcome |
| `StartFails`, `StartThrows` | a `ReconnectError`, after which the loop backs off, and any other error, which ends it (`connection.ts:563`; `loop = "failed"`) |
| `active`, `draining`, `conns` | `_activeConnection`, `_drainingConnection`, `Connection` objects and their WebSockets |
| `SocketCloses`, `HandleHeartbeat`, `HandleClosing`, `HandleRequest`, `HandleLeaseAck`, `HandleReplyAck` | `attachHandlers` and the handlers of `requestProcessor.ts` |
| `HeartbeatTick`, `ShutdownDump`, `ExtendLease`, `StopExtending`, `Expire` | timers |
| `RequestShutdown`, `BeginFinalFlush`, `CloseReturns` | `close()` of core and strategy |
| `lease` | `requestLeases` and `requestMeta`, which always have the same keys |
| `exec` | the activations of `handleExecutorRequest`, one per delivery |
| `MessageBuffer` | `buffer.ts` |
| `gateway`, `route`, `inbox`, `GatewayDrains`, `RouteRequest`, `LeaseExpires`, `SocketBreaks` | external: gateway and network |

A promise continuation runs before the next event of the event loop: `Settled` and
`Quiet` hold every other action back until the loop, or `close()`, has taken its
microtask. A socket is `open`, `broken` (the transport is gone and nobody knows:
`readyState` is still OPEN, what was under way is lost from some point on), `closed`,
or an `orphan` whose handshake timed out. Messages of one socket arrive in order;
across sockets in any order, so a message on a replaced connection may come late.
`dropped` is history: the connections a GATEWAY_CLOSING on another one than the active
one has put out of the draining slot, which nothing closes.

Left out of the worker: the delay of a backoff and the attempt counter that chooses it,
close codes, log lines and status reports, the comparison of the application's name,
signal handlers, and the promises `start()` and `closed` hand to the user. `close()` is
called at most once (the second call returns the first promise). The order in which a
pass of a flush sends its snapshot is any order.

### 2.3 DurableEndpoint

| model | code |
|---|---|
| `FindSteps`, `Return`, `Throw` | user code reaching the core loop: `steps-found`, `startExecution` |
| `TakeStep`, `TakePlan`, `TakeResolved`, `TakeRejected` | the handlers of `syncHandlers` |
| `StepOver`, `StepFails`, `StepEnds` | `executeStep`, `buildStepErrorOp` and what the handler makes of them |
| `Save`, `SwitchTask`, `SaveSucceeds`, `SaveFails` | `checkpoint`, `checkpointAndSwitchToAsync`, and a call whose retries are exhausted |
| `Push`, `Written`, `CloseWriter` | `Stream`: activation, events from a step or between two, close |
| `piped`, `Blocked` | `pipeIterable` at the high-water mark: user code goes on when the reader has made room |
| `RedirectIfReady`, `RedirectFetched` | `sendRedirectIfReady` |
| `BackgroundSave`, `BackgroundClose` | the detached continuations of `function-resolved` and `function-rejected` |
| `Reply` | `handleSyncRequest`: SSE, JSON, error or a redirect |
| `Reader` | `fetchWithStream`, `iterSseFollowRedirects` |
| `AsyncResolves`, `AsyncRejects`, `Relayed` | the server's own calls of the endpoint, and its relay |

### 2.4 WorkerThread

| model | code |
|---|---|
| `Connect`, `Close`, `HandlerEnds` | `WorkerThreadStrategy`: `connect`, `close`, `handleExecutionRequest` |
| `OnStateChange` ... `OnExit` | `handleWorkerMessage` and the listeners of `createWorker` |
| `BackoffEnds` | the respawn timer |
| `TakeInit`, `TakeConnect`, `TakeClose`, `TakeAnswer`, `Deliver` | `WorkerRunner.handleMessage` and `handleExecutionRequest` |
| `CoreReady`, `CoreDrops`, `CoreFails`, `LeaseLost`, `CoreExits` | the core inside the thread, by what it tells the runner: `ConnectWorker` is its detail |
| `ThreadExits`, `Crash`, `Dies` | the exit of the runner; an uncaught error; the death notice behind everything posted |

### 2.5 Subscription

| model | code |
|---|---|
| `Connect`, `TokenArrives`, `Opens`, `SocketFails`, `SocketCloses` | `TokenSubscription.connect`, `onopen`, `onerror`, `onclose`, `subscribe()` |
| `Receives`, `Parsed`, `Handle`, `Validated` | `onmessage` up to each of its awaits |
| `Write`, `CloseWriters`, `waiting`, `queue` | `StreamFanout`: one message in a `TransformStream`, the others behind `writer.ready` |
| `Reads`, `CancelReader` | readers: `useCallback`, a user's reader |
| `Shut`, `Close` | `close()` of the subscription and of what `subscribe()` returns |

The handlers of chunk streams take no part: `datastream-start` throws before it has
registered or fanned out anything, and `chunk` and `datastream-end` look up a stream that
was never registered (section 6). In the model they are messages that are ignored.

### 2.6 RealtimeHook

| model | code |
|---|---|
| `Mount`, `Rerender`, `Unmount` | the effect, its clean-up, and both when a dependency changes |
| `TokenResolves`, `Subscribes`, `Reads`, `ReadsLast`, `CleansUp`, `Wakes` | the loop `run`, from await to await |
| `runs`, `current` | one `run` per effect; those cancelled go on until they look at `cancelled` |
| `subscriptionRef`, `readerRef`, `CleanUp`, `Unsubscribes` | the refs and `cleanupConnection` |
| `Apply`, `Flush`, `Tick`, `ChangeInterval`, `Forget`, `Reset` | `applyMessage`, the buffer interval, the reset of the messages |

### 2.7 SandboxSteps

| model | code |
|---|---|
| `Begin`, `Loop`, `Polled`, `Wakes`, `Expires` | `executeSandboxOperation`, `waitUntilSandboxRunning` |
| `Request`, `Returned`, `Lost`, `Unanswered`, `Refuse`, `Opaque`, `Unsure` | `SandboxRestTransport`: the answer, and what it makes of none or a bad one. `Opaque` is an error without the API's envelope, as a proxy gives it, before or after the API has acted |
| `Settle`, `Record`, `Invalid` | `executeAsStep`, `validateSandboxResult`: the memo, or another attempt |
| `After`, `Action` | external: user code that heeds what the errors advise |
| `Does`, `Serve`, `Moves` | external: the sandbox API |

### 2.8 StepIds

`Execution` takes step ids as given. This module models where they come from and what
comes of a wrong one, and takes the rest of the engine as simply as it can.

| model | code |
|---|---|
| `CallStep`, `applying` | `createTool` and `stepHandler` up to the first await: the id is claimed at once |
| `Claim`, `FreeIndex`, `expected`, `registered` | `resolveStepIdCollision`, `expectedNextStepIndexes`, `state.steps` |
| `ApplyMiddleware`, `Wraps` | `applyMiddlewareToStep`: `transformStepInput`, the second claim, the memo; `wrapStep` at once for a new step, at `handle()` for a memoized one |
| `Prepended`, `Settle` | a step that `wrapStep` makes before `next()`, and the promises that settle with it |
| `found`, `ticking`, `HandleMemoized`, `ReportFound` | `foundStepsToReport`, `reportNextTick`: one memoized step a tick, in the server's order |
| `StepRan`, `StepResumes`, `StepsPlanned`, `NothingToDo` | `tryExecuteStep`, `resumeStepWithResult`, `maybeReturnNewSteps` |
| `StartRequest`, `LateRequest`, `WaitEnds`, `Discovery`, `Owe` | external: the server, which may send a request with the results of an earlier moment |

An id is a sequence of which a number may be the last element, so that a written `a:1`
and the index 1 of `a` are the same id. Each result carries the call whose body made it
(`by`), which the code does not have and no guard reads: it is what `OwnResult` compares.
User code and middleware await nothing but steps (`UserWaits`); step errors and the
buffering of checkpoints are left to `DurableRun`.

## 3. Checks

Twelve runs. A run's faults happen at any moment and in any order.

| run | instance | what it shows |
|---|---|---|
| SequentialRun | three steps in a row, a defer after the first and a sleep after the last; the first two steps fail, three attempts; two faults (crash, lost checkpoint, stale dispatch); a buffer of 2; user code is slow | `NoLostResults`, `StaleRunsBounded`, `DefersReachServer`, `FullRetryBudget`, `KeepsPromise` |
| ConcurrentRun | a step, then two steps and a wait at once, of which a step and the wait may fail and are caught; a defer after the first that ends; both timers; one fault; two attempts | `DeterministicReplay`, `RunEnds` |
| AsyncRun | checkpointing off, a race of a step and a wait, two defers, user code throws, one fault, two attempts | `ExactlyOnce` |
| StepIdsRun | two parallel chains of two calls that share ids, a wait renamed to one of them, a prepended step, a written id that looks like one with an index; checkpointing on and off; one request fails or comes late | `OwnResult`, `OneIdPerCall`, `PrependedFirst`, `RunCompletes` |
| ConnectSafety | one request that may be delivered twice, eleven kinds of fault of which two happen, a shutdown at any moment | `NoLostWake`, `NoGhostLease`, `ShutdownWaits`, `SocketsOwned`, `ResponsesHeld`, `UsesBuffer` |
| ConnectLive | the API accepts only the fallback key, two faults | `ShutdownCompletes`, `FlushDelivers`, `Reconnects` |
| ThreadRun | one request delivered twice, two calls of `close()`, one crash tolerated, three faults (crash, lost connection, lost lease, core failed for good) | `NoThreadAfterClose`, `ClosedAfterAnswers`, `CloseReturns`, `StaysAvailable` |
| EndpointRun | two steps, two pushes, two attempts, with and without SSE, a stream that holds one event, two faults (checkpoint refused or lost, redirect not to be had, client leaves) | `EndLeadsOn`, `ServerRunsAlone`, `SuccessIsFinal`, `SuccessIsRecorded`, `ClientAnswered` |
| SubscriptionRun | a callback and a second reader, three messages of any kind | `InOrder`, `ClosedIsQuiet`, `ReadersEnd` |
| HookRun | two channels, two connection runs, two messages, a history of one, one fault (no token, refused, ended) | `OnlyThisChannel`, `Owned`, `UnmountCloses`, `StaysOpen` |
| SandboxRun | exec or a process, with and without waiting in create, two attempts, three faults of eight kinds | `AtMostOnce`, `PlainErrorsAreTrue`, `FunctionEnds` |
| DanglingStep | the smallest instance that shows it | section 6 |

Bounds and why they are enough:

- *Three steps and a wait*: one step whose result is buffered, one that fails or is
  concurrent, one after it; the wait ends between two requests or during one. With
  `BufferedSteps = 2` the buffer is both partly filled and full.
- *Two faults in SequentialRun*, so that a stale dispatch meets a lost checkpoint; one
  where liveness or races make the state space larger.
- *`MaxAttempts` 2 or 3* for the server: a last attempt and one before it. 3 in
  SequentialRun, so that an inherited attempt still leaves one.
- *Two faults in the worker*: a connection lost while its replacement is established,
  a drain with a break, a lease lost with a close. There are `MaxFaults + 1`
  connection ids because a new one is needed only after a fault. The connection that
  `SocketsOwned` exempts needs three; `WorkerOwnsSockets` proves the property for any number.
- *One request, delivered twice*: handlers of one request overlap, and a pass of a flush
  overlaps with another. `MaxLease`: lease ids only need to differ from the previous one.
  At most one lease acknowledgement is under way per socket.
- *`MaxAttempts` of a flush* is 5 in the code; the runs use fewer.
- *Three faults in ThreadRun*: the thread dies, its replacement does, and the core of
  the third loses its connection. `MaxCrashes` (10 in the code) only needs to be both
  reached and not reached.
- *`HighWaterMark = 1`* in EndpointRun: the second event waits for a reader. *Two
  pushes*, by a step, between two or both, written at once or piped.
- *Three calls of one id in StepIdsRun* (two written, one by a middleware), so that an
  index is claimed while another is; a discovery request always carries all results but
  for `LateRequest`, a step request those of any moment since it was planned.
- *Three messages* for two readers: one inside the `TransformStream`, one waiting, one
  to be overtaken. *Twelve steps* in SandboxRun are what its function takes at most with
  three faults. *Two runs of the hook*: the current one and one cancelled at any of
  its awaits.
- What a run's property exempts is named in its formula and in section 6: a core whose loop
  an error has ended (`ShutdownCompletes`, `Reconnects`), a RunComplete refused for good
  (`SuccessIsRecorded`), the three requests nobody can answer (`ClientAnswered`), an effect
  that a crash or an answer without envelope hides (`AtMostOnce`, `PlainErrorsAreTrue`), a run
  none of whose checkpoints was answered, also one that was applied (`EndLeadsOn`). Each
  property fails without its exemption; that of `SocketsOwned` only at three faults.
- `history` of `DurableRun` caps its counters (`Capped`), and no guard of the system reads
  it; the same holds of the variables marked *history* in the other modules.

Deadlock is checked for the runs of `DurableRun`, whose end is a stuttering step. A
closed worker, an ended endpoint, a closed subscription, an unmounted hook and a
function that has ended have nothing left to do, so it is off for the others.

Fairness is weak everywhere and never given to a fault, a new request, a shutdown, or
anything a user or a peer may simply not do.

- `DurableRun`: the event loop goes on, step bodies and waits end, and the server answers.
- `StepIds`: the event loop goes on, the server sends what it owes and ends the waits.
- `ConnectWorker`: queued messages and microtasks are processed, timers fire, and what is
  awaited settles: the start API, the gateway's handshake, user code, the flush API
  with a key it accepts.
- `WorkerThread`: both event loops turn, timers fire, user code ends, and the gateway
  accepts a connection that is tried for ever.
- `DurableEndpoint`: user code ends, promises settle, the API answers, the client reads,
  the server retries. The user's pushes and a client that leaves are not fair.
- `Subscription`: requests and handshakes settle, readers read. An open socket need not
  close.
- `RealtimeHook`: promises settle and timers fire. React need not render anything.
- `SandboxSteps`: handlers and timers run and the API answers; a sandbox need not start.

## 4. Proofs

Eight modules prove their theorems for any constants: any set of steps, requests,
readers or channels, any user function, any options and any bound. They assume the
`ASSUME`s of the modules: bounds are naturals, `NoStep` is no step, `None` is no number,
attempts are positive, the user function's tables have their types.

| theorem | property | argument |
|---|---|---|
| `TypeCorrect` | `RunTypeOK`, the type invariant, which no run repeats | one lemma per operation. The core loop's position has to say that a running step *is* a step (`Pc`), and checkpoint batches are typed by `BatchTypes` |
| `RunKeepsPromise`, `ResultsInProgramOrder` | `KeepsPromise`, `RecordedInProgramOrder` | `PromiseInv`: what a request that is not stale knows is what the server has recorded (`Known`); each buffered result, each result of a batch under way and each response is *backed* by what is recorded and what precedes it in the batch (`Buffered`, `Entitled`, `Answer`); a wait the server has planned is one user code could have called (`Server`). Without backing, a batch might be recorded whose first result was lost |
| `StaleRunsHalt` | `StaleRunsBounded` | `StaleInv`: the bodies started since a request went stale are in the buffer or running, and a full buffer is a checkpoint, which the server refuses |
| `NoResultLost` | `NoLostResults` | `LossInv`: the results of the bodies that ended in a request are recorded or buffered (`Held`); a step of the engine that answers takes the whole buffer along (`EngineAnswersAll`), a checkpoint empties it only when it is recorded or in the answer. `TimersInv`: `step-not-found` belongs to requests that never buffer |
| `NothingRunsTwice` (and `AsyncExactlyOnce`) | `ExactlyOnce` | `OnceInv`: what is planned, asked for, or run has no result, recorded or buffered (`NothingTwice`); each answer is one the server records as a whole (`AllRecordable`: a batch with one result it has already would be dropped, the rest with it); a body that has succeeded has its result recorded, buffered or in the answer (`RanOnce`) |
| `DefersNotLost` | `DefersReachServer` | `DeferInv`: a defer that the request has seen is received, waiting to ship, or in the checkpoint under way; a checkpoint that fails ends the request with an answer that does not complete the run, since it has results or an error to return; a function that has returned has seen every defer |
| `RetryBudgetKept` | `FullRetryBudget` | attempts are counted per request, so that a discovery request tried again has to come to the same step. `RetryInv`: it is tried again only because the one step user code waits for, given what the server has (`Stuck`: the least set of steps closed under what they let user code call has one without a result), has thrown, and as often as the request was tried; meanwhile the server's results stand still (`Undisturbed`). `FoundInv` makes that step the same in every request: user code has called no more than the least set (`LeastInv`), and all of it when a body is chosen (`PromptInv`, or `OneAtATime`). `RejectInv` rules out every other reason to try again |
| `ReplayIsDeterministic` | `DeterministicReplay` | `SeenInv`: take the results in the order of the server, those recorded and then those buffered (`Completes`). Each result user code has seen was the first in that order that it could ask for (`Greedy`), and a request shows it a beginning of what has been seen (`Shown`). Both stay true because the order only ever grows at its end (`GreedyMore`): a wait that ends goes behind what is recorded, and never while something is buffered, since a request that checkpoints is sent with nothing planned (`NothingTwice`); and because prompt user code is at rest when a result is handed out (`PromptInv`), so that the engine's first found step with a result is the first user code could ask for at all (`ShowsFirst`) |
| `CrashRepeatsFew` | `LossWindow` (which no run lists) | `WindowInv`: the results unknown to the server are those of the buffer, which is checkpointed when full, and of one body |
| `CompletesWithResults` | `CompleteHasResults` (which no run lists) | from `PromiseInv`: an answer with the end of the run is backed (`CompleteEnough`), and nothing is recorded later |
| `IdsAreApart` | `OneIdPerCall` | `ClaimsOK`: an id in use is its base or has an index below the next one of its base, also after the call was renamed (`Below`); so the index claimed next is free, the search of `FreeIndex` ends at once, and the claim is nobody's |
| `OwnResults`, `PrependedRunsFirst`, `IdsAreReplayed` | `OwnResult`, `PrependedFirst`, `IdsReplayed` (which no run lists) | `ReplayOK`: the results in their order give each call one id, and every request finds it (below) |
| `WorkerTypeCorrect` | `TypeOK`, the type invariant, which no run repeats | inductive with `GroupsKnown`: a connection that can fail has a group, so that what is excluded is a group |
| `WorkerUsesBuffer` | `UsesBuffer` | each step maps to a step of `MessageBuffer` or leaves its variables alone (`WorkerStepsBuffer`), under the types |
| `WorkerHoldsResponses`, `WorkerSetsDeadlines` | `ResponsesHeld`, `PendingHasDeadline` | inductive over the steps of the buffer (`BufferKeeps`), carried over to the worker by the refinement |
| `WorkerHasNoGhostLease` | `NoGhostLease` | inductive with the types: only `HandleRequest` creates a lease, and it starts a handler in the same step; `HandleLeaseAck` needs one to exist |
| `WorkerShutdownWaits` | `ShutdownWaits` | `WaitInv`: a request delivered once is under way on one socket or has one handler begun (`SentOnce`); a message on its way carries a lease (`AsksLeased`); running code has a lease or an excuse (`ExecLeased`); a loop that has exited left no lease (`ExitedIdle`), and no later request is taken, since only a parked loop is ACTIVE |
| `WorkerLosesNoWake` | `NoLostWake` | `WakeInv`: a connection not yet established is not dead (`Fresh`), and a shutdown seen by a loop under way is either still queued as a wake-up or has requests to wait for, with the state already CLOSING (`ShutdownSeen`). Without the last part a request that ends during a handshake could leave the loop parked for ever |
| `WorkerOwnsSockets` | `SocketsOwned` | with an active connection nothing drains (`OneSlot`), and a loop that looks for a connection has no live one (`Connecting`), so that the one it makes replaces none that is owned: a connection leaves a slot only closed, dead or put into `dropped` |
| `WorkerLifecycle` | `Lifecycle` | `StateInv`: CONNECTING means never connected; ACTIVE and RECONNECTING mean connected before |
| `WorkerActiveIsLive`, `WorkerPausesOnShutdown` | `ActiveMeansLive`, `PausedOnShutdown` | `PromiseInv` of that module: only a parked loop is ACTIVE; with `WakeInv` its connection is live unless it has been woken |
| `ThreadTypeCorrect`, `ThreadStaysClosed` | `NoThreadAfterClose` | `ThreadInv`: a thread that is dead has its `exit` as the last entry of the channel and posts nothing after it (`Channel`, `Death`); at most one respawn is armed, and only while there is no thread (`OneRespawn`); once closed, nothing but an `exit` is in the channel (`Closed`) |
| `ThreadLeavesNothing` | `ClosedAfterAnswers` | `AnswerInv`: of each request, the handlers running and the deliveries still in the channel are at most the deliveries made (`Counted`), and fewer once the answer of one is on its way (`AnswersCount`); a request none of whose deliveries has been answered holds its lease (`Held`), so that a core whose loop ends for want of leases leaves none (`ExitedIdle`, `LeftInOrder`) |
| `EndpointTypeCorrect`, `StreamLeadsOn`, `RequestHandsOver`, `SuccessIsTrue` | `EndLeadsOn`, `ServerRunsAlone`, `SuccessIsFinal` | `Inv`: what the loop's handler still has to do determines what the stream and the server have been told (`Tasks`, `Redirects`); the request has the turn only while the run is its own (`Turn`, `Attempts`); `Truth` adds that once the client has been told of a success, or is about to be, all that is left to checkpoint is the result |
| `SubscriptionTypeCorrect`, `ReadersReadInOrder`, `NothingNewWhenClosed` | `InOrder`, `ClosedIsQuiet` | `SubscriptionInv`: readers were made no later than what has been fanned out and what they have is a part of it (`Fed`); a socket that is open has been connected by a running subscription (`Handshake`). `ClosedIsQuiet` is a property of each step by itself |
| `HookTypeCorrect`, `HookShowsItsChannel`, `HookOwnsItsConnections` | `OnlyThisChannel`, `Owned` | `HookInv`: only the current run is not cancelled and its channel is the one rendered (`CurrentRun`); the refs are set only while it reads (`RefsAreCurrent`) |
| `SandboxTypeCorrect`, `SandboxActsOnce`, `SandboxErrorsAreTrue` | `AtMostOnce`, `PlainErrorsAreTrue` | `SandboxInv`: an action that is still ahead of user code has not been done (`Ahead`, over the places of `Places`), and a step that has had an effect that is not hidden has its answer, which does not deny it (`Honest`); each time an action is to be done again, a crash or an answer without envelope has been counted |

`IdsAreApart` has the hypothesis `NoLookAlikes`: no id that is written is another with an
index. The search for a free index is what the code does where it fails, and then two
calls can still meet (section 6); StepIdsRun has such an id, called when the ids it
resembles are registered. `OwnResults`, `PrependedRunsFirst` and `IdsAreReplayed` have
`CallsApart`, of which that is the first part:

- `MadeApart`: a step that a middleware makes has an id of its own, is made for one step, and
  is not wrapped itself; user code awaits its own calls. Two that share an id may swap
  results (section 6).

Ids that calls share, and ids that a middleware gives a step and that others have too, are not
excluded: those are what the theorems are about. The run and the theorems complement each
other: `MCStepIds` is outside these hypotheses only by an id that looks like one with an
index, and shows the search for a free index; the theorems hold of all programs inside.

How `ReplayOK` goes: a call's place (`Turns`) is the set of the beginnings of the recorded results
that let user code reach it. A call claims the id it is made with and, if a middleware gives
it another, that one too (`Claims`); the claims on an id are numbered by the places of
their calls, then what is made before what is given, then in the order user code makes the
calls in (`Earlier`, `IdOf`). A later result never changes the number of a claim of a call that
has been reached (`ClaimStays`), so that there is one id for the call, `FinalId`, in every
request. That a request arrives at it is an invariant on four legs: what has settled is
exactly what some beginning of the results settles (`OrderOK`), since the memoized step handled
next is the first that has not been (`HandledInOrder`, from `remaining` being in order and
everything found with a result being in `found`: `KnownOK`, `FoundOK`); a claim is made only
after all that are earlier, whether the call is made or the middleware is through with it,
since calls wait for their middleware in the order they are made in (`NumbersOK`, `QueueOK`,
`NamesakesBegun`); the step a middleware makes is
made, found and settled in lockstep with the one it wraps (`WrapOK`); and a step that a request
reports as new may be recorded now, under its id (`ReportDue`). A checkpointing request
that goes on with a new result has seen all others first (`CaughtUp`). The conjuncts were
model-checked on small programs that satisfy `CallsApart` before they were proved.

What the theorems of `DurableRun` assume of the user function is stated on what it has
called (F) when what it awaited has come (S):

- `RunKeepsPromise`, `ResultsInProgramOrder`: `WaitsAwaited`, with checkpointing the
  function does not return while a wait it has called is under way. Otherwise they are
  false: it answers with that wait alone and drops the buffered results (DanglingStep,
  section 6), and the server then records what follows before what was dropped.
- `NoResultLost`, `NothingRunsTwice`: `StepsAwaited`, the same of every step. DanglingStep
  is a counterexample to the first without it, and what was dropped is run again.
- `DefersNotLost`: `DefersCalled`, a function that returns has called every defer. The loser
  of a race may defer in one request and not in the one that completes; nothing promises
  that defer. And `NoInterval`: the interval's checkpoint drains the defers though no
  result needs recording, and loses them when it fails (section 6).
- `RetryBudgetKept`: `ReportsTogether`, user code is prompt (and its steps finite), or never has two
  steps under way. Otherwise it is false: with ConcurrentRun's function,
  `PromptUser = FALSE`, bodies that all throw and three attempts, TLC finds a discovery request that runs one step because the other
  was not yet reported, fails, is tried again, and then runs the other at the attempt the
  first has used up.
- `ReplayIsDeterministic`: `StepsAwaited` and finitely many steps (that user code is prompt and
  no fault occurs is in the property). Without the first what user code has seen may be
  dropped and run again, and the argument does not hold; whether the theorem does is open:
  with AsyncRun's race and two functions that return without a step they have called, while
  checkpointing, TLC finds no counterexample.

Only model-checked: every liveness property, `SuccessIsRecorded` among them (fairness and
ENABLED are out of the prover's reach).

## 5. What is not modelled

- Of the middleware manager: the hooks of a function, a request and of sent events, and
  the notifications. `StepIds` has what a middleware can do to a step; that one does not
  wrap the step it makes itself is the shape of `Prepended`, and middleware that awaits
  something else, or makes steps after `next()`, is left out.
- In the engine: step input overrides, experiments, nested steps. In `DurableRun` ids are
  unique and a body's result is a value or an error. In Sync mode: parallel steps.
- In the step tools: a step's options, metadata, scores, `fetch`, the group tools. To the
  engine they are further calls of the two kinds of section 2.1.
- In the communication handler: signatures, registration, introspection and probes. They
  keep nothing between requests.
- In the worker: see 2.2. In the worker thread: its debug and log messages, and a
  `new Worker` that throws. Of the sandbox: files, output streams, logs and the
  validation of arguments.
- Adapters, generated code, type helpers, OpenTelemetry helpers, the companion packages and
  the facade of Connect have no protocol of their own.

## 6. Where the code and its documentation disagree

One is a run that TLC finds violated.

- **DanglingStep** (`NoLostResults`). While checkpointing, a function that returns with a
  step it never awaited answers with that step only (`engine.ts:1381`); the results
  still buffered are dropped, which the `steps-found` handler of the same table guards
  against (`engine.ts:1507-1512`). If what it never awaited is a wait,
  `RecordedInProgramOrder` fails as well (`Waits = {b}` in the same instance).

The modules state these as well. Each is false, and the constants given show it:

- `ResumesWhenVisible` (`RealtimeHook`): a page hidden while the hook awaits its token and
  shown again, with `reconnect: false`: the cancelled run's clean-up (`react.ts:457`)
  closes the connection of the run after it, and the hook stays closed, though
  `react.runtime.test.ts:347` "pauses while hidden and resumes when visible again".
  `FairSpec`, `Reconnect = FALSE`, `Channels = {1}`, `MaxRuns = 2`, no messages or faults.
- `IntervalArmed`: `maxInterval` checkpoints once: the timer's promise settles once, and
  resetting it does not call `then` again (`engine.ts:3134`). `BufferedSteps = 3`,
  `CheckpointTimers = {"interval"}`, no faults.
- `ClosedMeansClosed`: a connection whose heartbeats are not answered is replaced without
  being closed (`heartbeat.ts:63`). `Faults = {"break"}`; with `{"timeout"}` the same for a
  socket whose handshake timed out.
- `CloseDrainsBuffer`: `flush` never throws, so `close()` never tries the fallback key
  (`sameThread/index.ts:128`). `Faults = {"close"}`, `ValidKey = "fallback"`.
- `ResponsesDelivered`: a response whose deadline expires after the reconnect's flush waits
  in the buffer until the next reconnect or `close()` (`sameThread/index.ts:76`).
  `FairSpec`, `Faults = {"break"}`.
- `CloseAlwaysReturns` (`WorkerThread`): `close()` during the respawn backoff waits for an
  exit that never comes (`workerThread/index.ts:95`; `CONNECT_SDK_SPEC.md:173`, `:244`).
  `FairSpec`, `MaxDeliveries = 0`, `MaxCloses = 1`, `Faults = {"crash"}`, `MaxFaults = 1`.
- `FailureIsFinal` (`DurableEndpoint`): a step that fails for good ends the stream with a
  failure, and user code that catches its error in the server's next call completes the
  run.

Seen while modelling:

- GATEWAY_CLOSING moves whatever connection is active to the draining slot, also when
  it arrives on one that was replaced (`connection.ts:706`). What was draining is then
  forgotten and nothing closes it: `SocketsOwned` exempts such connections (`dropped`). With
  `Faults = {"heartbeat", "closing"}` and `MaxFaults = 3` the code also violates
  `ExtendNotOnDraining` (`requestProcessor.ts:178-186`).
- A connection attempt that fails with anything but a `ReconnectError` (a base URL that does
  not parse, a body that cannot be read or decoded: `handshake.ts:63`, `:89`, `:99`, `:104`,
  `:167`) ends the loop for good (`connection.ts:563`). After the first connection nobody
  hears of it: the worker stays RECONNECTING and `close()` rejects
  (`connection.ts:318`) where its comment says that it resolves when fully closed
  (`connection.ts:272`). `ShutdownCompletes` and `Reconnects` exempt it.
- A drain does not exclude the gateway that drains, though
  `components/connect/CONNECT_SDK_SPEC.md:134` asks for it.
- The defers still buffered when a function returns share the batch of RunComplete
  (`engine.ts:1378`), though `components/execution/ARCHITECTURE.md:11` asks for a
  checkpoint of their own before it.
- A failed checkpoint drops the defers it has drained when the results buffer is empty
  (`engine.ts:462`; recorded in `components/execution/defer.md:129`). With
  `CheckpointTimers = {"interval"}` in SequentialRun, `DefersReachServer` fails.
- A step can inherit the attempts of another one although a request returns to the server
  for "a full retry budget" after its first success (`engine.ts:897`): of two steps user code
  starts in turns of their own, a discovery request runs the one it finds alone, which
  throws, and its second try may find the other alone. `FullRetryBudget` fails then
  (section 4).
- Two concurrent calls, one written `s:1` and one that gets the index 1 of `s`, both get
  the id `s:1`: the search for a free index sees registered steps only
  (`engine.ts:3388`), not the claims the comment at `engine.ts:3372` speaks of. In
  `MCStepIds`: `c` with the id `<<idX, 1>>`, called at once; `OneIdPerCall` and `OwnResult`
  fail.
- Steps of the same id that a middleware prepends to parallel siblings may swap their
  results: when its sibling is memoized a step is prepended only at `handle()`, so a replay
  may number them in another order than the request that ran them. In `MCStepIds`: a
  second call with the id `<<idP>>`, prepended to `x`; `OwnResult` fails.
- A step prepended to a `sleep` runs after the sleep: only a step with a function is
  wrapped before it is reported (`engine.ts:2687`), while a test
  (`wrapStep.test.ts:245`) says "Run a step before a `step.sleep`".
- A `Promise.race` won against a wait does not complete the run until the wait has ended:
  the function's end re-reports it (`engine.ts:1236`).
- Without SSE nobody reads a durable endpoint's stream before it ends, so that
  `stream.pipe` of more chunks than the high-water mark waits for ever
  (`StreamTools.ts:266`; `PipesInVain` in `ClientAnswered`). An SSE request whose error
  checkpoint is refused ends its stream without a result, and its client throws
  `No response` (`client.ts:122`) or waits on a relay the server never feeds; its run stays
  with a request that is over (`NowhereToGo`, `Unreached`). A client sent to the relay after
  the run has ended waits in vain as well (`Unreached`).
- A success the client has been told is recorded in the background; if that checkpoint is
  refused for good only a debug line says so (`engine.ts:797`), and the run stays open at the
  server (exempted in `SuccessIsRecorded`).
- A worker thread whose core has failed for good does not exit (exempted in
  `CloseReturns`); a `STATE_CHANGE` or an error of the thread takes the strategy's state
  back from CLOSING.
- A chunk stream cannot be received: `datastream-start` makes a `ReadableStream` whose
  `start`, which the constructor calls at once, reads the constant `stream` that the
  constructor is to initialise (`TokenSubscription.ts:304-306`). It throws a ReferenceError, the
  promise of the handler rejects unobserved (by default that ends a Node process), the
  start is not fanned out, and the chunks and the end that follow are dropped as those of
  an unknown stream. No test sends one to a subscription.
- `close()` of a subscription drops what waits on a slow reader's `writer.ready`; a reader
  made after the close never ends; awaited schema validation lets later messages overtake, and fans its message out after a
  close.
- After a terminal run status the hook, shown again, reconnects and closes with the next
  message; `reset()` leaves it closed.
- An error without the API's envelope, as a proxy gives it, is reported as unambiguous
  although the sandbox may have acted (`client.ts:446-462`), and with a 429 or a 503 it is
  retryable also for `exec`, `process.start` and `process.signal` (`client.ts:483-494`), so that
  the server sends the step again and the process runs twice: `AtMostOnce` allows one
  repetition for each such answer, `PlainErrorsAreTrue` exempts the steps it misleads. A
  `create` whose answers are all lost is reported as unambiguous too.
- A render of the React hook that changes the channel shows the old messages until its effect
  runs; the model makes render and effect one step.

## 7. Plan

Done: the durable run with its waits, the Connect worker, the worker thread, durable
endpoints, subscriptions, the React hook, sandbox steps, step ids, and the theorems of section 4.
Left, in the order of what they would add:

1. Lease ids across two deliveries of a request, and responses the API always refuses, in
   `ConnectWorker`; the promise of `connect()`.
2. The middleware hooks of a function and a request, and the communication handler.
3. `DeterministicReplay` without `StepsAwaited`.
