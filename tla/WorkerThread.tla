---------------------------- MODULE WorkerThread ----------------------------
(***************************************************************************)
(* The worker-thread strategy of Connect: connect/strategies/workerThread. *)
(*                                                                         *)
(* The main thread runs user code and supervises a thread that owns the    *)
(* connection to the gateway.  They share nothing but two FIFO channels.   *)
(* The thread may die at any moment; its death reaches the main thread as  *)
(* the last entry of the channel, after every message it has posted.  The  *)
(* main thread replaces a dead thread after a backoff, unless it is        *)
(* closing, and gives up after too many deaths in a row.                   *)
(*                                                                         *)
(* What the connection core does inside the thread (modules Connection and *)
(* ConnectWorker) appears here by what the thread tells the main thread.   *)
(***************************************************************************)
EXTENDS Naturals, Sequences, FiniteSets

CONSTANTS
  Requests,      \* requests the gateway sends
  MaxDeliveries, \* bound: times the gateway delivers a request
  MaxCrashes,    \* maxConsecutiveCrashes
  MaxCloses,     \* bound: calls of close()
  Faults,        \* SUBSET FaultKinds
  MaxFaults      \* bound: faults in a behaviour

FaultKinds == {"crash", "drop", "fatal", "leaseLost"}

ASSUME ThreadFaults == Faults \subseteq FaultKinds
ASSUME ThreadBounds == /\ MaxDeliveries \in Nat /\ MaxCrashes \in Nat
                       /\ MaxCloses \in Nat /\ MaxFaults \in Nat

VARIABLES
  \* The main thread: WorkerThreadStrategy.
  state,       \* _state
  worker,      \* this.worker: "none", "live", or "exited" once its exit event has fired
  crashes,     \* consecutiveCrashes
  backoffs,    \* respawn timers armed
  connecting,  \* the promise of connect()
  closing,     \* calls of close() that wait for the exit event
  closed,      \* closingPromise is resolved
  running,     \* [Requests -> Nat]: handlers running user code, one per message
  orphans,     \* [Requests -> Nat]: those of them whose thread has died
  \* The thread: WorkerRunner and what it shows of ConnectionCore.
  thread,      \* [alive, state, core, connected]
  leases,      \* requests in flight in the core
  pending,     \* keys of pendingExecutions
  \* The channels.
  toMain, toThread,
  \* Bounds and history.
  faults, deliveries, closes,
  lost         \* requests whose lease the gateway has taken back

mainVars == <<state, worker, crashes, backoffs, connecting, closing, closed>>
execVars == <<running, orphans>>
threadVars == <<thread, leases, pending>>
boundVars == <<faults, deliveries, closes, lost>>
vars == <<mainVars, execVars, threadVars, toMain, toThread, boundVars>>

-----------------------------------------------------------------------------
(* Messages: protocol.ts, and the error and exit events of the Worker.     *)

ConnectionState == {"CONNECTING", "ACTIVE", "RECONNECTING", "CLOSING", "CLOSED"}

ToMain == [type : {"STATE_CHANGE"}, state : ConnectionState]
            \cup [type : {"CONNECTION_READY", "FATAL", "CLOSED", "error", "exit"}]
            \cup [type : {"EXECUTION_REQUEST"}, request : Requests]
ToThread == [type : {"INIT", "CONNECT", "CLOSE"}]
              \cup [type : {"EXECUTION_ANSWER"}, request : Requests]

StateChange(s) == [type |-> "STATE_CHANGE", state |-> s]
Signal(type) == [type |-> type]

\* The loop of the core: not created, created, before its first connection, connected,
\* reconnecting, ended by a shutdown, ended by an error it does not retry.
Core == {"none", "idle", "starting", "up", "down", "exited", "failed"}
Thread == [alive : BOOLEAN, state : ConnectionState, core : Core, connected : BOOLEAN]

NewThread == [alive |-> TRUE, state |-> "CONNECTING", core |-> "none", connected |-> FALSE]
NoThread == [NewThread EXCEPT !.alive = FALSE]

TypeOK ==
  /\ state \in ConnectionState
  /\ worker \in {"none", "live", "exited"}
  /\ crashes \in Nat /\ backoffs \in Nat /\ closing \in Nat
  /\ connecting \in {"idle", "waiting", "resolved", "rejected"}
  /\ closed \in BOOLEAN
  /\ running \in [Requests -> Nat] /\ orphans \in [Requests -> Nat]
  /\ thread \in Thread
  /\ leases \subseteq Requests /\ pending \subseteq Requests /\ lost \subseteq Requests
  /\ toMain \in Seq(ToMain) /\ toThread \in Seq(ToThread)
  /\ faults \in Nat /\ closes \in Nat
  /\ deliveries \in [Requests -> Nat]

None == [r \in Requests |-> 0]

Init ==
  /\ state = "CONNECTING" /\ worker = "none" /\ crashes = 0 /\ backoffs = 0
  /\ connecting = "idle" /\ closing = 0 /\ closed = FALSE
  /\ running = None /\ orphans = None
  /\ thread = NoThread /\ leases = {} /\ pending = {}
  /\ toMain = <<>> /\ toThread = <<>>
  /\ faults = 0 /\ deliveries = None /\ closes = 0 /\ lost = {}

Over == {"CLOSING", "CLOSED"}

-----------------------------------------------------------------------------
(* The main thread.                                                        *)

\* createWorker, then INIT and CONNECT, which nothing can come between.
CreateWorker ==
  /\ worker' = "live"
  /\ thread' = NewThread
  /\ leases' = {} /\ pending' = {}
  /\ toThread' = <<Signal("INIT"), Signal("CONNECT")>>

Connect ==
  /\ connecting = "idle" /\ state \notin Over
  /\ CreateWorker
  /\ connecting' = "waiting"
  /\ UNCHANGED <<state, crashes, backoffs, closing, closed, execVars, toMain, boundVars>>

\* A message posted to a thread that is gone goes nowhere.
SendToWorker(msg) ==
  toThread' = IF worker # "none" /\ thread.alive THEN Append(toThread, msg) ELSE toThread

\* close() of the strategy, by the user or by a signal handler.  It returns at once when
\* there is no worker, else on the exit event.
Close ==
  /\ connecting # "idle" /\ closes < MaxCloses
  /\ closes' = closes + 1
  /\ IF worker = "none"
       THEN /\ state' = "CLOSED" /\ closed' = TRUE
            /\ UNCHANGED <<closing, toThread>>
       ELSE /\ state' = "CLOSING" /\ closing' = closing + 1
            /\ SendToWorker(Signal("CLOSE"))
            /\ UNCHANGED closed
  /\ UNCHANGED <<worker, crashes, backoffs, connecting, execVars, threadVars, toMain,
                 faults, deliveries, lost>>

\* User code for a request ends, with a response or an error.
HandlerEnds ==
  \E r \in Requests :
    /\ running[r] > 0
    /\ running' = [running EXCEPT ![r] = @ - 1]
    /\ \/ orphans[r] < running[r] /\ UNCHANGED orphans
       \/ orphans[r] > 0 /\ orphans' = [orphans EXCEPT ![r] = @ - 1]
    /\ SendToWorker([type |-> "EXECUTION_ANSWER", request |-> r])
    /\ UNCHANGED <<mainVars, threadVars, toMain, boundVars>>

Receive(type) ==
  /\ toMain # <<>> /\ Head(toMain).type = type
  /\ toMain' = Tail(toMain)
  /\ UNCHANGED <<threadVars, toThread, boundVars>>

OnStateChange ==
  /\ Receive("STATE_CHANGE")
  /\ state' = Head(toMain).state
  /\ UNCHANGED <<worker, crashes, backoffs, connecting, closing, closed, execVars>>

OnReady ==
  /\ Receive("CONNECTION_READY")
  /\ crashes' = 0
  /\ connecting' = IF connecting = "waiting" THEN "resolved" ELSE connecting
  /\ UNCHANGED <<state, worker, backoffs, closing, closed, execVars>>

OnFatal ==
  /\ Receive("FATAL")
  /\ connecting' = IF connecting = "waiting" THEN "rejected" ELSE connecting
  /\ UNCHANGED <<state, worker, crashes, backoffs, closing, closed, execVars>>

OnClosed ==
  /\ Receive("CLOSED")
  /\ state' = "CLOSED" /\ closed' = TRUE
  /\ UNCHANGED <<worker, crashes, backoffs, connecting, closing, execVars>>

OnExecutionRequest ==
  /\ Receive("EXECUTION_REQUEST")
  /\ running' = [running EXCEPT ![Head(toMain).request] = @ + 1]
  /\ UNCHANGED <<mainVars, orphans>>

OnError ==
  /\ Receive("error")
  /\ state' = "RECONNECTING"
  /\ UNCHANGED <<worker, crashes, backoffs, connecting, closing, closed, execVars>>

\* The exit event: a crash, unless the strategy is closing, is followed by a respawn.  The
\* calls of close() that wait for the event return.
OnExit ==
  /\ Receive("exit")
  /\ connecting' = IF connecting = "waiting" THEN "rejected" ELSE connecting
  /\ IF state \in Over
       THEN UNCHANGED <<crashes, backoffs>>
       ELSE /\ crashes' = crashes + 1
            /\ backoffs' = IF crashes + 1 > MaxCrashes THEN backoffs ELSE backoffs + 1
  /\ closing' = 0
  /\ IF closing > 0
       THEN worker' = "none" /\ state' = "CLOSED" /\ closed' = TRUE
       ELSE /\ worker' = "exited" /\ UNCHANGED closed
            /\ state' = IF state \in Over THEN state ELSE "RECONNECTING"
  /\ orphans' = running
  /\ UNCHANGED <<running>>

\* Mutant: the timer does not look at the state.
BackoffEndsAnyway ==
  /\ backoffs > 0
  /\ backoffs' = backoffs - 1
  /\ CreateWorker
  /\ UNCHANGED <<state, crashes, connecting, closing, closed, execVars, toMain, boundVars>>

\* Mutant: the new thread is created, and told nothing.
BackoffEndsSilently ==
  /\ backoffs > 0
  /\ backoffs' = backoffs - 1
  /\ IF state \in Over
       THEN UNCHANGED <<worker, threadVars, toThread>>
       ELSE /\ worker' = "live" /\ thread' = NewThread
            /\ leases' = {} /\ pending' = {}
            /\ toThread' = <<>>
  /\ UNCHANGED <<state, crashes, connecting, closing, closed, execVars, toMain, boundVars>>

\* The respawn timer fires.
BackoffEnds ==
  /\ backoffs > 0
  /\ backoffs' = backoffs - 1
  /\ IF state \in Over
       THEN UNCHANGED <<worker, threadVars, toThread>>
       ELSE CreateWorker
  /\ UNCHANGED <<state, crashes, connecting, closing, closed, execVars, toMain, boundVars>>

OnMessage == OnStateChange \/ OnReady \/ OnFatal \/ OnClosed \/ OnExecutionRequest
               \/ OnError \/ OnExit

-----------------------------------------------------------------------------
(* The thread.                                                             *)

Take(type) ==
  /\ thread.alive
  /\ toThread # <<>> /\ Head(toThread).type = type
  /\ toThread' = Tail(toThread)
  /\ UNCHANGED <<mainVars, execVars, boundVars>>

\* Only the thread acts, without taking a message.
InThread ==
  /\ thread.alive
  /\ UNCHANGED <<mainVars, execVars, deliveries, closes>>

\* The same, and not a fault.
ThreadStep == InThread /\ UNCHANGED <<faults, lost>>

\* onStateChange of the core: not heard once the thread is closing.
Report(t, s, more) ==
  IF thread.state \in Over
    THEN thread' = t /\ UNCHANGED toMain
    ELSE /\ thread' = [t EXCEPT !.state = s]
         /\ toMain' = toMain \o <<StateChange(s)>> \o more

TakeInit ==
  /\ Take("INIT")
  /\ thread' = [thread EXCEPT !.core = "idle"]
  /\ UNCHANGED <<leases, pending, toMain>>

\* core.start(), when it was initialized and is not closed.
TakeConnect ==
  /\ Take("CONNECT")
  /\ IF thread.core = "none" \/ thread.state = "CLOSED"
       THEN toMain' = Append(toMain, Signal("FATAL")) /\ UNCHANGED thread
       ELSE Report([thread EXCEPT !.core = "starting"], "CONNECTING", <<>>)
  /\ UNCHANGED <<leases, pending>>

\* runner.close(): the core is asked to shut down.
TakeClose ==
  /\ Take("CLOSE")
  /\ thread' = [thread EXCEPT !.state = "CLOSING"]
  /\ toMain' = Append(toMain, StateChange("CLOSING"))
  /\ UNCHANGED <<leases, pending>>

\* Mutant: the handler keeps its lease when it has replied.
TakeAnswerOnce ==
  /\ Take("EXECUTION_ANSWER")
  /\ LET r == Head(toThread).request
     IN IF r \in pending
          THEN pending' = pending \ {r} /\ UNCHANGED leases
          ELSE UNCHANGED <<pending, leases>>
  /\ UNCHANGED <<thread, toMain>>

\* The answer of user code settles the pending call; the handler replies and, at its end,
\* gives up the lease.
TakeAnswer ==
  /\ Take("EXECUTION_ANSWER")
  /\ LET r == Head(toThread).request
     IN IF r \in pending
          THEN pending' = pending \ {r} /\ leases' = leases \ {r}
          ELSE UNCHANGED <<pending, leases>>
  /\ UNCHANGED <<thread, toMain>>

\* handleExecutorRequest with the thread's handleExecutionRequest.
Deliver ==
  /\ thread.alive /\ thread.core = "up"
  /\ \E r \in Requests :
       /\ deliveries[r] < MaxDeliveries
       /\ deliveries' = [deliveries EXCEPT ![r] = @ + 1]
       /\ leases' = leases \cup {r}
       /\ pending' = pending \cup {r}
       /\ toMain' = Append(toMain, [type |-> "EXECUTION_REQUEST", request |-> r])
  /\ UNCHANGED <<mainVars, execVars, thread, toThread, faults, closes, lost>>

\* The core has a connection: its first, or one that replaces a lost one.
CoreReady ==
  /\ ThreadStep /\ thread.core \in {"starting", "down"}
  /\ Report([thread EXCEPT !.core = "up", !.connected = TRUE], "ACTIVE", <<Signal("CONNECTION_READY")>>)
  /\ UNCHANGED <<leases, pending, toThread>>

Fault(kind) ==
  /\ kind \in Faults /\ faults < MaxFaults
  /\ faults' = faults + 1
  /\ InThread

\* The connection is lost; the core reconnects.
CoreDrops ==
  /\ Fault("drop") /\ thread.core = "up"
  /\ Report([thread EXCEPT !.core = "down"], "RECONNECTING", <<>>)
  /\ UNCHANGED <<leases, pending, toThread, lost>>

\* An error the core does not retry ends its loop.  Only a call of start() that still
\* waits for the first connection hears of it.
CoreFails ==
  /\ Fault("fatal") /\ thread.core \in {"starting", "down"}
  /\ thread' = [thread EXCEPT !.core = "failed"]
  /\ toMain' = IF thread.connected THEN toMain ELSE Append(toMain, Signal("FATAL"))
  /\ UNCHANGED <<leases, pending, toThread, lost>>

\* The gateway takes a lease back.
LeaseLost ==
  /\ Fault("leaseLost")
  /\ \E r \in leases : leases' = leases \ {r} /\ lost' = lost \cup {r}
  /\ UNCHANGED <<thread, pending, toMain, toThread>>

\* Mutant: a shutdown does not wait for the requests in flight.
CoreExitsAtOnce ==
  /\ ThreadStep
  /\ thread.state = "CLOSING" /\ thread.core \in {"starting", "up", "down"}
  /\ thread' = [thread EXCEPT !.core = "exited"]
  /\ UNCHANGED <<leases, pending, toMain, toThread>>

\* The loop ends: shutdown was requested and no request is in flight.
CoreExits ==
  /\ ThreadStep
  /\ thread.state = "CLOSING" /\ thread.core \in {"starting", "up", "down"}
  /\ leases = {}
  /\ thread' = [thread EXCEPT !.core = "exited"]
  /\ UNCHANGED <<leases, pending, toMain, toThread>>

\* The thread is gone, and with it what was posted to it; the main thread still receives
\* what it has posted, then `last`.
Dies(last) ==
  /\ thread' = NoThread /\ leases' = {} /\ pending' = {}
  /\ toThread' = <<>>
  /\ toMain' = toMain \o last

\* The end of runner.close(), after core.close() has resolved.
ThreadExits ==
  /\ ThreadStep /\ thread.core = "exited"
  /\ Dies(<<StateChange("CLOSED"), Signal("CLOSED"), Signal("exit")>>)

\* The thread dies of an error nobody catches.
Crash ==
  /\ Fault("crash")
  /\ Dies(<<Signal("error"), Signal("exit")>>)
  /\ UNCHANGED lost

InTheThread == \/ TakeInit \/ TakeConnect \/ TakeClose \/ TakeAnswer
               \/ CoreReady \/ CoreExits \/ ThreadExits

Next == \/ Connect \/ Close \/ HandlerEnds \/ OnMessage \/ BackoffEnds
        \/ Deliver \/ InTheThread
        \/ CoreDrops \/ CoreFails \/ LeaseLost \/ Crash

Spec == Init /\ [][Next]_vars

\* Both event loops turn, timers fire, user code ends, and the gateway accepts a connection
\* that is tried for ever.
Fairness == /\ WF_vars(Connect) /\ WF_vars(OnMessage) /\ WF_vars(BackoffEnds)
            /\ WF_vars(HandlerEnds) /\ WF_vars(InTheThread)

FairSpec == Spec /\ Fairness

-----------------------------------------------------------------------------
(* Properties.                                                             *)

\* Once close() has returned there is no thread, and none is created later: neither a timer
\* armed by a crash during the shutdown nor a late message of the thread brings one back.
NoThreadAfterClose == closed => ~thread.alive

\* The thread does not exit while a request is in flight: when close() has returned, each
\* request that user code still works on was on a thread that crashed, or has had an answer
\* from another delivery, or the gateway has given it to another worker.
ClosedAfterAnswers ==
  closed => \A r \in Requests \ lost : running[r] > orphans[r] => deliveries[r] > running[r]

Queued(queue, type, r) ==
  \E i \in DOMAIN queue : queue[i].type = type /\ queue[i].request = r

\* A call that waits in the thread for user code has somebody to answer it: the request is
\* on its way, user code runs, or the answer is on its way.
NoStrandedCall ==
  \A r \in pending : \/ Queued(toMain, "EXECUTION_REQUEST", r)
                     \/ running[r] > 0
                     \/ Queued(toThread, "EXECUTION_ANSWER", r)

\* close() of a worker that has a thread returns, even when the connection drops or the thread
\* crashes meanwhile; the exception is a core that has failed for good.
CloseReturns ==
  (closing > 0 /\ worker = "live") ~> (closing = 0 \/ thread.core = "failed")

\* close() returns whatever the thread does (docs: "`close()` promise resolves").
CloseAlwaysReturns == (closing > 0) ~> (closing = 0)

\* A worker nobody closes is connected again and again, unless it gave up.
StaysAvailable ==
  []<>(thread.core \in {"up", "failed"} \/ closes > 0 \/ crashes > MaxCrashes)
=============================================================================
