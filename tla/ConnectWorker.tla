--------------------------- MODULE ConnectWorker ---------------------------
(***************************************************************************)
(* An Inngest Connect worker: the connection core, the request processor   *)
(* and the response buffer, as SameThreadStrategy puts them together       *)
(* (strategies/core/requestProcessor.ts, strategies/sameThread/index.ts),  *)
(* with the gateway that routes requests to it.                            *)
(*                                                                         *)
(* A delivery <<r, n>> is the n-th time request r reaches this worker; it  *)
(* is handled by one call of handleExecutorRequest.  requestLeases and     *)
(* requestMeta always have the same keys: both are the function `lease',   *)
(* keyed by the request, not by the delivery.                              *)
(*                                                                         *)
(* External: the gateway grants a lease when it routes a request, renews   *)
(* it when the id it is shown is the current one and refuses otherwise     *)
(* (an expired lease may be routed again), and acknowledges each reply it  *)
(* receives.  A message the worker sends on an open socket arrives at      *)
(* once; on a broken one it is lost.                                       *)
(***************************************************************************)
EXTENDS Connection, FiniteSets

CONSTANTS
    MaxDeliveries,  \* bound: how often one request reaches this worker
    MaxLease,       \* bound: lease ids the gateway gives out per request
    MaxAttempts     \* passes of a flush (5 in the code)

ASSUME BoundsAssumption ==
    MaxDeliveries \in Nat /\ MaxLease \in Nat /\ MaxAttempts \in Nat \ {0}

VARIABLES
    exec,           \* each delivery's handler: where it is, and its socket
    lost,           \* history: requests whose lease a gateway refused to renew
    route,          \* the gateway's side of each request
    finalFlush,     \* close() has begun its flush
    buffered, pending, timers, flushes, completed, served

Deliveries == Requests \X (1 .. MaxDeliveries)

(* One flush per connection that becomes active, and the one of close().   *)
CloseSlot == 0
Slots == Conns \cup {CloseSlot}

Buffer == INSTANCE MessageBuffer WITH NoKey <- None

requestVars == <<exec, lost, route, finalFlush>>
bufferVars  == <<buffered, pending, timers, flushes, completed, served>>
vars == <<connVars, requestVars, bufferVars>>

(* "ticking": user code runs and the lease timer is on; "detached": user   *)
(* code runs, the timer found no lease and cleared itself.                 *)
Stages == {"none", "ticking", "detached", "over"}

Route == [sent : 0 .. MaxDeliveries, lease : Nat, held : BOOLEAN]

TypeOK ==
    /\ ConnTypeOK
    /\ Buffer!BufferTypeOK
    /\ exec \in [Deliveries -> [stage : Stages, conn : Conns \cup {None}]]
    /\ lost \in SUBSET Requests
    /\ route \in [Requests -> Route]
    /\ finalFlush \in BOOLEAN

Init ==
    /\ ConnInit
    /\ Buffer!BufferInit
    /\ exec = [d \in Deliveries |-> [stage |-> "none", conn |-> None]]
    /\ lost = {}
    /\ route = [r \in Requests |-> [sent |-> 0, lease |-> 0, held |-> FALSE]]
    /\ finalFlush = FALSE

Executing(d) == exec[d].stage \in {"ticking", "detached"}

-----------------------------------------------------------------------------
(* The gateway routes a request to a connection it believes ready.         *)
RouteRequest(r, c) ==
    /\ gateway[c] = "ready"
    /\ conns[c].link = "open"
    /\ ~route[r].held
    /\ r \notin served
    /\ route[r].sent < MaxDeliveries
    /\ route[r].lease < MaxLease
    /\ route' = [route EXCEPT ![r] = [sent |-> @.sent + 1,
                                      lease |-> @.lease + 1, held |-> TRUE]]
    /\ inbox' = [inbox EXCEPT ![c] =
                   Append(@, [kind |-> "REQUEST", req |-> r,
                              id |-> route[r].lease + 1])]
    /\ UNCHANGED <<loopVars, conns, gateway, lease, dropped, budget, exec,
                   lost, finalFlush, bufferVars>>

(* The lease runs out on the server: the request may be routed again.      *)
LeaseExpires(r) ==
    /\ route[r].held
    /\ r \notin served
    /\ Spend("lease")
    /\ route' = [route EXCEPT ![r].held = FALSE]
    /\ UNCHANGED <<loopVars, conns, gateway, inbox, lease, dropped, exec,
                   lost, finalFlush, bufferVars>>

(* handleExecutorRequest up to the call of user code: skipped without an   *)
(* acknowledgement unless the strategy is ACTIVE.                          *)
HandleRequest(c) ==
    /\ Receives(c, "REQUEST")
    /\ Take(c)
    /\ LET m == Head(inbox[c])
       IN  IF state # "ACTIVE"
             THEN UNCHANGED <<exec, lease>>
             ELSE /\ lease' = [lease EXCEPT ![m.req] = m.id]
                  /\ \E n \in 1 .. MaxDeliveries :
                        /\ exec[<<m.req, n>>].stage = "none"
                        /\ \A k \in 1 .. n - 1 : exec[<<m.req, k>>].stage # "none"
                        /\ exec' = [exec EXCEPT ![<<m.req, n>>] =
                                      [stage |-> "ticking", conn |-> c]]
    /\ UNCHANGED <<loopVars, conns, gateway, dropped, budget, lost, route,
                   finalFlush, bufferVars>>

(* Which socket a lease extension of delivery d would be sent on.          *)
ExtendOver(d) ==
    IF active # None THEN active
    ELSE IF draining # None THEN None ELSE exec[d].conn

(* The lease timer of a delivery finds its lease gone.                     *)
StopExtending(d) ==
    /\ exec[d].stage = "ticking"
    /\ lease[d[1]] = NoLease
    /\ exec' = [exec EXCEPT ![d].stage = "detached"]
    /\ UNCHANGED <<connVars, lost, route, finalFlush, bufferVars>>

(* The lease timer sends an extension, and the gateway answers.  (On a     *)
(* socket that is not open nothing happens until the next tick.)           *)
ExtendLease(d) ==
    LET r == d[1]
        c == ExtendOver(d)
        renewed == route[r].held /\ route[r].lease = lease[r]
        next == route[r].lease + 1
    IN  /\ exec[d].stage = "ticking"
        /\ lease[r] # NoLease
        /\ c # None
        /\ conns[c].link = "open"
        /\ renewed => route[r].lease < MaxLease
        /\ ~\E i \in DOMAIN inbox[c] : inbox[c][i].kind = "LEASE_ACK"
        /\ route' = [route EXCEPT ![r].lease = IF renewed THEN next ELSE @]
        /\ inbox' = [inbox EXCEPT ![c] =
                       Append(@, [kind |-> "LEASE_ACK", req |-> r,
                                  id |-> IF renewed THEN next ELSE NoLease])]
        /\ UNCHANGED <<loopVars, conns, gateway, lease, dropped, budget, exec,
                       lost, finalFlush, bufferVars>>

(* (Mutant) Every acknowledgement is taken, late ones too.                 *)
AnyRequest(r) == TRUE

(* The request has an entry in requestLeases and requestMeta.              *)
HasLease(r) == lease[r] # NoLease

(* handleExtendLeaseAck: ignored for a request no longer in flight.        *)
HandleLeaseAck(c) ==
    /\ Receives(c, "LEASE_ACK")
    /\ Take(c)
    /\ LET m == Head(inbox[c])
           left == [lease EXCEPT ![m.req] = m.id]
       IN  IF ~HasLease(m.req)
             THEN UNCHANGED <<lease, woken, lost>>
             ELSE /\ lease' = left
                  /\ IF m.id # NoLease
                       THEN UNCHANGED <<woken, lost>>
                       ELSE /\ lost' = lost \cup {m.req}
                            /\ WakeIfDrained(left)
    /\ UNCHANGED <<loop, shutdown, state, connected, key, exclude, active,
                   draining, conns, gateway, dropped, budget, exec, route,
                   finalFlush, bufferVars>>

(* handleReplyAck.                                                         *)
HandleReplyAck(c) ==
    /\ Receives(c, "REPLY_ACK")
    /\ Take(c)
    /\ Buffer!AcknowledgePending(Head(inbox[c]).req)
    /\ UNCHANGED <<loopVars, conns, gateway, lease, dropped, budget,
                   requestVars>>

-----------------------------------------------------------------------------
(* The finally of handleExecutorRequest.                                   *)
Finally(d) ==
    /\ exec' = [exec EXCEPT ![d].stage = "over"]
    /\ lease' = [lease EXCEPT ![d[1]] = NoLease]
    /\ WakeIfDrained(lease')
    /\ UNCHANGED <<loop, shutdown, state, connected, key, exclude, active,
                   draining, conns, gateway, dropped, lost, route, finalFlush>>

(* User code returns while a connection is active: the response is pending *)
(* and goes out on that connection's socket.                               *)
Reply(d) ==
    /\ Executing(d)
    /\ active # None
    /\ LET arrives == conns[active].link = "open"
       IN  /\ Buffer!RespondOnSocket(d[1], arrives)
           /\ inbox' = IF arrives
                         THEN [inbox EXCEPT ![active] =
                                 Append(@, [kind |-> "REPLY_ACK",
                                            req |-> d[1], id |-> NoLease])]
                         ELSE inbox
    /\ Finally(d)
    /\ UNCHANGED budget

(* User code returns while none is: the response is buffered.              *)
BufferReply(d) ==
    /\ Executing(d)
    /\ active = None
    /\ Buffer!RespondToBuffer(d[1])
    /\ Finally(d)
    /\ UNCHANGED <<inbox, budget>>

(* The handler throws: there is no response.                               *)
HandlerThrows(d) ==
    /\ Executing(d)
    /\ Spend("throw")
    /\ Finally(d)
    /\ UNCHANGED <<inbox, bufferVars>>

-----------------------------------------------------------------------------
(* (Mutant) The flush empties the buffer before anything is sent.          *)
ActivateAndClear(c) ==
    /\ Established(c)
    /\ flushes' = IF buffered = {} THEN flushes
                  ELSE [flushes EXCEPT ![c] = [phase |-> "sending", key |-> key,
                                               attempt |-> 0, todo |-> buffered]]
    /\ buffered' = {}
    /\ UNCHANGED <<requestVars, pending, timers, completed, served>>

(* A new active connection starts a flush with the key that worked.        *)
Activate(c) ==
    /\ Established(c)
    /\ Buffer!StartFlush(c, key)
    /\ UNCHANGED requestVars

(* close() after the core is closed: flush with the primary key, and be    *)
(* CLOSED when that flush returns.  Both follow in a microtask.            *)
FlushDue == state = "CLOSING" /\ loop \in {"idle", "exited"} /\ ~finalFlush

CloseDue ==
    state = "CLOSING" /\ finalFlush /\ flushes[CloseSlot].phase = "off"

BeginFinalFlush ==
    /\ FlushDue
    /\ finalFlush' = TRUE
    /\ Buffer!StartFlush(CloseSlot, "primary")
    /\ UNCHANGED <<connVars, exec, lost, route>>

CloseReturns ==
    /\ CloseDue
    /\ state' = "CLOSED"
    /\ UNCHANGED <<loop, woken, shutdown, connected, key, exclude, active,
                   draining, conns, gateway, inbox, lease, dropped, budget,
                   requestVars, bufferVars>>

(* No continuation is queued: the event loop takes the next event.         *)
Quiet == Settled /\ ~FlushDue /\ ~CloseDue

FlushAccepted(s, r) ==
    /\ flushes[s].key = ValidKey
    /\ Buffer!FlushAccepted(s, r)
    /\ UNCHANGED <<connVars, requestVars>>

FlushRefused(s) ==
    /\ Buffer!FlushRefused(s)
    /\ IF flushes[s].key = ValidKey THEN Spend("flush") ELSE UNCHANGED budget
    /\ UNCHANGED <<loopVars, conns, gateway, inbox, lease, dropped,
                   requestVars>>

FlushRetries(s) ==
    /\ Buffer!FlushRetries(s)
    /\ UNCHANGED <<connVars, requestVars>>

Expire(r) ==
    /\ Buffer!Expire(r)
    /\ UNCHANGED <<connVars, requestVars>>

-----------------------------------------------------------------------------
(* Steps of the connection core that leave requests and responses alone.   *)
CoreStep ==
    /\ \/ LoopStep
       \/ SocketStep
       \/ HeartbeatTick
       \/ RequestShutdown
       \/ ShutdownDump
    /\ UNCHANGED <<requestVars, bufferVars>>

RequestStep ==
    \/ \E r \in Requests : LeaseExpires(r) \/ Expire(r)
    \/ \E c \in Conns :
          \/ \E r \in Requests : RouteRequest(r, c)
          \/ HandleRequest(c)
          \/ HandleLeaseAck(c)
          \/ HandleReplyAck(c)
          \/ Activate(c)
    \/ \E d \in Deliveries :
          \/ StopExtending(d)
          \/ ExtendLease(d)
          \/ Reply(d)
          \/ BufferReply(d)
          \/ HandlerThrows(d)

FlushStep ==
    \E s \in Slots :
       \/ \E r \in Requests : FlushAccepted(s, r)
       \/ FlushRefused(s)
       \/ FlushRetries(s)

Next ==
    \/ Wake /\ UNCHANGED <<requestVars, bufferVars>>
    \/ BeginFinalFlush
    \/ CloseReturns
    \/ Quiet /\ CoreStep
    \/ Quiet /\ RequestStep
    \/ Quiet /\ FlushStep

Spec == Init /\ [][Next]_vars

(***************************************************************************)
(* Fairness.  Timers fire, queued messages and microtasks are processed,   *)
(* promises that are being awaited settle: the start API and the gateway   *)
(* answer a handshake, user code returns, the flush API answers.  Nothing  *)
(* is assumed of faults, of new requests or of a shutdown.                 *)
(***************************************************************************)
Answered(s) == (\E r \in Requests : FlushAccepted(s, r)) \/
               (flushes[s].key # ValidKey /\ FlushRefused(s))

Others == UNCHANGED <<requestVars, bufferVars>>

FairSpec ==
    /\ Spec
    /\ WF_vars(Wake /\ Others)
    /\ WF_vars(Quiet /\ BackoffEnds /\ Others)
    /\ WF_vars(Quiet /\ StartUnauthorized /\ Others)
    /\ WF_vars(Quiet /\ (\E c \in Conns : StartAccepted(c)) /\ Others)
    /\ WF_vars(Quiet /\ \E c \in Conns : Activate(c))
    /\ WF_vars(Quiet /\ HeartbeatTick /\ Others)
    /\ \A c \in Conns :
          /\ WF_vars(Quiet /\ HandleHeartbeat(c) /\ Others)
          /\ WF_vars(Quiet /\ HandleClosing(c) /\ Others)
          /\ WF_vars(Quiet /\ (HandleRequest(c) \/ HandleLeaseAck(c)
                                 \/ HandleReplyAck(c)))
    /\ \A d \in Deliveries : WF_vars(Quiet /\ (Reply(d) \/ BufferReply(d)))
    /\ \A r \in Requests : WF_vars(Quiet /\ Expire(r))
    /\ \A s \in Slots : /\ WF_vars(Quiet /\ Answered(s))
                        /\ WF_vars(Quiet /\ FlushRetries(s))
    /\ WF_vars(BeginFinalFlush)
    /\ WF_vars(CloseReturns)

-----------------------------------------------------------------------------
(* No wake-up is ever lost: a parked loop with nothing left to wait for -- *)
(* no live connection, or a shutdown with nothing in flight -- has been    *)
(* woken, even when the cause arose while the loop was handshaking or in a *)
(* backoff (connection.ts:599).                                            *)
NoLostWake ==
    loop = "parked" => woken \/ (Live(active) /\ (shutdown => InFlight))

(* Only work that is running is in flight: no late or repeated lease       *)
(* acknowledgement brings back a lease whose handler is over, which would  *)
(* keep a shutdown waiting for ever (requestProcessor.ts:361).             *)
NoGhostLease ==
    \A r \in Requests : lease[r] # NoLease =>
        \E n \in 1 .. MaxDeliveries : Executing(<<r, n>>)

(* A shutdown waits for the work in flight: when the loop has exited, user *)
(* code that still runs is user code whose lease the gateway took away (or *)
(* whose request reached the worker twice).                                *)
ShutdownWaits ==
    loop = "exited" =>
        \A d \in Deliveries :
            Executing(d) => d[1] \in lost \/ route[d[1]].sent > 1

(* No socket is leaked: one that is open and not declared dead is the      *)
(* active connection or the draining one, which the loop closes when it    *)
(* has a replacement or exits; when it has exited none is left.  The one   *)
(* way out is a GATEWAY_CLOSING that came on another connection than the   *)
(* active one (connection.ts:706): it forgets what was draining.           *)
SocketsOwned ==
    \A c \in Conns :
        ReadyStateOpen(c) /\ ~conns[c].dead =>
            c \in {active, draining} \cup dropped

(* close() resolves "when fully closed (in-flight done, connection         *)
(* closed)" (connection.ts:272): no socket the core opened is still open.  *)
ClosedMeansClosed ==
    loop = "exited" =>
        \A c \in Conns : conns[c].link \notin {"open", "broken", "orphan"}

(* The gateway that asked to be left is being left: GATEWAY_CLOSING has    *)
(* been handled for c.                                                     *)
ToldToLeave(c) ==
    /\ conns[c].link = "open"
    /\ gateway[c] = "draining"
    /\ \A i \in DOMAIN inbox[c] : inbox[c][i].kind # "CLOSING"

(* A lease is never extended over a connection that announced it is        *)
(* draining: the answer could be lost when the replacement closes it, and  *)
(* the retry would show a superseded lease id (requestProcessor.ts:178).   *)
ExtendNotOnDraining ==
    \A d \in Deliveries :
        exec[d].stage = "ticking" /\ lease[d[1]] # NoLease
            /\ ExtendOver(d) # None
        => ~ToldToLeave(ExtendOver(d))

(* A worker that shuts down takes no new work: the gateway has been told   *)
(* to pause on the active connection, also when the shutdown was requested *)
(* while that connection was being established (connection.ts:521).        *)
PausedOnShutdown == shutdown /\ active # None => gateway[active] # "ready"

Documented ==
    {<<"CONNECTING", "ACTIVE">>, <<"ACTIVE", "RECONNECTING">>,
     <<"RECONNECTING", "ACTIVE">>, <<"CLOSING", "CLOSED">>}
    \cup {<<s, "CLOSING">> : s \in States \ {"CLOSED"}}

(* The states a user sees follow the documented diagram, and a shutdown is *)
(* final: no reconnect makes a closing worker ACTIVE again, though the loop*)
(* does reconnect while it waits for requests (CONNECT_SDK_SPEC.md:165).   *)
Lifecycle == [][(<<state, state'>> \in Documented)]_state

(* What the worker tells its user is true: ACTIVE means that there is a    *)
(* live connection, once the loop has had its turn.                        *)
ActiveMeansLive == state = "ACTIVE" /\ Settled => Live(active)

(* close() leaves nothing in the buffer: the flush it waits for retries    *)
(* what the API refused, so a response buffered by then is delivered.      *)
CloseDrainsBuffer ==
    [][state = "CLOSING" /\ state' = "CLOSED" => buffered' = {}]_vars

(* The steps of the worker are steps of its buffer: nothing else touches   *)
(* it, and what holds of MessageBuffer holds of the worker.                *)
UsesBuffer == Buffer!BufferSpec

(* What the buffer promises, for the worker it serves.                     *)
ResponsesHeld == Buffer!ResponsesHeld
PendingHasDeadline == Buffer!PendingHasDeadline

(* A shutdown ends, whatever connections are lost while it waits, unless   *)
(* an error that is no ReconnectError ends the loop (connection.ts:563).   *)
ShutdownCompletes == shutdown ~> state = "CLOSED" \/ loop = "failed"

(* A worker that lost its connection gets another one, or is shut down,    *)
(* with either signing key and whatever the API and the gateways refuse,   *)
(* unless an error that is no ReconnectError ends its loop.                *)
Reconnects == loop = "starting" ~> Live(active) \/ shutdown \/ loop = "failed"

(* A response a flush has begun to send, with a key the API accepts, is    *)
(* delivered: a failure ends the pass, not the flush.                      *)
FlushDelivers ==
    \A r \in Requests :
        (\E s \in Slots : flushes[s].key = ValidKey /\ r \in flushes[s].todo)
            ~> r \in served

(* A response user code produced reaches the server while the worker goes *)
(* on: if it is not acknowledged in time it is buffered "for later flush   *)
(* via HTTP" (workerThread/runner.ts:24).                                  *)
ResponsesDelivered ==
    \A r \in Requests : r \in completed ~> r \in served \/ shutdown
=============================================================================
