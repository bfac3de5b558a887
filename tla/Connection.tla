----------------------------- MODULE Connection -----------------------------
(***************************************************************************)
(* The connection core of an Inngest Connect worker: the reconcile loop,   *)
(* the handshake, the heartbeats and the WebSocket event handlers          *)
(* (components/connect/strategies/core/{connection,handshake,heartbeat}).  *)
(*                                                                         *)
(* Everything runs on one event loop.  An action is one callback or one    *)
(* resumption of the reconcile loop up to its next await.  A wake resolves *)
(* a promise, so a parked loop resumes in the microtask after the callback *)
(* that woke it: Settled holds back every other event until it has.        *)
(*                                                                         *)
(* The gateway and the network are the environment.  What a fault may do   *)
(* and how often is bounded by Faults and MaxFaults; a fresh connection id *)
(* is only ever needed after a fault, so there are MaxFaults + 1 of them.  *)
(* Abstracted: the delays (a backoff just ends), the contents of messages, *)
(* and the attempt counter, which only chooses a delay.                    *)
(***************************************************************************)
EXTENDS Naturals, Sequences

CONSTANTS
    Requests,     \* request ids
    Groups,       \* gateway groups the start API may choose from
    None,         \* no connection / no request
    Faults,       \* the kinds of fault the environment may inject
    MaxFaults,    \* bound: how many faults in a behaviour
    ValidKey      \* the signing key the API accepts

ASSUME FaultsAssumption == MaxFaults \in Nat
ASSUME NoneAssumption == None \notin Nat

FaultKinds == {"start", "error", "handshake", "timeout", "break", "close",
               "closing", "heartbeat", "lease", "flush", "throw"}
Conns  == 1 .. (MaxFaults + 1)
Keys   == {"primary", "fallback"}
States == {"CONNECTING", "ACTIVE", "RECONNECTING", "CLOSING", "CLOSED"}
NoLease == 0

VARIABLES
    loop,         \* where the reconcile loop is
    woken,        \* pendingWakeReasons is not empty
    shutdown,     \* _shutdownRequested
    state,        \* the strategy's _state
    connected,    \* hasConnectedBefore
    key,          \* useSigningKey
    exclude,      \* excludeGateways
    active,       \* _activeConnection
    draining,     \* _drainingConnection
    conns,        \* each connection and its WebSocket
    gateway,      \* what the gateway believes of each connection
    inbox,        \* messages on their way to the worker, per connection
    lease,        \* requestLeases: the lease id per request, or NoLease
    dropped,      \* history: draining connections a GATEWAY_CLOSING on another
                  \* connection than the active one took out of their slot
    budget        \* faults the environment has left

loopVars == <<loop, woken, shutdown, state, connected, key, exclude,
              active, draining>>
connVars == <<loopVars, conns, gateway, inbox, lease, dropped, budget>>

(***************************************************************************)
(* link: "unused", "handshaking", "open", "broken" (the transport is gone  *)
(* but no event said so: readyState is still OPEN), "closed" or "orphan"   *)
(* (a socket whose handshake timed out, which nothing closed).             *)
(***************************************************************************)
Links == {"unused", "handshaking", "open", "broken", "closed", "orphan"}

Connection == [link : Links, dead : BOOLEAN, beats : 0 .. 2,
               group : Groups \cup {None}]

(* `id' is a lease id; in an acknowledgement, NoLease is a refusal.        *)
Message == [kind : {"CLOSING"}, req : {None}, id : {NoLease}]
           \cup [kind : {"REQUEST", "REPLY_ACK", "LEASE_ACK"},
                 req : Requests, id : Nat]

ConnTypeOK ==
    /\ loop \in {"idle", "starting", "handshake", "backoff", "parked", "exited",
                "failed"}
    /\ woken \in BOOLEAN
    /\ shutdown \in BOOLEAN
    /\ state \in States
    /\ connected \in BOOLEAN
    /\ key \in Keys
    /\ exclude \in SUBSET Groups
    /\ active \in Conns \cup {None}
    /\ draining \in Conns \cup {None}
    /\ conns \in [Conns -> Connection]
    /\ gateway \in [Conns -> {"absent", "ready", "paused", "draining"}]
    /\ inbox \in [Conns -> Seq(Message)]
    /\ lease \in [Requests -> Nat]
    /\ dropped \in SUBSET Conns
    /\ budget \in 0 .. MaxFaults

ConnInit ==
    /\ loop = "idle"
    /\ woken = FALSE
    /\ shutdown = FALSE
    /\ state = "CONNECTING"
    /\ connected = FALSE
    /\ key = "primary"
    /\ exclude = {}
    /\ active = None
    /\ draining = None
    /\ conns = [c \in Conns |-> [link |-> "unused", dead |-> FALSE,
                                 beats |-> 0, group |-> None]]
    /\ gateway = [c \in Conns |-> "absent"]
    /\ inbox = [c \in Conns |-> <<>>]
    /\ lease = [r \in Requests |-> NoLease]
    /\ dropped = {}
    /\ budget = MaxFaults

-----------------------------------------------------------------------------
(* (Mutant) A shutdown does not look at the work in flight.                *)
NothingInFlight == FALSE

InFlight == \E r \in Requests : lease[r] # NoLease

(* The loop neither needs a connection nor has to exit.                    *)
Live(c) == c # None /\ ~conns[c].dead

ReadyStateOpen(c) == conns[c].link \in {"open", "broken"}

(* No wake-up is waiting for the parked loop's microtask.                  *)
Settled == ~(loop = "parked" /\ woken)

Spend(kind) ==
    /\ kind \in Faults
    /\ budget > 0
    /\ budget' = budget - 1

(* Connection.close() of each of cs: a connection already dead is skipped. *)
CloseAll(cs) ==
    LET closed == {c \in cs \ {None} : ~conns[c].dead}
    IN  /\ conns' = [c \in Conns |->
                       IF c \in closed
                         THEN [conns[c] EXCEPT !.link = "closed", !.dead = TRUE]
                         ELSE conns[c]]
        /\ inbox' = [c \in Conns |-> IF c \in closed THEN <<>> ELSE inbox[c]]
        /\ gateway' = [c \in Conns |->
                         IF c \in closed THEN "absent" ELSE gateway[c]]

(* callbacks.onStateChange: CLOSING and CLOSED are never left this way.    *)
StateChange(s) ==
    state' = IF state \in {"CLOSING", "CLOSED"} THEN state ELSE s

-----------------------------------------------------------------------------
(* (Mutant) The loop forgets the draining connection when it exits.        *)
TeardownActive ==
    /\ shutdown /\ ~InFlight
    /\ loop' = "exited"
    /\ active' = None
    /\ draining' = None
    /\ CloseAll({active})
    /\ UNCHANGED state

(* The top of the loop, up to its next await: exit and tear down, begin to *)
(* connect, or park.                                                       *)
Teardown ==
    /\ shutdown /\ ~InFlight
    /\ loop' = "exited"
    /\ active' = None
    /\ draining' = None
    /\ CloseAll({active, draining})
    /\ UNCHANGED state

BeginConnecting ==
    /\ ~(shutdown /\ ~InFlight)
    /\ ~Live(active)
    /\ loop' = "starting"
    /\ StateChange(IF connected THEN "RECONNECTING" ELSE "CONNECTING")
    /\ UNCHANGED <<active, draining, conns, inbox, gateway>>

Park ==
    /\ ~(shutdown /\ ~InFlight)
    /\ Live(active)
    /\ loop' = "parked"
    /\ UNCHANGED <<active, draining, state, conns, inbox, gateway>>

Iterate ==
    /\ Teardown \/ BeginConnecting \/ Park
    /\ UNCHANGED <<shutdown, connected, key, exclude, lease, dropped, budget>>

(* start(): throws once the worker is closing.                             *)
Start ==
    /\ loop = "idle"
    /\ state \notin {"CLOSING", "CLOSED"}
    /\ Iterate
    /\ UNCHANGED woken

(* The wake signal resumes the loop, which consumes every reason.          *)
Wake ==
    /\ loop = "parked"
    /\ woken
    /\ woken' = FALSE
    /\ Iterate

(* waitWithCancel ends, by its timeout or by its condition.                *)
BackoffEnds ==
    /\ loop = "backoff"
    /\ Iterate
    /\ UNCHANGED woken

-----------------------------------------------------------------------------
(* establishConnection: POST /v0/connect/start, then the WebSocket         *)
(* handshake.  A request that fails, or an answer other than 200, is a     *)
(* ReconnectError: a backoff and another attempt.                          *)
StartFails ==
    /\ loop = "starting"
    /\ Spend("start")
    /\ loop' = "backoff"
    /\ UNCHANGED <<woken, shutdown, state, connected, key, exclude, active,
                   draining, conns, gateway, inbox, lease, dropped>>

(* Any other error -- no base URL, a body that cannot be read or decoded,  *)
(* an address WebSocket refuses -- is thrown out of the loop, which is     *)
(* over without its teardown: the timers go on, and start() or close()     *)
(* rejects.                                                                *)
StartThrows ==
    /\ loop = "starting"
    /\ Spend("error")
    /\ loop' = "failed"
    /\ UNCHANGED <<woken, shutdown, state, connected, key, exclude, active,
                   draining, conns, gateway, inbox, lease, dropped>>

(* (Mutant) The key that was refused is tried again.                       *)
SameKey == key

(* switchAuthKey.                                                          *)
OtherKey == IF key = "primary" THEN "fallback" ELSE "primary"

(* 401: the loop switches between the two signing keys.                    *)
StartUnauthorized ==
    /\ loop = "starting"
    /\ key # ValidKey
    /\ key' = OtherKey
    /\ loop' = "backoff"
    /\ UNCHANGED <<woken, shutdown, state, connected, exclude, active,
                   draining, conns, gateway, inbox, lease, dropped, budget>>

(* The API picks a gateway, one the worker does not exclude if it can.     *)
StartAccepted(c) ==
    /\ loop = "starting"
    /\ key = ValidKey
    /\ conns[c].link = "unused"
    /\ \A d \in Conns : d < c => conns[d].link # "unused"
    /\ \E g \in Groups :
          /\ Groups \ exclude # {} => g \notin exclude
          /\ conns' = [conns EXCEPT ![c].link = "handshaking", ![c].group = g]
    /\ loop' = "handshake"
    /\ UNCHANGED <<woken, shutdown, state, connected, key, exclude, active,
                   draining, gateway, inbox, lease, dropped, budget>>

(* An error, a close or an unexpected message: rejectHandshake.            *)
HandshakeFails(c) ==
    /\ loop = "handshake"
    /\ conns[c].link = "handshaking"
    /\ Spend("handshake")
    /\ exclude' = exclude \cup {conns[c].group}
    /\ conns' = [conns EXCEPT ![c].link = "closed"]
    /\ loop' = "backoff"
    /\ UNCHANGED <<woken, shutdown, state, connected, key, active, draining,
                   gateway, inbox, lease, dropped>>

(* Ten seconds pass: the promise is rejected, the socket left as it is.    *)
HandshakeTimesOut(c) ==
    /\ loop = "handshake"
    /\ conns[c].link = "handshaking"
    /\ Spend("timeout")
    /\ exclude' = exclude \cup {conns[c].group}
    /\ conns' = [conns EXCEPT ![c].link = "orphan"]
    /\ loop' = "backoff"
    /\ UNCHANGED <<woken, shutdown, state, connected, key, active, draining,
                   gateway, inbox, lease, dropped>>

(* What the loop announces on a connection it has just established.        *)
Announced == IF shutdown THEN "paused" ELSE "ready"

(* GATEWAY_CONNECTION_READY: the connection becomes the active one.  The   *)
(* draining one is closed; a dead one that is replaced is just forgotten.  *)
Established(c) ==
    /\ loop = "handshake"
    /\ conns[c].link = "handshaking"
    /\ exclude' = exclude \ {conns[c].group}
    /\ LET closed == {d \in {draining} \ {None} : ~conns[d].dead}
       IN  /\ conns' = [d \in Conns |->
                IF d = c THEN [conns[d] EXCEPT !.link = "open"]
                ELSE IF d \in closed
                       THEN [conns[d] EXCEPT !.link = "closed", !.dead = TRUE]
                ELSE conns[d]]
           /\ gateway' = [d \in Conns |->
                IF d = c THEN Announced
                ELSE IF d \in closed THEN "absent" ELSE gateway[d]]
           /\ inbox' = [d \in Conns |-> IF d \in closed THEN <<>> ELSE inbox[d]]
    /\ draining' = None
    /\ active' = c
    /\ connected' = TRUE
    /\ StateChange("ACTIVE")
    /\ loop' = "parked"
    /\ UNCHANGED <<woken, shutdown, key, lease, dropped, budget>>

-----------------------------------------------------------------------------
(* The transport goes away without an event; messages under way are lost   *)
(* from some point on.                                                     *)
SocketBreaks(c) ==
    /\ conns[c].link = "open"
    /\ Spend("break")
    /\ conns' = [conns EXCEPT ![c].link = "broken"]
    /\ \E n \in 0 .. Len(inbox[c]) :
          inbox' = [inbox EXCEPT ![c] = SubSeq(@, 1, n)]
    /\ gateway' = [gateway EXCEPT ![c] = "absent"]
    /\ UNCHANGED <<loopVars, lease, dropped>>

(* ws.onclose or ws.onerror, once the messages before it are handled.  A   *)
(* gateway that drains closes its sockets itself after a grace period.     *)
SocketCloses(c) ==
    /\ ReadyStateOpen(c)
    /\ inbox[c] = <<>>
    /\ IF conns[c].link = "broken" \/ gateway[c] = "draining"
         THEN UNCHANGED budget
         ELSE Spend("close")
    /\ gateway' = [gateway EXCEPT ![c] = "absent"]
    /\ conns' = [conns EXCEPT ![c].link = "closed", ![c].dead = TRUE]
    /\ IF conns[c].dead
         THEN UNCHANGED <<exclude, active, woken>>
         ELSE /\ exclude' = exclude \cup {conns[c].group}
              /\ active' = IF active = c THEN None ELSE active
              /\ woken' = TRUE
    /\ UNCHANGED <<loop, shutdown, state, connected, key, draining, inbox,
                   lease, dropped>>

(* The heartbeat timer: two unanswered heartbeats make the connection      *)
(* dead.  (It is neither closed nor cleared, and its gateway group is not  *)
(* excluded.)  An open connection misses its answers only by a fault; what *)
(* a broken one had delivered is handled long before the misses add up.    *)
HeartbeatTick ==
    /\ loop \notin {"idle", "exited"}
    /\ active # None
    /\ ReadyStateOpen(active)
    /\ LET beats == conns[active].beats
       IN  IF beats < 2
             THEN /\ conns' = [conns EXCEPT ![active].beats = beats + 1]
                  /\ UNCHANGED <<woken, budget>>
             ELSE /\ conns' = [conns EXCEPT ![active].dead = TRUE]
                  /\ woken' = TRUE
                  /\ IF conns[active].dead THEN UNCHANGED budget
                     ELSE IF conns[active].link = "broken"
                       THEN inbox[active] = <<>> /\ UNCHANGED budget
                     ELSE Spend("heartbeat")
    /\ UNCHANGED <<loop, shutdown, state, connected, key, exclude, active,
                   draining, gateway, inbox, lease, dropped>>

(* GATEWAY_HEARTBEAT arrives on c.                                         *)
HandleHeartbeat(c) ==
    /\ conns[c].link = "open"
    /\ conns[c].beats > 0
    /\ conns' = [conns EXCEPT ![c].beats = 0]
    /\ UNCHANGED <<loopVars, gateway, inbox, lease, dropped, budget>>

(* The gateway begins to drain: GATEWAY_CLOSING is sent once per socket.   *)
GatewayDrains(c) ==
    /\ conns[c].link = "open"
    /\ gateway[c] \in {"ready", "paused"}
    /\ Spend("closing")
    /\ gateway' = [gateway EXCEPT ![c] = "draining"]
    /\ inbox' = [inbox EXCEPT ![c] =
                   Append(@, [kind |-> "CLOSING", req |-> None, id |-> NoLease])]
    /\ UNCHANGED <<loopVars, conns, lease, dropped>>

(* A message is handled in the order it was sent, while the socket is not  *)
(* closed -- whether or not its connection is still the active one.        *)
Receives(c, kind) ==
    /\ ReadyStateOpen(c)
    /\ inbox[c] # <<>>
    /\ Head(inbox[c]).kind = kind

Take(c) == inbox' = [inbox EXCEPT ![c] = Tail(@)]

(* (Mutant) The connection to drain is dropped.                            *)
ClosingDropped(c) ==
    /\ Receives(c, "CLOSING")
    /\ Take(c)
    /\ active' = None
    /\ woken' = TRUE
    /\ UNCHANGED <<loop, shutdown, state, connected, key, exclude, draining,
                   conns, gateway, lease, dropped, budget>>

(* GATEWAY_CLOSING: whichever connection it arrived on, it is the active   *)
(* connection that moves to the draining slot.  When there is none, or c   *)
(* is not it, what was draining is forgotten, not closed.                  *)
HandleClosing(c) ==
    /\ Receives(c, "CLOSING")
    /\ Take(c)
    /\ dropped' = IF c = active THEN dropped
                  ELSE dropped \cup ({draining} \ {None})
    /\ draining' = active
    /\ active' = None
    /\ woken' = TRUE
    /\ UNCHANGED <<loop, shutdown, state, connected, key, exclude, conns,
                   gateway, lease, budget>>

-----------------------------------------------------------------------------
(* close(), its synchronous part: the strategy's setClosing, and closeOnce *)
(* up to the wake.                                                         *)
RequestShutdown ==
    /\ state \notin {"CLOSING", "CLOSED"}
    /\ state' = "CLOSING"
    /\ shutdown' = TRUE
    /\ woken' = TRUE
    /\ gateway' = [c \in Conns |->
                     IF c = active /\ gateway[c] = "ready" THEN "paused"
                     ELSE gateway[c]]
    /\ UNCHANGED <<loop, connected, key, exclude, active, draining, conns,
                   inbox, lease, dropped, budget>>

(* The "still draining" timer of a shutdown wakes the loop every minute; a *)
(* parked loop runs its next iteration at once.                            *)
ShutdownDump ==
    /\ shutdown
    /\ loop \notin {"idle", "exited"}
    /\ IF loop = "parked"
         THEN woken' = FALSE /\ Iterate
         ELSE /\ woken' = TRUE
              /\ UNCHANGED <<loop, shutdown, state, connected, key, exclude,
                             active, draining, conns, gateway, inbox, lease,
                             dropped, budget>>

(* (Mutant) The last request to end does not wake the loop.                *)
NoWake(left) == UNCHANGED woken

(* wake() by a request that is over, under shutdown and when it was the    *)
(* last one; `left' is the lease map afterwards.                           *)
WakeIfDrained(left) ==
    woken' = IF shutdown /\ \A r \in Requests : left[r] = NoLease
               THEN TRUE ELSE woken

LoopStep ==
    \/ Start \/ BackoffEnds
    \/ StartFails \/ StartThrows \/ StartUnauthorized
    \/ \E c \in Conns : \/ StartAccepted(c)
                        \/ HandshakeFails(c)
                        \/ HandshakeTimesOut(c)

SocketStep ==
    \E c \in Conns : \/ SocketBreaks(c) \/ SocketCloses(c)
                     \/ HandleHeartbeat(c)
                     \/ GatewayDrains(c) \/ HandleClosing(c)

=============================================================================
