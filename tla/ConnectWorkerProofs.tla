------------------------ MODULE ConnectWorkerProofs ------------------------
(***************************************************************************)
(* Theorems about ConnectWorker, for any requests, gateway groups, faults  *)
(* and bounds: its types, what its wake-ups, leases and states keep, and   *)
(* that it uses its buffer as MessageBuffer allows.                        *)
(***************************************************************************)
EXTENDS ConnectWorker, TLAPS

-----------------------------------------------------------------------------
(* Types of the connection core.  What is excluded are gateway groups      *)
(* because a connection that can fail has one.                             *)

GroupsKnown ==
    \A c \in Conns : conns[c].link \in {"handshaking", "open", "broken"}
                        => conns[c].group \in Groups

CoreTypes == ConnTypeOK /\ GroupsKnown

LEMMA SpendType ==
    ASSUME budget \in 0 .. MaxFaults, NEW kind, Spend(kind)
    PROVE  budget' \in 0 .. MaxFaults
    BY FaultsAssumption DEF Spend

(* A socket changes its state and nothing else of its connection does.     *)
LEMMA LinkRecord ==
    ASSUME NEW k \in Connection, NEW link \in Links
    PROVE  /\ [k EXCEPT !.link = link] \in Connection
           /\ [k EXCEPT !.link = link].link = link
           /\ [k EXCEPT !.link = link].group = k.group
           /\ [k EXCEPT !.link = link].dead = k.dead
    BY DEF Connection

LEMMA LinkType ==
    ASSUME CoreTypes, NEW c \in Conns, NEW link \in Links
    PROVE  [conns EXCEPT ![c].link = link] \in [Conns -> Connection]
    <1>1. [conns[c] EXCEPT !.link = link] \in Connection
      BY LinkRecord DEF CoreTypes, ConnTypeOK
    <1>2. QED
      BY <1>1 DEF CoreTypes, ConnTypeOK

LEMMA CloseAllType ==
    ASSUME CoreTypes, NEW cs, CloseAll(cs)
    PROVE  /\ conns' \in [Conns -> Connection]
           /\ inbox' \in [Conns -> Seq(Message)]
           /\ gateway' \in [Conns -> {"absent", "ready", "paused", "draining"}]
           /\ GroupsKnown'
           /\ \A d \in Conns : conns'[d] = conns[d] \/ conns'[d].link = "closed"
    <1>1. \A c \in Conns :
            /\ [conns[c] EXCEPT !.link = "closed", !.dead = TRUE] \in Connection
            /\ [conns[c] EXCEPT !.link = "closed", !.dead = TRUE].link = "closed"
      BY DEF CoreTypes, ConnTypeOK, Connection, Links
    <1>2. <<>> \in Seq(Message)
      OBVIOUS
    <1>3. conns' \in [Conns -> Connection]
      BY <1>1 DEF CloseAll, CoreTypes, ConnTypeOK
    <1>4. GroupsKnown'
      BY <1>1 DEF CloseAll, CoreTypes, GroupsKnown
    <1>5. inbox' \in [Conns -> Seq(Message)]
      BY <1>2 DEF CloseAll, CoreTypes, ConnTypeOK
    <1>6. gateway' \in [Conns -> {"absent", "ready", "paused", "draining"}]
      BY DEF CloseAll, CoreTypes, ConnTypeOK
    <1>7. \A d \in Conns : conns'[d] = conns[d] \/ conns'[d].link = "closed"
      BY <1>1 DEF CloseAll
    <1>8. QED
      BY <1>3, <1>4, <1>5, <1>6, <1>7

LEMMA IterateType ==
    ASSUME CoreTypes, Iterate, woken' \in BOOLEAN
    PROVE  CoreTypes'
    <1>1. CASE Teardown
      BY <1>1, CloseAllType DEF Teardown, Iterate, CoreTypes, ConnTypeOK
    <1>2. CASE BeginConnecting
      BY <1>2 DEF BeginConnecting, StateChange, States, Iterate, CoreTypes, ConnTypeOK, GroupsKnown
    <1>3. CASE Park
      BY <1>3 DEF Park, Iterate, CoreTypes, ConnTypeOK, GroupsKnown
    <1>4. QED
      BY <1>1, <1>2, <1>3 DEF Iterate

LEMMA LoopType ==
    ASSUME CoreTypes, LoopStep
    PROVE  CoreTypes'
    <1>1. CASE Start \/ BackoffEnds
      BY <1>1, IterateType DEF Start, BackoffEnds, CoreTypes, ConnTypeOK
    <1>2. CASE StartFails \/ StartThrows
      BY <1>2, SpendType DEF StartFails, StartThrows, CoreTypes, ConnTypeOK, GroupsKnown
    <1>3. CASE StartUnauthorized
      BY <1>3 DEF StartUnauthorized, OtherKey, Keys, CoreTypes, ConnTypeOK, GroupsKnown
    <1>4. ASSUME NEW c \in Conns, StartAccepted(c)
          PROVE  CoreTypes'
      <2>1. PICK g \in Groups :
              conns' = [conns EXCEPT ![c].link = "handshaking", ![c].group = g]
        BY <1>4 DEF StartAccepted
      <2> DEFINE linked == [conns EXCEPT ![c].link = "handshaking"]
      <2>2. linked \in [Conns -> Connection]
        BY LinkType DEF Links
      <2>3. \A d \in Conns \ {c} : linked[d] = conns[d]
        BY DEF CoreTypes, ConnTypeOK
      <2> HIDE DEF linked
      <2>4. conns' = [linked EXCEPT ![c].group = g]
        BY <2>1 DEF linked
      <2>5. conns' \in [Conns -> Connection] /\ GroupsKnown'
        BY <2>2, <2>3, <2>4 DEF Connection, CoreTypes, GroupsKnown
      <2>6. QED
        BY <1>4, <2>5 DEF StartAccepted, CoreTypes, ConnTypeOK
    <1>5. ASSUME NEW c \in Conns, HandshakeFails(c) \/ HandshakeTimesOut(c)
          PROVE  CoreTypes'
      <2>1. PICK link \in {"closed", "orphan"} : conns' = [conns EXCEPT ![c].link = link]
        BY <1>5 DEF HandshakeFails, HandshakeTimesOut
      <2>2. /\ conns' \in [Conns -> Connection]
            /\ conns'[c].link = link
            /\ \A d \in Conns \ {c} : conns'[d] = conns[d]
        BY <2>1 DEF CoreTypes, ConnTypeOK, Connection, Links
      <2>3. GroupsKnown'
        BY <2>2 DEF CoreTypes, GroupsKnown
      <2>4. exclude' \in SUBSET Groups
        BY <1>5 DEF HandshakeFails, HandshakeTimesOut, CoreTypes, ConnTypeOK, GroupsKnown
      <2>5. budget' \in 0 .. MaxFaults
        BY <1>5, SpendType DEF HandshakeFails, HandshakeTimesOut, CoreTypes, ConnTypeOK
      <2>6. QED
        BY <1>5, <2>2, <2>4, <2>5, <2>3 DEF HandshakeFails, HandshakeTimesOut, CoreTypes, ConnTypeOK
    <1>6. QED
      BY <1>1, <1>2, <1>3, <1>4, <1>5 DEF LoopStep

LEMMA EstablishedType ==
    ASSUME CoreTypes, NEW c \in Conns, Established(c)
    PROVE  CoreTypes'
    <1> DEFINE closed == {d \in {draining} \ {None} : ~conns[d].dead}
    <1>1. \A d \in Conns :
            /\ [conns[d] EXCEPT !.link = "closed", !.dead = TRUE] \in Connection
            /\ [conns[d] EXCEPT !.link = "closed", !.dead = TRUE].link = "closed"
            /\ [conns[d] EXCEPT !.link = "open"] \in Connection
            /\ [conns[d] EXCEPT !.link = "open"].group = conns[d].group
      BY DEF CoreTypes, ConnTypeOK, Connection, Links
    <1>2. /\ conns' = [d \in Conns |->
                IF d = c THEN [conns[d] EXCEPT !.link = "open"]
                ELSE IF d \in closed
                       THEN [conns[d] EXCEPT !.link = "closed", !.dead = TRUE]
                ELSE conns[d]]
          /\ gateway' = [d \in Conns |->
                IF d = c THEN Announced
                ELSE IF d \in closed THEN "absent" ELSE gateway[d]]
          /\ inbox' = [d \in Conns |-> IF d \in closed THEN <<>> ELSE inbox[d]]
      BY DEF Established
    <1> HIDE DEF closed
    <1>3. conns' \in [Conns -> Connection]
      BY <1>1, <1>2 DEF CoreTypes, ConnTypeOK
    <1>4. GroupsKnown'
      <2>1. conns[c].group \in Groups
        BY DEF Established, CoreTypes, GroupsKnown
      <2>2. QED
        BY <1>1, <1>2, <2>1 DEF CoreTypes, GroupsKnown
    <1>5. inbox' \in [Conns -> Seq(Message)]
      <2>1. <<>> \in Seq(Message)
        OBVIOUS
      <2>2. QED
        BY <1>2, <2>1 DEF CoreTypes, ConnTypeOK
    <1>6. gateway' \in [Conns -> {"absent", "ready", "paused", "draining"}]
      BY <1>2 DEF CoreTypes, ConnTypeOK, Announced
    <1>7. QED
      BY <1>3, <1>4, <1>5, <1>6
      DEF Established, StateChange, States, CoreTypes, ConnTypeOK

(* Counting heartbeats and declaring a connection dead.                    *)
LEMMA BeatsType ==
    ASSUME CoreTypes, NEW c \in Conns, NEW n \in 0 .. 2,
           conns' = [conns EXCEPT ![c].beats = n]
    PROVE  conns' \in [Conns -> Connection] /\ GroupsKnown'
    <1>1. conns' \in [Conns -> Connection]
      BY DEF CoreTypes, ConnTypeOK, Connection
    <1>2. \A d \in Conns : conns'[d].link = conns[d].link /\ conns'[d].group = conns[d].group
      BY DEF CoreTypes, ConnTypeOK, Connection
    <1>3. QED
      BY <1>1, <1>2 DEF CoreTypes, GroupsKnown

LEMMA DeadType ==
    ASSUME CoreTypes, NEW c \in Conns, conns' = [conns EXCEPT ![c].dead = TRUE]
    PROVE  conns' \in [Conns -> Connection] /\ GroupsKnown'
    <1>1. conns' \in [Conns -> Connection]
      BY DEF CoreTypes, ConnTypeOK, Connection
    <1>2. \A d \in Conns : conns'[d].link = conns[d].link /\ conns'[d].group = conns[d].group
      BY DEF CoreTypes, ConnTypeOK, Connection
    <1>3. QED
      BY <1>1, <1>2 DEF CoreTypes, GroupsKnown

(* A message is added to an inbox, or the first one is taken from it.      *)
LEMMA InboxType ==
    ASSUME inbox \in [Conns -> Seq(Message)], NEW c \in Conns
    PROVE  /\ \A m \in Message : [inbox EXCEPT ![c] = Append(@, m)] \in [Conns -> Seq(Message)]
           /\ inbox[c] # <<>> => /\ [inbox EXCEPT ![c] = Tail(@)] \in [Conns -> Seq(Message)]
                                 /\ Head(inbox[c]) \in Message
    OBVIOUS

LEMMA MessageFields ==
    ASSUME NEW m \in Message
    PROVE  /\ m.id \in Nat
           /\ m.kind # "CLOSING" => m.req \in Requests
    BY DEF Message, NoLease

LEMMA LostType ==
    ASSUME inbox \in [Conns -> Seq(Message)], NEW c \in Conns, NEW n \in 0 .. Len(inbox[c])
    PROVE  [inbox EXCEPT ![c] = SubSeq(@, 1, n)] \in [Conns -> Seq(Message)]
    <1>1. SubSeq(inbox[c], 1, n) \in Seq(Message)
      OBVIOUS
    <1>2. QED
      BY <1>1

LEMMA SocketType ==
    ASSUME CoreTypes, SocketStep
    PROVE  CoreTypes'
    <1> PICK c \in Conns : \/ SocketBreaks(c) \/ SocketCloses(c)
                           \/ HandleHeartbeat(c)
                           \/ GatewayDrains(c) \/ HandleClosing(c)
      BY DEF SocketStep
    <1>1. CASE SocketBreaks(c)
      <2>1. inbox' \in [Conns -> Seq(Message)]
        BY <1>1, LostType DEF SocketBreaks, CoreTypes, ConnTypeOK
      <2>2. conns' \in [Conns -> Connection] /\ GroupsKnown'
        <3>1. conns' = [conns EXCEPT ![c].link = "broken"] /\ conns[c].link = "open"
          BY <1>1 DEF SocketBreaks
        <3>2. conns' \in [Conns -> Connection]
          BY <3>1, LinkType DEF Links
        <3>3. \A d \in Conns : /\ conns'[d].group = conns[d].group
                               /\ d # c => conns'[d] = conns[d]
          BY <3>1 DEF CoreTypes, ConnTypeOK, Connection
        <3>4. GroupsKnown'
          BY <3>1, <3>3 DEF CoreTypes, GroupsKnown
        <3>5. QED
          BY <3>2, <3>4
      <2>3. budget' \in 0 .. MaxFaults
        BY <1>1, SpendType DEF SocketBreaks, CoreTypes, ConnTypeOK
      <2>4. QED
        BY <1>1, <2>1, <2>2, <2>3 DEF SocketBreaks, loopVars, CoreTypes, ConnTypeOK
    <1>2. CASE SocketCloses(c)
      <2> DEFINE closed == [conns EXCEPT ![c].link = "closed"]
      <2>1. closed \in [Conns -> Connection] /\ closed[c].link = "closed"
        BY DEF CoreTypes, ConnTypeOK, Connection, Links
      <2>2. \A d \in Conns \ {c} : closed[d] = conns[d]
        BY DEF CoreTypes, ConnTypeOK
      <2> HIDE DEF closed
      <2>3. conns' = [closed EXCEPT ![c].dead = TRUE]
        BY <1>2 DEF SocketCloses, closed
      <2>4. /\ conns' \in [Conns -> Connection]
            /\ conns'[c].link = "closed"
            /\ \A d \in Conns \ {c} : conns'[d] = conns[d]
        BY <2>1, <2>2, <2>3 DEF Connection
      <2>5. GroupsKnown'
        BY <2>4 DEF CoreTypes, GroupsKnown
      <2>6. budget' \in 0 .. MaxFaults
        BY <1>2, SpendType DEF SocketCloses, CoreTypes, ConnTypeOK
      <2>7. conns[c].group \in Groups
        BY <1>2 DEF SocketCloses, ReadyStateOpen, CoreTypes, GroupsKnown
      <2>8. /\ exclude' \in {exclude, exclude \cup {conns[c].group}}
            /\ active' \in {active, None}
            /\ woken' \in {woken, TRUE}
        BY <1>2 DEF SocketCloses
      <2>9. exclude' \in SUBSET Groups /\ active' \in Conns \cup {None} /\ woken' \in BOOLEAN
        BY <2>7, <2>8 DEF CoreTypes, ConnTypeOK
      <2>10. QED
        BY <1>2, <2>4, <2>5, <2>6, <2>9 DEF SocketCloses, CoreTypes, ConnTypeOK
    <1>3. CASE HandleHeartbeat(c)
      <2>1. 0 \in 0 .. 2 /\ conns' = [conns EXCEPT ![c].beats = 0]
        BY <1>3 DEF HandleHeartbeat
      <2>2. conns' \in [Conns -> Connection] /\ GroupsKnown'
        BY <2>1, BeatsType
      <2>3. QED
        BY <1>3, <2>2 DEF HandleHeartbeat, loopVars, CoreTypes, ConnTypeOK
    <1>4. CASE GatewayDrains(c)
      <2>1. [kind |-> "CLOSING", req |-> None, id |-> NoLease] \in Message
        BY DEF Message, NoLease
      <2>2. inbox' \in [Conns -> Seq(Message)]
        BY <1>4, <2>1, InboxType DEF GatewayDrains, CoreTypes, ConnTypeOK
      <2>3. budget' \in 0 .. MaxFaults
        BY <1>4, SpendType DEF GatewayDrains, CoreTypes, ConnTypeOK
      <2>4. QED
        BY <1>4, <2>2, <2>3 DEF GatewayDrains, loopVars, CoreTypes, ConnTypeOK, GroupsKnown
    <1>5. CASE HandleClosing(c)
      <2>1. inbox' \in [Conns -> Seq(Message)]
        BY <1>5, InboxType DEF HandleClosing, Receives, Take, CoreTypes, ConnTypeOK
      <2>2. QED
        BY <1>5, <2>1 DEF HandleClosing, CoreTypes, ConnTypeOK, GroupsKnown
    <1>6. QED
      BY <1>1, <1>2, <1>3, <1>4, <1>5

LEMMA TimerType ==
    ASSUME CoreTypes, HeartbeatTick \/ RequestShutdown \/ ShutdownDump
    PROVE  CoreTypes'
    <1>1. CASE HeartbeatTick
      <2>1. active \in Conns /\ conns[active].beats \in 0 .. 2
        BY <1>1 DEF HeartbeatTick, CoreTypes, ConnTypeOK, Connection
      <2>2. CASE conns[active].beats < 2
        <3>1. conns[active].beats + 1 \in 0 .. 2
          BY <2>1, <2>2
        <3>2. conns' = [conns EXCEPT ![active].beats = conns[active].beats + 1]
          BY <1>1, <2>2 DEF HeartbeatTick
        <3>3. conns' \in [Conns -> Connection] /\ GroupsKnown'
          BY <2>1, <3>1, <3>2, BeatsType
        <3>4. QED
          BY <1>1, <2>2, <3>3 DEF HeartbeatTick, CoreTypes, ConnTypeOK
      <2>3. CASE ~(conns[active].beats < 2)
        <3>1. conns' = [conns EXCEPT ![active].dead = TRUE] /\ woken' = TRUE
          BY <1>1, <2>3 DEF HeartbeatTick
        <3>2. conns' \in [Conns -> Connection] /\ GroupsKnown'
          BY <2>1, <3>1, DeadType
        <3>3. budget' \in 0 .. MaxFaults
          BY <1>1, <2>3, SpendType DEF HeartbeatTick, CoreTypes, ConnTypeOK
        <3>4. QED
          BY <1>1, <3>1, <3>2, <3>3 DEF HeartbeatTick, CoreTypes, ConnTypeOK
      <2>4. QED
        BY <2>2, <2>3
    <1>2. CASE RequestShutdown
      BY <1>2 DEF RequestShutdown, States, CoreTypes, ConnTypeOK, GroupsKnown
    <1>3. CASE ShutdownDump
      <2>1. CASE Iterate /\ woken' = FALSE
        BY <2>1, IterateType
      <2>2. CASE ~(Iterate /\ woken' = FALSE)
        BY <1>3, <2>2 DEF ShutdownDump, CoreTypes, ConnTypeOK, GroupsKnown
      <2>3. QED
        BY <2>1, <2>2
    <1>4. QED
      BY <1>1, <1>2, <1>3

-----------------------------------------------------------------------------
(* The worker and its buffer.                                              *)

LEMMA BufferStepType ==
    ASSUME Buffer!BufferTypeOK, [Buffer!BufferNext]_bufferVars
    PROVE  Buffer!BufferTypeOK'
    <1> USE DEF Buffer!BufferTypeOK
    <1>1. CASE UNCHANGED bufferVars
      BY <1>1 DEF bufferVars
    <1>2. ASSUME NEW r \in Requests,
                 \/ \E arrives \in BOOLEAN : Buffer!RespondOnSocket(r, arrives)
                 \/ Buffer!RespondToBuffer(r)
                 \/ Buffer!AcknowledgePending(r)
                 \/ Buffer!Expire(r)
          PROVE  Buffer!BufferTypeOK'
      BY <1>2 DEF Buffer!RespondOnSocket, Buffer!AddPending, Buffer!RespondToBuffer,
                  Buffer!AcknowledgePending, Buffer!Expire
    <1>3. ASSUME NEW s \in Slots, NEW k \in Keys, Buffer!StartFlush(s, k)
          PROVE  Buffer!BufferTypeOK'
      <2>1. [phase |-> "sending", key |-> k, attempt |-> 0, todo |-> buffered] \in Buffer!Flush
        BY BoundsAssumption DEF Buffer!Flush
      <2>2. QED
        BY <1>3, <2>1 DEF Buffer!StartFlush
    <1>4. ASSUME NEW f \in Buffer!Flush, NEW left
          PROVE  Buffer!AfterPass(f, left) \in Buffer!Flush
      <2>1. Buffer!Idle \in Buffer!Flush
        BY BoundsAssumption DEF Buffer!Idle, Buffer!Flush
      <2>2. [f EXCEPT !.phase = "waiting"] \in Buffer!Flush
        BY DEF Buffer!Flush
      <2>3. [[f EXCEPT !.phase = "waiting"] EXCEPT !.todo = {}] \in Buffer!Flush
        BY <2>2 DEF Buffer!Flush
      <2>4. QED
        BY <2>1, <2>3 DEF Buffer!AfterPass
    <1>5. ASSUME NEW s \in Slots, NEW r \in Requests, Buffer!FlushAccepted(s, r)
          PROVE  Buffer!BufferTypeOK'
      <2>1. [flushes[s] EXCEPT !.todo = @ \ {r}] \in Buffer!Flush
        BY DEF Buffer!Flush
      <2>2. PICK f \in Buffer!Flush : flushes' = [flushes EXCEPT ![s] = f]
        BY <1>4, <1>5, <2>1 DEF Buffer!FlushAccepted
      <2>3. QED
        BY <1>5, <2>2 DEF Buffer!FlushAccepted
    <1>6. ASSUME NEW s \in Slots, Buffer!FlushRefused(s)
          PROVE  Buffer!BufferTypeOK'
      BY <1>4, <1>6 DEF Buffer!FlushRefused
    <1>7. ASSUME NEW s \in Slots, Buffer!FlushRetries(s)
          PROVE  Buffer!BufferTypeOK'
      <2>1. Buffer!Idle \in Buffer!Flush
        BY BoundsAssumption DEF Buffer!Idle, Buffer!Flush
      <2> DEFINE sending == [flushes[s] EXCEPT !.phase = "sending"]
                 again   == [sending EXCEPT !.attempt = @ + 1]
                 full    == [again EXCEPT !.todo = buffered]
      <2>2. ASSUME flushes[s].attempt + 1 # MaxAttempts PROVE full \in Buffer!Flush
        <3>1. sending \in Buffer!Flush /\ sending.attempt = flushes[s].attempt
          BY DEF Buffer!Flush
        <3>2. sending.attempt + 1 \in 0 .. MaxAttempts - 1
          BY <2>2, <3>1, BoundsAssumption DEF Buffer!Flush
        <3> HIDE DEF sending
        <3>3. again \in Buffer!Flush
          BY <3>1, <3>2 DEF Buffer!Flush
        <3> HIDE DEF again
        <3>4. QED
          BY <3>3 DEF Buffer!Flush
      <2>3. PICK f \in Buffer!Flush : flushes' = [flushes EXCEPT ![s] = f]
        BY <1>7, <2>1, <2>2 DEF Buffer!FlushRetries
      <2>4. QED
        BY <1>7, <2>3 DEF Buffer!FlushRetries
    <1>8. QED
      BY <1>1, <1>2, <1>3, <1>5, <1>6, <1>7 DEF Buffer!BufferNext

(* Every step of the worker is a step of its buffer, or leaves it alone.   *)
LEMMA WorkerStepsBuffer ==
    ASSUME CoreTypes, Buffer!BufferTypeOK, [Next]_vars
    PROVE  [Buffer!BufferNext]_bufferVars
    <1> USE DEF Buffer!BufferNext, Slots
    <1>1. CASE \/ UNCHANGED vars
               \/ Wake /\ UNCHANGED <<requestVars, bufferVars>>
               \/ CloseReturns
               \/ CoreStep
      BY <1>1 DEF vars, CloseReturns, CoreStep, bufferVars
    <1>2. CASE BeginFinalFlush
      <2>1. CloseSlot \in Slots /\ "primary" \in Keys
        BY DEF Keys
      <2>2. QED
        BY <1>2, <2>1 DEF BeginFinalFlush
    <1>3. CASE RequestStep
      <2>1. ASSUME NEW r \in Requests, LeaseExpires(r) \/ Expire(r)
            PROVE  [Buffer!BufferNext]_bufferVars
        BY <2>1 DEF LeaseExpires, Expire, bufferVars
      <2>2. ASSUME NEW c \in Conns,
                   \/ \E r \in Requests : RouteRequest(r, c)
                   \/ HandleRequest(c)
                   \/ HandleLeaseAck(c)
            PROVE  [Buffer!BufferNext]_bufferVars
        BY <2>2 DEF RouteRequest, HandleRequest, HandleLeaseAck, bufferVars
      <2>3. ASSUME NEW c \in Conns, HandleReplyAck(c)
            PROVE  [Buffer!BufferNext]_bufferVars
        <3>1. PICK r : Buffer!AcknowledgePending(r)
          BY <2>3 DEF HandleReplyAck
        <3>2. r \in Requests
          BY <3>1 DEF Buffer!AcknowledgePending, Buffer!BufferTypeOK
        <3>3. QED
          BY <3>1, <3>2
      <2>4. ASSUME NEW c \in Conns, Activate(c)
            PROVE  [Buffer!BufferNext]_bufferVars
        BY <2>4 DEF Activate, CoreTypes, ConnTypeOK
      <2>5. ASSUME NEW d \in Deliveries,
                   StopExtending(d) \/ ExtendLease(d) \/ HandlerThrows(d)
            PROVE  [Buffer!BufferNext]_bufferVars
        BY <2>5 DEF StopExtending, ExtendLease, HandlerThrows, bufferVars
      <2>6. ASSUME NEW d \in Deliveries, Reply(d) \/ BufferReply(d)
            PROVE  [Buffer!BufferNext]_bufferVars
        <3>1. d[1] \in Requests
          BY DEF Deliveries
        <3>2. CASE Reply(d)
          <4>1. PICK arrives \in BOOLEAN : Buffer!RespondOnSocket(d[1], arrives)
            BY <3>2 DEF Reply
          <4>2. QED
            BY <3>1, <4>1
        <3>3. CASE BufferReply(d)
          BY <3>1, <3>3 DEF BufferReply
        <3>4. QED
          BY <2>6, <3>2, <3>3
      <2>7. QED
        BY <1>3, <2>1, <2>2, <2>3, <2>4, <2>5, <2>6 DEF RequestStep
    <1>4. CASE FlushStep
      BY <1>4 DEF FlushStep, FlushAccepted, FlushRefused, FlushRetries
    <1>5. QED
      BY <1>1, <1>2, <1>3, <1>4 DEF Next

-----------------------------------------------------------------------------
(* Types of the requests.                                                  *)

RequestTypes ==
    /\ exec \in [Deliveries -> [stage : Stages, conn : Conns \cup {None}]]
    /\ lost \in SUBSET Requests
    /\ route \in [Requests -> Route]
    /\ finalFlush \in BOOLEAN

LEMMA RouteRequestType ==
    ASSUME CoreTypes, RequestTypes, NEW r \in Requests, NEW c \in Conns, RouteRequest(r, c)
    PROVE  CoreTypes' /\ RequestTypes'
    <1>1. route[r].sent + 1 \in 0 .. MaxDeliveries /\ route[r].lease + 1 \in Nat
      BY BoundsAssumption DEF RouteRequest, RequestTypes, Route
    <1>2. [sent |-> route[r].sent + 1, lease |-> route[r].lease + 1, held |-> TRUE] \in Route
      BY <1>1 DEF Route
    <1>3. [kind |-> "REQUEST", req |-> r, id |-> route[r].lease + 1] \in Message
      BY <1>1 DEF Message
    <1>4. inbox' \in [Conns -> Seq(Message)]
      BY <1>3, InboxType DEF RouteRequest, CoreTypes, ConnTypeOK
    <1>5. route' \in [Requests -> Route]
      BY <1>2 DEF RouteRequest, RequestTypes
    <1>6. QED
      BY <1>4, <1>5 DEF RouteRequest, loopVars, CoreTypes, ConnTypeOK, GroupsKnown, RequestTypes

LEMMA LeaseExpiresType ==
    ASSUME CoreTypes, RequestTypes, NEW r \in Requests, LeaseExpires(r)
    PROVE  CoreTypes' /\ RequestTypes'
    <1>1. route' \in [Requests -> Route]
      BY DEF LeaseExpires, RequestTypes, Route
    <1>2. budget' \in 0 .. MaxFaults
      BY SpendType DEF LeaseExpires, CoreTypes, ConnTypeOK
    <1>3. QED
      BY <1>1, <1>2 DEF LeaseExpires, loopVars, CoreTypes, ConnTypeOK, GroupsKnown, RequestTypes

LEMMA HandleRequestType ==
    ASSUME CoreTypes, RequestTypes, NEW c \in Conns, HandleRequest(c)
    PROVE  CoreTypes' /\ RequestTypes'
    <1>1. inbox' \in [Conns -> Seq(Message)] /\ Head(inbox[c]) \in Message
      BY InboxType DEF HandleRequest, Receives, Take, CoreTypes, ConnTypeOK
    <1>2. lease' \in [Requests -> Nat]
      BY <1>1, MessageFields DEF HandleRequest, CoreTypes, ConnTypeOK
    <1>3. exec' \in [Deliveries -> [stage : Stages, conn : Conns \cup {None}]]
      <2>1. [stage |-> "ticking", conn |-> c] \in [stage : Stages, conn : Conns \cup {None}]
        BY DEF Stages
      <2>2. CASE state # "ACTIVE"
        BY <2>2 DEF HandleRequest, RequestTypes
      <2>3. CASE state = "ACTIVE"
        <3>1. PICK d : exec' = [exec EXCEPT ![d] = [stage |-> "ticking", conn |-> c]]
          BY <2>3 DEF HandleRequest
        <3>2. QED
          BY <2>1, <3>1 DEF RequestTypes
      <2>4. QED
        BY <2>2, <2>3
    <1>4. QED
      BY <1>1, <1>2, <1>3
      DEF HandleRequest, loopVars, CoreTypes, ConnTypeOK, GroupsKnown, RequestTypes

LEMMA WakeIfDrainedType ==
    ASSUME woken \in BOOLEAN, NEW left, WakeIfDrained(left)
    PROVE  woken' \in BOOLEAN
    BY DEF WakeIfDrained

LEMMA HandleLeaseAckType ==
    ASSUME CoreTypes, RequestTypes, NEW c \in Conns, HandleLeaseAck(c)
    PROVE  CoreTypes' /\ RequestTypes'
    <1>1. inbox' \in [Conns -> Seq(Message)] /\ Head(inbox[c]) \in Message
      BY InboxType DEF HandleLeaseAck, Receives, Take, CoreTypes, ConnTypeOK
    <1>2. CASE ~HasLease(Head(inbox[c]).req)
      BY <1>1, <1>2 DEF HandleLeaseAck, CoreTypes, ConnTypeOK, GroupsKnown, RequestTypes
    <1>3. CASE HasLease(Head(inbox[c]).req)
      <2> DEFINE m == Head(inbox[c])
                 left == [lease EXCEPT ![m.req] = m.id]
      <2>1. lease' = left /\ lease' \in [Requests -> Nat]
        BY <1>1, <1>3, MessageFields DEF HandleLeaseAck, CoreTypes, ConnTypeOK
      <2>2. CASE m.id # NoLease
        BY <1>1, <1>3, <2>1, <2>2
        DEF HandleLeaseAck, CoreTypes, ConnTypeOK, GroupsKnown, RequestTypes
      <2>3. CASE m.id = NoLease
        <3>1. WakeIfDrained(left) /\ lost' = lost \cup {m.req}
          BY <1>3, <2>3 DEF HandleLeaseAck
        <3>2. woken' \in BOOLEAN
          BY <3>1, WakeIfDrainedType DEF CoreTypes, ConnTypeOK
        <3>3. m.req \in Requests
          BY <1>1, MessageFields DEF HandleLeaseAck, Receives
        <3>4. QED
          BY <1>1, <2>1, <3>1, <3>2, <3>3
          DEF HandleLeaseAck, CoreTypes, ConnTypeOK, GroupsKnown, RequestTypes
      <2>4. QED
        BY <2>2, <2>3
    <1>4. QED
      BY <1>2, <1>3

LEMMA ExtendLeaseType ==
    ASSUME CoreTypes, RequestTypes, NEW d \in Deliveries,
           StopExtending(d) \/ ExtendLease(d)
    PROVE  CoreTypes' /\ RequestTypes'
    <1>1. CASE StopExtending(d)
      <2>1. exec' \in [Deliveries -> [stage : Stages, conn : Conns \cup {None}]]
        BY <1>1 DEF StopExtending, Stages, RequestTypes
      <2>2. QED
        BY <1>1, <2>1
        DEF StopExtending, connVars, loopVars, CoreTypes, ConnTypeOK, GroupsKnown, RequestTypes
    <1>2. CASE ExtendLease(d)
      <2>1. d[1] \in Requests /\ route[d[1]] \in Route
        BY DEF Deliveries, RequestTypes
      <2>2. ExtendOver(d) \in Conns
        BY <1>2 DEF ExtendLease, ExtendOver, CoreTypes, ConnTypeOK, RequestTypes
      <2>3. route[d[1]].lease + 1 \in Nat /\ NoLease \in Nat
        BY <2>1 DEF Route, NoLease
      <2>4. PICK id \in Nat :
              inbox' = [inbox EXCEPT ![ExtendOver(d)] =
                          Append(@, [kind |-> "LEASE_ACK", req |-> d[1], id |-> id])]
        BY <1>2, <2>3 DEF ExtendLease
      <2>5. [kind |-> "LEASE_ACK", req |-> d[1], id |-> id] \in Message
        BY <2>1 DEF Message
      <2>6. inbox' \in [Conns -> Seq(Message)]
        BY <2>2, <2>4, <2>5, InboxType DEF CoreTypes, ConnTypeOK
      <2>7. PICK id2 \in Nat : route' = [route EXCEPT ![d[1]].lease = id2]
        <3>1. route[d[1]].lease \in Nat
          BY <2>1 DEF Route
        <3>2. QED
          BY <1>2, <2>3, <3>1 DEF ExtendLease
      <2>8. route' \in [Requests -> Route]
        BY <2>1, <2>7 DEF RequestTypes, Route
      <2>9. QED
        BY <1>2, <2>6, <2>8
        DEF ExtendLease, loopVars, CoreTypes, ConnTypeOK, GroupsKnown, RequestTypes
    <1>3. QED
      BY <1>1, <1>2

LEMMA FinallyType ==
    ASSUME CoreTypes, RequestTypes, NEW d \in Deliveries, Finally(d),
           inbox' \in [Conns -> Seq(Message)], budget' \in 0 .. MaxFaults
    PROVE  CoreTypes' /\ RequestTypes'
    <1>1. exec' \in [Deliveries -> [stage : Stages, conn : Conns \cup {None}]]
      BY DEF Finally, Stages, RequestTypes
    <1>2. lease' \in [Requests -> Nat]
      BY DEF Finally, NoLease, CoreTypes, ConnTypeOK
    <1>3. woken' \in BOOLEAN
      BY WakeIfDrainedType DEF Finally, CoreTypes, ConnTypeOK
    <1>4. QED
      BY <1>1, <1>2, <1>3 DEF Finally, CoreTypes, ConnTypeOK, GroupsKnown, RequestTypes

LEMMA ReplyType ==
    ASSUME CoreTypes, RequestTypes, NEW d \in Deliveries,
           Reply(d) \/ BufferReply(d) \/ HandlerThrows(d)
    PROVE  CoreTypes' /\ RequestTypes'
    <1>1. Finally(d)
      BY DEF Reply, BufferReply, HandlerThrows
    <1>2. budget' \in 0 .. MaxFaults
      BY SpendType DEF Reply, BufferReply, HandlerThrows, CoreTypes, ConnTypeOK
    <1>3. inbox' \in [Conns -> Seq(Message)]
      <2>1. CASE Reply(d)
        <3>1. d[1] \in Requests /\ active \in Conns
          BY <2>1 DEF Reply, Deliveries, CoreTypes, ConnTypeOK
        <3>2. [kind |-> "REPLY_ACK", req |-> d[1], id |-> NoLease] \in Message
          BY <3>1 DEF Message, NoLease
        <3>3. QED
          BY <2>1, <3>1, <3>2, InboxType DEF Reply, CoreTypes, ConnTypeOK
      <2>2. CASE ~Reply(d)
        BY <2>2 DEF BufferReply, HandlerThrows, CoreTypes, ConnTypeOK
      <2>3. QED
        BY <2>1, <2>2
    <1>4. QED
      BY <1>1, <1>2, <1>3, FinallyType

(* Every step of the worker keeps the types of its core and requests.      *)
LEMMA WorkerStepTypes ==
    ASSUME CoreTypes, RequestTypes, [Next]_vars
    PROVE  CoreTypes' /\ RequestTypes'
    <1>1. CASE UNCHANGED vars
      BY <1>1 DEF vars, connVars, loopVars, requestVars,
                  CoreTypes, ConnTypeOK, GroupsKnown, RequestTypes
    <1>2. CASE Wake /\ UNCHANGED <<requestVars, bufferVars>>
      <2>1. CoreTypes'
        BY <1>2, IterateType DEF Wake
      <2>2. QED
        BY <1>2, <2>1 DEF requestVars, RequestTypes
    <1>3. CASE BeginFinalFlush
      BY <1>3 DEF BeginFinalFlush, connVars, loopVars,
                  CoreTypes, ConnTypeOK, GroupsKnown, RequestTypes
    <1>4. CASE CloseReturns
      BY <1>4 DEF CloseReturns, requestVars, States,
                  CoreTypes, ConnTypeOK, GroupsKnown, RequestTypes
    <1>5. CASE CoreStep
      <2>1. CoreTypes'
        BY <1>5, LoopType, SocketType, TimerType DEF CoreStep
      <2>2. QED
        BY <1>5, <2>1 DEF CoreStep, requestVars, RequestTypes
    <1>6. CASE RequestStep
      <2>1. ASSUME NEW r \in Requests, LeaseExpires(r) \/ Expire(r)
            PROVE  CoreTypes' /\ RequestTypes'
        BY <2>1, LeaseExpiresType
        DEF Expire, connVars, loopVars, requestVars,
            CoreTypes, ConnTypeOK, GroupsKnown, RequestTypes
      <2>2. ASSUME NEW c \in Conns, NEW r \in Requests, RouteRequest(r, c)
            PROVE  CoreTypes' /\ RequestTypes'
        BY <2>2, RouteRequestType
      <2>3. ASSUME NEW c \in Conns, HandleRequest(c) \/ HandleLeaseAck(c)
            PROVE  CoreTypes' /\ RequestTypes'
        BY <2>3, HandleRequestType, HandleLeaseAckType
      <2>4. ASSUME NEW c \in Conns, HandleReplyAck(c)
            PROVE  CoreTypes' /\ RequestTypes'
        <3>1. inbox' \in [Conns -> Seq(Message)]
          BY <2>4, InboxType DEF HandleReplyAck, Receives, Take, CoreTypes, ConnTypeOK
        <3>2. QED
          BY <2>4, <3>1 DEF HandleReplyAck, loopVars, requestVars,
                            CoreTypes, ConnTypeOK, GroupsKnown, RequestTypes
      <2>5. ASSUME NEW c \in Conns, Activate(c)
            PROVE  CoreTypes' /\ RequestTypes'
        BY <2>5, EstablishedType DEF Activate, requestVars, RequestTypes
      <2>6. ASSUME NEW d \in Deliveries,
                   \/ StopExtending(d) \/ ExtendLease(d)
                   \/ Reply(d) \/ BufferReply(d) \/ HandlerThrows(d)
            PROVE  CoreTypes' /\ RequestTypes'
        BY <2>6, ExtendLeaseType, ReplyType
      <2>7. QED
        BY <1>6, <2>1, <2>2, <2>3, <2>4, <2>5, <2>6 DEF RequestStep
    <1>7. CASE FlushStep
      <2>1. budget' \in 0 .. MaxFaults
        BY <1>7, SpendType
        DEF FlushStep, FlushAccepted, FlushRefused, FlushRetries, connVars,
            CoreTypes, ConnTypeOK
      <2>2. QED
        BY <1>7, <2>1
        DEF FlushStep, FlushAccepted, FlushRefused, FlushRetries, connVars,
            loopVars, requestVars, CoreTypes, ConnTypeOK, GroupsKnown, RequestTypes
    <1>8. QED
      BY <1>1, <1>2, <1>3, <1>4, <1>5, <1>6, <1>7 DEF Next

LEMMA InitTypes ==
    ASSUME Init
    PROVE  CoreTypes /\ RequestTypes /\ Buffer!BufferTypeOK
    <1>1. [link |-> "unused", dead |-> FALSE, beats |-> 0, group |-> None] \in Connection
      BY DEF Connection, Links
    <1>2. <<>> \in Seq(Message)
      OBVIOUS
    <1>3. CoreTypes
      <2>1. conns \in [Conns -> Connection] /\ GroupsKnown
        BY <1>1 DEF Init, ConnInit, GroupsKnown
      <2>2. inbox \in [Conns -> Seq(Message)]
        BY <1>2 DEF Init, ConnInit
      <2>3. budget \in 0 .. MaxFaults /\ lease \in [Requests -> Nat]
        BY FaultsAssumption DEF Init, ConnInit, NoLease
      <2>4. QED
        BY <2>1, <2>2, <2>3 DEF Init, ConnInit, CoreTypes, ConnTypeOK, States, Keys
    <1>4. 0 \in 0 .. MaxDeliveries /\ [sent |-> 0, lease |-> 0, held |-> FALSE] \in Route
      BY BoundsAssumption DEF Route
    <1>5. RequestTypes
      BY <1>4 DEF Init, RequestTypes, Stages
    <1>6. Buffer!Idle \in Buffer!Flush
      BY BoundsAssumption DEF Buffer!Idle, Buffer!Flush
    <1>7. Buffer!BufferTypeOK
      BY <1>6 DEF Init, Buffer!BufferInit, Buffer!BufferTypeOK
    <1>8. QED
      BY <1>3, <1>5, <1>7

Types == CoreTypes /\ RequestTypes /\ Buffer!BufferTypeOK

LEMMA TypesHold == Spec => []Types
    <1>1. Init => Types
      BY InitTypes DEF Types
    <1>2. Types /\ [Next]_vars => Types'
      BY WorkerStepTypes, WorkerStepsBuffer, BufferStepType DEF Types
    <1>3. QED
      BY <1>1, <1>2, PTL DEF Spec

-----------------------------------------------------------------------------
(* Every reachable state of the worker is typed, whatever the requests,    *)
(* the gateway groups, the faults and the bounds: no handler writes a      *)
(* slot, a lease, an excluded group or a queued message out of its range   *)
(* (in particular a failed connection always has a group to exclude).      *)
THEOREM WorkerTypeCorrect == Spec => []TypeOK
    <1>1. Types => TypeOK
      BY DEF Types, CoreTypes, RequestTypes, TypeOK
    <1>2. QED
      BY <1>1, TypesHold, PTL

(* The worker implements its buffer's specification: whatever the core and *)
(* the request processor do, responses are put in, acknowledged, expired   *)
(* and flushed only as MessageBuffer allows.                               *)
THEOREM WorkerUsesBuffer == Spec => UsesBuffer
    <1>1. Init => Buffer!BufferInit
      BY DEF Init
    <1>2. Types /\ [Next]_vars => [Buffer!BufferNext]_bufferVars
      BY WorkerStepsBuffer DEF Types
    <1>3. QED
      BY <1>1, <1>2, TypesHold, PTL DEF Spec, UsesBuffer, Buffer!BufferSpec, bufferVars, Buffer!bufferVars

LEMMA BufferKeeps ==
    ASSUME Buffer!BufferTypeOK, [Buffer!BufferNext]_bufferVars
    PROVE  /\ ResponsesHeld => ResponsesHeld'
           /\ PendingHasDeadline => PendingHasDeadline'
    <1> USE DEF ResponsesHeld, PendingHasDeadline,
                Buffer!ResponsesHeld, Buffer!PendingHasDeadline, Buffer!BufferTypeOK
    <1>1. CASE UNCHANGED bufferVars
      BY <1>1 DEF bufferVars
    <1>2. ASSUME NEW r \in Requests, NEW arrives \in BOOLEAN,
                 Buffer!RespondOnSocket(r, arrives) \/ Buffer!RespondToBuffer(r)
          PROVE  /\ ResponsesHeld => ResponsesHeld'
                 /\ PendingHasDeadline => PendingHasDeadline'
      BY <1>2 DEF Buffer!RespondOnSocket, Buffer!AddPending, Buffer!RespondToBuffer
    <1>3. ASSUME NEW r \in Requests, Buffer!AcknowledgePending(r)
          PROVE  /\ ResponsesHeld => ResponsesHeld'
                 /\ PendingHasDeadline => PendingHasDeadline'
      BY <1>3 DEF Buffer!AcknowledgePending
    <1>4. ASSUME NEW r \in Requests, Buffer!Expire(r)
          PROVE  /\ ResponsesHeld => ResponsesHeld'
                 /\ PendingHasDeadline => PendingHasDeadline'
      BY <1>4 DEF Buffer!Expire
    <1>5. ASSUME NEW s \in Slots, NEW r \in Requests, Buffer!FlushAccepted(s, r)
          PROVE  /\ ResponsesHeld => ResponsesHeld'
                 /\ PendingHasDeadline => PendingHasDeadline'
      BY <1>5 DEF Buffer!FlushAccepted
    <1>6. ASSUME NEW s \in Slots,
                 \/ \E k \in Keys : Buffer!StartFlush(s, k)
                 \/ Buffer!FlushRefused(s)
                 \/ Buffer!FlushRetries(s)
          PROVE  /\ ResponsesHeld => ResponsesHeld'
                 /\ PendingHasDeadline => PendingHasDeadline'
      BY <1>6 DEF Buffer!StartFlush, Buffer!FlushRefused, Buffer!FlushRetries
    <1>7. QED
      BY <1>1, <1>2, <1>3, <1>4, <1>5, <1>6 DEF Buffer!BufferNext

(* A response user code produced is never forgotten: acknowledgements,     *)
(* deadlines and any number of overlapping flushes leave it on the server, *)
(* pending or buffered, from the moment it exists.                         *)
THEOREM WorkerHoldsResponses == Spec => []ResponsesHeld
    <1>1. Init => ResponsesHeld
      BY DEF Init, Buffer!BufferInit, ResponsesHeld, Buffer!ResponsesHeld
    <1>2. Types /\ ResponsesHeld /\ [Next]_vars => ResponsesHeld'
      BY WorkerStepsBuffer, BufferKeeps DEF Types
    <1>3. QED
      BY <1>1, <1>2, TypesHold, PTL DEF Spec

(* A response that waits for an acknowledgement always has a deadline      *)
(* running that will buffer it.                                            *)
THEOREM WorkerSetsDeadlines == Spec => []PendingHasDeadline
    <1>1. Init => PendingHasDeadline
      BY DEF Init, Buffer!BufferInit, PendingHasDeadline, Buffer!PendingHasDeadline
    <1>2. Types /\ PendingHasDeadline /\ [Next]_vars => PendingHasDeadline'
      BY WorkerStepsBuffer, BufferKeeps DEF Types
    <1>3. QED
      BY <1>1, <1>2, TypesHold, PTL DEF Spec

-----------------------------------------------------------------------------
(* Leases.                                                                 *)

(* Which steps touch the leases and the handlers at all.                   *)
LEMMA LeaseSteps ==
    ASSUME [Next]_vars
    PROVE  \/ UNCHANGED <<lease, exec>>
           \/ \E c \in Conns : HandleRequest(c) \/ HandleLeaseAck(c)
           \/ \E d \in Deliveries : StopExtending(d) \/ (Executing(d) /\ Finally(d))
    <1>1. CASE UNCHANGED vars \/ BeginFinalFlush \/ CloseReturns
      BY <1>1 DEF vars, connVars, requestVars, BeginFinalFlush, CloseReturns
    <1>2. CASE Wake /\ UNCHANGED <<requestVars, bufferVars>>
      BY <1>2 DEF Wake, Iterate, requestVars
    <1>3. CASE CoreStep
      <2>1. CASE LoopStep
        BY <1>3, <2>1
        DEF CoreStep, LoopStep, Start, BackoffEnds, Iterate, StartFails, StartThrows, StartUnauthorized,
            StartAccepted, HandshakeFails, HandshakeTimesOut, requestVars
      <2>2. CASE SocketStep
        BY <1>3, <2>2
        DEF CoreStep, SocketStep, SocketBreaks, SocketCloses, HandleHeartbeat,
            GatewayDrains, HandleClosing, requestVars
      <2>3. CASE HeartbeatTick \/ RequestShutdown \/ ShutdownDump
        BY <1>3, <2>3
        DEF CoreStep, HeartbeatTick, RequestShutdown, ShutdownDump, Iterate, requestVars
      <2>4. QED
        BY <1>3, <2>1, <2>2, <2>3 DEF CoreStep
    <1>4. CASE RequestStep
      <2>1. ASSUME NEW r \in Requests, LeaseExpires(r) \/ Expire(r)
            PROVE  UNCHANGED <<lease, exec>>
        BY <2>1 DEF LeaseExpires, Expire, connVars, requestVars
      <2>2. ASSUME NEW c \in Conns, NEW r \in Requests, RouteRequest(r, c)
            PROVE  UNCHANGED <<lease, exec>>
        BY <2>2 DEF RouteRequest
      <2>3. ASSUME NEW c \in Conns, HandleReplyAck(c) \/ Activate(c)
            PROVE  UNCHANGED <<lease, exec>>
        BY <2>3 DEF HandleReplyAck, Activate, Established, requestVars
      <2>4. ASSUME NEW d \in Deliveries, ExtendLease(d)
            PROVE  UNCHANGED <<lease, exec>>
        BY <2>4 DEF ExtendLease
      <2>5. ASSUME NEW d \in Deliveries, Reply(d) \/ BufferReply(d) \/ HandlerThrows(d)
            PROVE  Executing(d) /\ Finally(d)
        BY <2>5 DEF Reply, BufferReply, HandlerThrows
      <2>6. QED
        BY <1>4, <2>1, <2>2, <2>3, <2>4, <2>5 DEF RequestStep
    <1>5. CASE FlushStep
      BY <1>5 DEF FlushStep, FlushAccepted, FlushRefused, FlushRetries, connVars, requestVars
    <1>6. QED
      BY <1>1, <1>2, <1>3, <1>4, <1>5 DEF Next

LEMMA GhostStep ==
    ASSUME Types, NoGhostLease, [Next]_vars
    PROVE  NoGhostLease'
    <1> USE DEF NoGhostLease, Executing
    <1>1. CASE UNCHANGED <<lease, exec>>
      BY <1>1
    <1>2. ASSUME NEW c \in Conns, HandleRequest(c)
          PROVE  NoGhostLease'
      <2> DEFINE m == Head(inbox[c])
      <2>1. CASE state # "ACTIVE"
        BY <1>2, <2>1 DEF HandleRequest
      <2>2. CASE state = "ACTIVE"
        <3>1. PICK n \in 1 .. MaxDeliveries :
                exec' = [exec EXCEPT ![<<m.req, n>>] = [stage |-> "ticking", conn |-> c]]
          BY <1>2, <2>2 DEF HandleRequest
        <3>2. m.req \in Requests
          BY <1>2, InboxType, MessageFields
          DEF HandleRequest, Receives, Types, CoreTypes, ConnTypeOK
        <3>3. <<m.req, n>> \in Deliveries
          BY <3>2 DEF Deliveries
        <3>4. exec'[<<m.req, n>>].stage = "ticking"
          BY <3>1, <3>3 DEF Types, RequestTypes
        <3>5. \A d \in Deliveries : Executing(d) => exec'[d].stage \in {"ticking", "detached"}
          BY <3>1, <3>3 DEF Types, RequestTypes
        <3>6. \A r \in Requests \ {m.req} : lease'[r] = lease[r]
          BY <1>2, <2>2 DEF HandleRequest, Types, CoreTypes, ConnTypeOK
        <3>7. QED
          BY <3>2, <3>4, <3>5, <3>6 DEF Deliveries
      <2>3. QED
        BY <2>1, <2>2
    <1>3. ASSUME NEW c \in Conns, HandleLeaseAck(c)
          PROVE  NoGhostLease'
      <2>1. \A r \in Requests : lease'[r] # NoLease => lease[r] # NoLease
        BY <1>3 DEF HandleLeaseAck, HasLease, Types, CoreTypes, ConnTypeOK
      <2>2. QED
        BY <1>3, <2>1 DEF HandleLeaseAck
    <1>4. ASSUME NEW d \in Deliveries, StopExtending(d)
          PROVE  NoGhostLease'
      <2>1. \A e \in Deliveries : Executing(e) => exec'[e].stage \in {"ticking", "detached"}
        BY <1>4 DEF StopExtending, Types, RequestTypes
      <2>2. lease' = lease
        BY <1>4 DEF StopExtending, connVars
      <2>3. QED
        BY <2>1, <2>2 DEF Deliveries
    <1>5. ASSUME NEW d \in Deliveries, Finally(d)
          PROVE  NoGhostLease'
      <2>1. \A e \in Deliveries \ {d} : exec'[e] = exec[e]
        BY <1>5 DEF Finally, Types, RequestTypes
      <2>2. /\ lease'[d[1]] = NoLease
            /\ \A r \in Requests \ {d[1]} : lease'[r] = lease[r]
        BY <1>5 DEF Finally, Types, CoreTypes, ConnTypeOK, Deliveries
      <2>3. ASSUME NEW r \in Requests, lease'[r] # NoLease
            PROVE  \E n \in 1 .. MaxDeliveries : exec'[<<r, n>>].stage \in {"ticking", "detached"}
        <3>1. r # d[1] /\ lease[r] # NoLease
          BY <2>2, <2>3
        <3>2. PICK n \in 1 .. MaxDeliveries : Executing(<<r, n>>)
          BY <3>1
        <3>3. <<r, n>> \in Deliveries \ {d}
          BY <3>1 DEF Deliveries
        <3>4. QED
          BY <2>1, <3>2, <3>3
      <2>4. QED
        BY <2>3
    <1>6. QED
      BY <1>1, <1>2, <1>3, <1>4, <1>5, LeaseSteps

(* Only running work is in flight: a late or repeated lease answer never   *)
(* revives a lease whose handler is over, so it cannot hold up a shutdown. *)
THEOREM WorkerHasNoGhostLease == Spec => []NoGhostLease
    <1>1. Init => NoGhostLease
      BY DEF Init, ConnInit, NoGhostLease
    <1>2. Types /\ NoGhostLease /\ [Next]_vars => NoGhostLease'
      BY GhostStep
    <1>3. QED
      BY <1>1, <1>2, TypesHold, PTL DEF Spec

-----------------------------------------------------------------------------
(* Wake-ups.  A loop that establishes a connection parks on it, so that    *)
(* connection must be alive, and what happened meanwhile must have left a  *)
(* wake-up behind.                                                         *)

Fresh ==
    \A c \in Conns : conns[c].link \in {"unused", "handshaking"} => ~conns[c].dead

ShutdownSeen ==
    shutdown => /\ state \in {"CLOSING", "CLOSED"}
                /\ loop \in {"idle", "exited"} \/ woken \/ InFlight

WakeInv == NoLostWake /\ Fresh /\ ShutdownSeen

LEMMA IterateWakes ==
    ASSUME CoreTypes, WakeInv, Iterate
    PROVE  WakeInv'
    <1>1. InFlight' = InFlight
      BY DEF Iterate, InFlight
    <1>2. CASE Teardown
      <2>1. Fresh'
        <3>1. \A d \in Conns : conns'[d] = conns[d] \/ conns'[d].link = "closed"
          BY <1>2, CloseAllType DEF Teardown
        <3>2. QED
          BY <3>1 DEF WakeInv, Fresh
      <2>2. QED
        BY <1>2, <2>1 DEF Teardown, Iterate, WakeInv, NoLostWake, ShutdownSeen
    <1>3. CASE BeginConnecting
      BY <1>1, <1>3 DEF BeginConnecting, StateChange, Iterate, WakeInv, NoLostWake, Fresh, ShutdownSeen
    <1>4. CASE Park
      BY <1>1, <1>4 DEF Park, Iterate, WakeInv, NoLostWake, Fresh, ShutdownSeen, Live
    <1>5. QED
      BY <1>2, <1>3, <1>4 DEF Iterate

LEMMA LoopWakes ==
    ASSUME CoreTypes, WakeInv, LoopStep
    PROVE  WakeInv'
    <1>1. CASE Start \/ BackoffEnds
      BY <1>1, IterateWakes DEF Start, BackoffEnds
    <1>2. CASE StartFails \/ StartThrows \/ StartUnauthorized
      BY <1>2 DEF StartFails, StartThrows, StartUnauthorized,
                  WakeInv, NoLostWake, Fresh, ShutdownSeen, InFlight
    <1>3. ASSUME NEW c \in Conns,
                 StartAccepted(c) \/ HandshakeFails(c) \/ HandshakeTimesOut(c)
          PROVE  WakeInv'
      <2>1. \A d \in Conns : conns'[d].dead = conns[d].dead /\ (d # c => conns'[d] = conns[d])
        BY <1>3 DEF StartAccepted, HandshakeFails, HandshakeTimesOut,
                    CoreTypes, ConnTypeOK, Connection
      <2>2. Fresh'
        BY <1>3, <2>1 DEF StartAccepted, HandshakeFails, HandshakeTimesOut, WakeInv, Fresh
      <2>3. QED
        BY <1>3, <2>2 DEF StartAccepted, HandshakeFails, HandshakeTimesOut,
                          WakeInv, NoLostWake, ShutdownSeen, InFlight
    <1>4. QED
      BY <1>1, <1>2, <1>3 DEF LoopStep

LEMMA SocketWakes ==
    ASSUME CoreTypes, WakeInv, SocketStep
    PROVE  WakeInv'
    <1> PICK c \in Conns : \/ SocketBreaks(c) \/ SocketCloses(c)
                           \/ HandleHeartbeat(c)
                           \/ GatewayDrains(c) \/ HandleClosing(c)
      BY DEF SocketStep
    <1>1. CASE SocketBreaks(c) \/ HandleHeartbeat(c) \/ GatewayDrains(c)
      <2>1. \A d \in Conns : /\ conns'[d].dead = conns[d].dead
                             /\ conns'[d].link \in {conns[d].link, "broken"}
        <3>1. \/ conns' = [conns EXCEPT ![c].link = "broken"]
              \/ conns' = [conns EXCEPT ![c].beats = 0]
              \/ conns' = conns
          BY <1>1 DEF SocketBreaks, HandleHeartbeat, GatewayDrains
        <3>2. CASE conns' = [conns EXCEPT ![c].link = "broken"]
          BY <3>2 DEF CoreTypes, ConnTypeOK, Connection
        <3>3. CASE conns' = [conns EXCEPT ![c].beats = 0]
          BY <3>3 DEF CoreTypes, ConnTypeOK, Connection
        <3>4. CASE conns' = conns
          BY <3>4
        <3>5. QED
          BY <3>1, <3>2, <3>3, <3>4
      <2>2. Fresh'
        BY <2>1 DEF WakeInv, Fresh
      <2>3. UNCHANGED <<loopVars, lease>>
        BY <1>1 DEF SocketBreaks, HandleHeartbeat, GatewayDrains
      <2>4. Live(active)' = Live(active)
        BY <2>1, <2>3 DEF Live, loopVars, CoreTypes, ConnTypeOK
      <2>5. QED
        BY <2>2, <2>3, <2>4 DEF loopVars, WakeInv, NoLostWake, ShutdownSeen, InFlight
    <1>2. CASE SocketCloses(c)
      <2>1. \A d \in Conns : d # c => conns'[d] = conns[d]
        BY <1>2 DEF SocketCloses, CoreTypes, ConnTypeOK
      <2> DEFINE closed == [conns EXCEPT ![c].link = "closed"]
      <2>2. closed \in [Conns -> Connection] /\ closed[c].link = "closed"
        BY DEF CoreTypes, ConnTypeOK, Connection, Links
      <2> HIDE DEF closed
      <2>3. conns' = [closed EXCEPT ![c].dead = TRUE]
        BY <1>2 DEF SocketCloses, closed
      <2>4. conns'[c].link = "closed" /\ conns'[c].dead
        BY <2>2, <2>3 DEF Connection
      <2>5. Fresh'
        BY <2>1, <2>4 DEF WakeInv, Fresh
      <2>6. CASE conns[c].dead
        <3>1. UNCHANGED <<active, woken, loop, shutdown, state, lease>>
          BY <1>2, <2>6 DEF SocketCloses
        <3>2. Live(active)' = Live(active)
          BY <2>1, <2>4, <2>6, <3>1 DEF Live, CoreTypes, ConnTypeOK
        <3>3. QED
          BY <2>5, <3>1, <3>2 DEF WakeInv, NoLostWake, ShutdownSeen, InFlight
      <2>7. CASE ~conns[c].dead
        BY <1>2, <2>5, <2>7 DEF SocketCloses, WakeInv, NoLostWake, ShutdownSeen
      <2>8. QED
        BY <2>6, <2>7
    <1>3. CASE HandleClosing(c)
      BY <1>3 DEF HandleClosing, WakeInv, NoLostWake, Fresh, ShutdownSeen
    <1>4. QED
      BY <1>1, <1>2, <1>3

LEMMA TimerWakes ==
    ASSUME CoreTypes, WakeInv, HeartbeatTick \/ RequestShutdown \/ ShutdownDump
    PROVE  WakeInv'
    <1>1. CASE HeartbeatTick
      <2>1. active \in Conns /\ conns[active].link \in {"open", "broken"}
        BY <1>1 DEF HeartbeatTick, ReadyStateOpen, CoreTypes, ConnTypeOK
      <2>2. \A d \in Conns : /\ conns'[d].link = conns[d].link
                             /\ d # active => conns'[d] = conns[d]
        BY <1>1, <2>1 DEF HeartbeatTick, CoreTypes, ConnTypeOK, Connection
      <2>3. Fresh'
        BY <2>1, <2>2 DEF WakeInv, Fresh
      <2>4. CASE conns[active].beats < 2
        <3>1. conns'[active].dead = conns[active].dead
          BY <1>1, <2>1, <2>4 DEF HeartbeatTick, CoreTypes, ConnTypeOK, Connection
        <3>2. UNCHANGED <<active, woken, loop, shutdown, state, lease>>
          BY <1>1, <2>4 DEF HeartbeatTick
        <3>3. QED
          BY <2>3, <3>1, <3>2 DEF WakeInv, NoLostWake, ShutdownSeen, InFlight, Live
      <2>5. CASE ~(conns[active].beats < 2)
        BY <1>1, <2>3, <2>5 DEF HeartbeatTick, WakeInv, NoLostWake, ShutdownSeen
      <2>6. QED
        BY <2>4, <2>5
    <1>2. CASE RequestShutdown
      BY <1>2 DEF RequestShutdown, WakeInv, NoLostWake, Fresh, ShutdownSeen
    <1>3. CASE ShutdownDump
      <2>1. CASE loop = "parked"
        BY <1>3, <2>1, IterateWakes DEF ShutdownDump
      <2>2. CASE loop # "parked"
        BY <1>3, <2>2 DEF ShutdownDump, WakeInv, NoLostWake, Fresh, ShutdownSeen
      <2>3. QED
        BY <2>1, <2>2
    <1>4. QED
      BY <1>1, <1>2, <1>3

LEMMA EstablishedWakes ==
    ASSUME CoreTypes, WakeInv, NEW c \in Conns, Established(c)
    PROVE  WakeInv'
    <1>1. c # None
      BY NoneAssumption, FaultsAssumption DEF Conns
    <1>2. /\ ~conns'[c].dead
          /\ conns'[c].link = "open"
      BY DEF Established, CoreTypes, ConnTypeOK, Connection, WakeInv, Fresh
    <1>3. Fresh'
      <2>1. \A d \in Conns \ {c} : conns'[d] = conns[d] \/ conns'[d].link = "closed"
        BY DEF Established, CoreTypes, ConnTypeOK, Connection
      <2>2. QED
        BY <1>2, <2>1 DEF WakeInv, Fresh
    <1>4. Live(active)'
      BY <1>1, <1>2 DEF Established, Live
    <1>5. /\ UNCHANGED <<woken, shutdown, lease>>
          /\ loop = "handshake" /\ loop' = "parked"
          /\ state \in {"CLOSING", "CLOSED"} => state' = state
      BY DEF Established, StateChange
    <1>6. QED
      BY <1>3, <1>4, <1>5 DEF WakeInv, NoLostWake, ShutdownSeen, InFlight

(* A request that is over wakes the loop when it was the last one.         *)
LEMMA DrainedWakes ==
    ASSUME CoreTypes, WakeInv, WakeIfDrained(lease'),
           UNCHANGED <<loop, shutdown, state, active, conns>>
    PROVE  WakeInv'
    <1>1. shutdown /\ ~InFlight' => woken'
      BY DEF WakeIfDrained, InFlight
    <1>2. woken => woken'
      BY DEF WakeIfDrained, CoreTypes, ConnTypeOK
    <1>3. Live(active)' = Live(active) /\ Fresh'
      BY DEF Live, WakeInv, Fresh
    <1>4. QED
      BY <1>1, <1>2, <1>3 DEF WakeInv, NoLostWake, ShutdownSeen

LEMMA WakeStep ==
    ASSUME Types, WakeInv, [Next]_vars
    PROVE  WakeInv'
    <1> CoreTypes
      BY DEF Types
    <1>1. CASE UNCHANGED <<loop, woken, shutdown, state, active, conns, lease>>
      BY <1>1 DEF WakeInv, NoLostWake, Fresh, ShutdownSeen, Live, InFlight
    <1>2. CASE Wake
      BY <1>2, IterateWakes DEF Wake
    <1>3. CASE CloseReturns
      BY <1>3 DEF CloseReturns, CloseDue, WakeInv, NoLostWake, Fresh, ShutdownSeen, Live, InFlight
    <1>4. CASE CoreStep
      BY <1>4, LoopWakes, SocketWakes, TimerWakes DEF CoreStep
    <1>5. ASSUME NEW c \in Conns, Activate(c)
          PROVE  WakeInv'
      BY <1>5, EstablishedWakes DEF Activate
    <1>6. ASSUME NEW c \in Conns, HandleRequest(c)
          PROVE  WakeInv'
      <2>1. shutdown => UNCHANGED lease
        BY <1>6 DEF HandleRequest, WakeInv, ShutdownSeen
      <2>2. UNCHANGED <<loopVars, conns>>
        BY <1>6 DEF HandleRequest
      <2>3. QED
        BY <2>1, <2>2 DEF loopVars, WakeInv, NoLostWake, Fresh, ShutdownSeen, Live, InFlight
    <1>7. ASSUME NEW c \in Conns, HandleLeaseAck(c)
          PROVE  WakeInv'
      <2> DEFINE m == Head(inbox[c])
      <2>1. UNCHANGED <<loop, shutdown, state, active, conns>>
        BY <1>7 DEF HandleLeaseAck
      <2>2. CASE ~HasLease(m.req)
        BY <1>1, <1>7, <2>2 DEF HandleLeaseAck
      <2>3. CASE HasLease(m.req) /\ m.id = NoLease
        <3>1. WakeIfDrained(lease')
          BY <1>7, <2>3 DEF HandleLeaseAck
        <3>2. QED
          BY <2>1, <3>1, DrainedWakes
      <2>4. CASE HasLease(m.req) /\ m.id # NoLease
        <3>1. m.req \in Requests
          BY <1>7, InboxType, MessageFields
          DEF HandleLeaseAck, Receives, CoreTypes, ConnTypeOK
        <3>2. UNCHANGED woken /\ InFlight'
          BY <1>7, <2>4, <3>1 DEF HandleLeaseAck, InFlight, CoreTypes, ConnTypeOK
        <3>3. QED
          BY <2>1, <3>2 DEF WakeInv, NoLostWake, Fresh, ShutdownSeen, Live
      <2>5. QED
        BY <2>2, <2>3, <2>4
    <1>8. ASSUME NEW d \in Deliveries, Finally(d)
          PROVE  WakeInv'
      BY <1>8, DrainedWakes DEF Finally
    <1>9. ASSUME NEW d \in Deliveries, StopExtending(d) \/ ExtendLease(d)
          PROVE  WakeInv'
      BY <1>1, <1>9 DEF StopExtending, ExtendLease, connVars, loopVars
    <1>10. ASSUME NEW r \in Requests, LeaseExpires(r) \/ Expire(r)
           PROVE  WakeInv'
      BY <1>1, <1>10 DEF LeaseExpires, Expire, connVars, loopVars
    <1>11. ASSUME NEW c \in Conns,
                  HandleReplyAck(c) \/ \E r \in Requests : RouteRequest(r, c)
           PROVE  WakeInv'
      BY <1>1, <1>11 DEF HandleReplyAck, RouteRequest, loopVars
    <1>12. CASE RequestStep
      <2>1. ASSUME NEW d \in Deliveries, Reply(d) \/ BufferReply(d) \/ HandlerThrows(d)
            PROVE  Finally(d)
        BY <2>1 DEF Reply, BufferReply, HandlerThrows
      <2>2. QED
        BY <1>5, <1>6, <1>7, <1>8, <1>9, <1>10, <1>11, <1>12, <2>1 DEF RequestStep
    <1>13. CASE FlushStep
      BY <1>1, <1>13
      DEF FlushStep, FlushAccepted, FlushRefused, FlushRetries, connVars, loopVars
    <1>14. CASE BeginFinalFlush \/ UNCHANGED vars
      BY <1>1, <1>14 DEF BeginFinalFlush, vars, connVars, loopVars
    <1>15. QED
      BY <1>2, <1>3, <1>4, <1>12, <1>13, <1>14 DEF Next

(* No wake-up is lost: a parked loop with no live connection, or with a    *)
(* shutdown and nothing in flight, has been woken, also when the cause     *)
(* arose during a handshake or a backoff.                                  *)
THEOREM WorkerLosesNoWake == Spec => []NoLostWake
    <1>1. Init => WakeInv
      BY DEF Init, ConnInit, WakeInv, NoLostWake, Fresh, ShutdownSeen
    <1>2. Types /\ WakeInv /\ [Next]_vars => WakeInv'
      BY WakeStep
    <1>3. WakeInv => NoLostWake
      BY DEF WakeInv
    <1>4. QED
      BY <1>1, <1>2, <1>3, TypesHold, PTL DEF Spec

-----------------------------------------------------------------------------
(* The states a user sees.                                                 *)

StateInv ==
    /\ state = "CONNECTING" => ~connected
    /\ state \in {"ACTIVE", "RECONNECTING"} => connected

LEMMA IterateStates ==
    ASSUME CoreTypes, StateInv, Iterate
    PROVE  StateInv' /\ (state' # state => <<state, state'>> \in Documented)
    BY DEF StateInv, Documented, Iterate, Teardown, BeginConnecting, Park, StateChange,
           CoreTypes, ConnTypeOK, States

LEMMA StateStep ==
    ASSUME Types, StateInv, [Next]_vars
    PROVE  StateInv' /\ (state' # state => <<state, state'>> \in Documented)
    <1> CoreTypes
      BY DEF Types
    <1>1. CASE UNCHANGED <<state, connected>>
      BY <1>1 DEF StateInv
    <1>2. CASE Iterate
      BY <1>2, IterateStates
    <1>3. ASSUME NEW c \in Conns, Activate(c)
          PROVE  StateInv' /\ (state' # state => <<state, state'>> \in Documented)
      BY <1>3 DEF Activate, Established, StateChange, StateInv, Documented,
                  CoreTypes, ConnTypeOK, States
    <1>4. CASE RequestShutdown \/ CloseReturns
      BY <1>4 DEF RequestShutdown, CloseReturns, CloseDue, StateInv, Documented,
                  CoreTypes, ConnTypeOK, States
    <1>5. CASE CoreStep
      <2>1. CASE LoopStep
        BY <1>1, <1>2, <2>1
        DEF LoopStep, Start, BackoffEnds, StartFails, StartThrows, StartUnauthorized,
            StartAccepted, HandshakeFails, HandshakeTimesOut
      <2>2. CASE SocketStep
        BY <1>1, <2>2
        DEF SocketStep, SocketBreaks, SocketCloses, HandleHeartbeat,
            GatewayDrains, HandleClosing, loopVars
      <2>3. CASE HeartbeatTick
        BY <1>1, <2>3 DEF HeartbeatTick
      <2>4. CASE ShutdownDump
        BY <1>1, <1>2, <2>4 DEF ShutdownDump
      <2>5. QED
        BY <1>4, <1>5, <2>1, <2>2, <2>3, <2>4 DEF CoreStep
    <1>6. CASE RequestStep
      <2>1. ASSUME NEW r \in Requests, LeaseExpires(r) \/ Expire(r)
            PROVE  UNCHANGED <<state, connected>>
        BY <2>1 DEF LeaseExpires, Expire, connVars, loopVars
      <2>2. ASSUME NEW c \in Conns,
                   \/ \E r \in Requests : RouteRequest(r, c)
                   \/ HandleRequest(c) \/ HandleLeaseAck(c) \/ HandleReplyAck(c)
            PROVE  UNCHANGED <<state, connected>>
        BY <2>2 DEF RouteRequest, HandleRequest, HandleLeaseAck, HandleReplyAck, loopVars
      <2>3. ASSUME NEW d \in Deliveries, StopExtending(d) \/ ExtendLease(d)
            PROVE  UNCHANGED <<state, connected>>
        BY <2>3 DEF StopExtending, ExtendLease, connVars, loopVars
      <2>4. ASSUME NEW d \in Deliveries, Reply(d) \/ BufferReply(d) \/ HandlerThrows(d)
            PROVE  UNCHANGED <<state, connected>>
        BY <2>4 DEF Reply, BufferReply, HandlerThrows, Finally
      <2>5. QED
        BY <1>1, <1>3, <1>6, <2>1, <2>2, <2>3, <2>4 DEF RequestStep
    <1>7. CASE FlushStep
      BY <1>1, <1>7
      DEF FlushStep, FlushAccepted, FlushRefused, FlushRetries, connVars, loopVars
    <1>8. CASE BeginFinalFlush \/ UNCHANGED vars
      BY <1>1, <1>8 DEF BeginFinalFlush, vars, connVars, loopVars
    <1>9. CASE Wake
      BY <1>2, <1>9 DEF Wake
    <1>10. QED
      BY <1>4, <1>5, <1>6, <1>7, <1>8, <1>9 DEF Next

(* The states follow the documented diagram and a shutdown is final: the   *)
(* reconnects the loop makes while it waits for requests leave CLOSING     *)
(* alone.                                                                  *)
THEOREM WorkerLifecycle == Spec => Lifecycle
    <1>1. Init => StateInv
      BY DEF Init, ConnInit, StateInv
    <1>2. Types /\ StateInv /\ [Next]_vars => StateInv'
      BY StateStep
    <1>3. Types /\ StateInv /\ [Next]_vars => [(<<state, state'>> \in Documented)]_state
      BY StateStep
    <1>4. QED
      BY <1>1, <1>2, <1>3, TypesHold, PTL DEF Spec, Lifecycle

-----------------------------------------------------------------------------
(* What an ACTIVE worker has, and what a closing one has said.             *)

ActiveParked == state = "ACTIVE" => loop = "parked"

PromiseInv == ActiveParked /\ PausedOnShutdown

LEMMA IteratePromises ==
    ASSUME CoreTypes, WakeInv, PromiseInv, Iterate
    PROVE  PromiseInv'
    <1>1. CASE Teardown
      BY <1>1 DEF Teardown, Iterate, WakeInv, ShutdownSeen,
                  PromiseInv, ActiveParked, PausedOnShutdown
    <1>2. CASE BeginConnecting
      BY <1>2 DEF BeginConnecting, StateChange, Iterate,
                  PromiseInv, ActiveParked, PausedOnShutdown
    <1>3. CASE Park
      BY <1>3 DEF Park, Iterate, PromiseInv, ActiveParked, PausedOnShutdown
    <1>4. QED
      BY <1>1, <1>2, <1>3 DEF Iterate

LEMMA EstablishedPromises ==
    ASSUME CoreTypes, NEW c \in Conns, Established(c)
    PROVE  PromiseInv'
    <1>1. loop' = "parked" /\ active' = c /\ shutdown' = shutdown
      BY DEF Established
    <1>2. gateway'[c] = Announced
      BY DEF Established
    <1>3. QED
      BY <1>1, <1>2 DEF Announced, PromiseInv, ActiveParked, PausedOnShutdown

LEMMA SocketPromises ==
    ASSUME CoreTypes, PromiseInv, SocketStep
    PROVE  PromiseInv'
    <1> PICK c \in Conns : \/ SocketBreaks(c) \/ SocketCloses(c)
                           \/ HandleHeartbeat(c)
                           \/ GatewayDrains(c) \/ HandleClosing(c)
      BY DEF SocketStep
    <1>1. UNCHANGED <<loop, shutdown, state>> /\ active' \in {active, None}
      BY DEF SocketBreaks, SocketCloses, HandleHeartbeat, GatewayDrains, HandleClosing, loopVars
    <1>2. \A d \in Conns : gateway'[d] = "ready" => gateway[d] = "ready"
      BY DEF SocketBreaks, SocketCloses, HandleHeartbeat, GatewayDrains, HandleClosing,
             CoreTypes, ConnTypeOK
    <1>3. QED
      BY <1>1, <1>2 DEF PromiseInv, ActiveParked, PausedOnShutdown, CoreTypes, ConnTypeOK

LEMMA PromiseStep ==
    ASSUME Types, WakeInv, PromiseInv, [Next]_vars
    PROVE  PromiseInv'
    <1> CoreTypes
      BY DEF Types
    <1>1. CASE UNCHANGED <<loop, shutdown, state, active, gateway>>
      BY <1>1 DEF PromiseInv, ActiveParked, PausedOnShutdown
    <1>2. CASE Iterate
      BY <1>2, IteratePromises
    <1>3. ASSUME NEW c \in Conns, Activate(c)
          PROVE  PromiseInv'
      BY <1>3, EstablishedPromises DEF Activate
    <1>4. CASE RequestShutdown
      BY <1>4 DEF RequestShutdown, PromiseInv, ActiveParked, PausedOnShutdown,
                  CoreTypes, ConnTypeOK
    <1>5. CASE CloseReturns
      BY <1>5 DEF CloseReturns, PromiseInv, ActiveParked, PausedOnShutdown
    <1>6. CASE CoreStep
      <2>1. CASE LoopStep
        <3>1. ASSUME StartFails \/ StartThrows \/ StartUnauthorized
                       \/ \E c \in Conns : \/ StartAccepted(c)
                                           \/ HandshakeFails(c)
                                           \/ HandshakeTimesOut(c)
              PROVE  PromiseInv'
          <4>1. loop # "parked" /\ UNCHANGED <<shutdown, state, active, gateway>>
            BY <3>1 DEF StartFails, StartThrows, StartUnauthorized, StartAccepted, HandshakeFails,
                        HandshakeTimesOut
          <4>2. QED
            BY <4>1 DEF PromiseInv, ActiveParked, PausedOnShutdown
        <3>2. QED
          BY <1>2, <2>1, <3>1 DEF LoopStep, Start, BackoffEnds
      <2>2. CASE SocketStep
        BY <2>2, SocketPromises
      <2>3. CASE HeartbeatTick
        BY <1>1, <2>3 DEF HeartbeatTick
      <2>4. CASE ShutdownDump
        BY <1>1, <1>2, <2>4 DEF ShutdownDump
      <2>5. QED
        BY <1>4, <1>6, <2>1, <2>2, <2>3, <2>4 DEF CoreStep
    <1>7. CASE RequestStep
      <2>1. ASSUME NEW r \in Requests, LeaseExpires(r) \/ Expire(r)
            PROVE  UNCHANGED <<loop, shutdown, state, active, gateway>>
        BY <2>1 DEF LeaseExpires, Expire, connVars, loopVars
      <2>2. ASSUME NEW c \in Conns,
                   \/ \E r \in Requests : RouteRequest(r, c)
                   \/ HandleRequest(c) \/ HandleLeaseAck(c) \/ HandleReplyAck(c)
            PROVE  UNCHANGED <<loop, shutdown, state, active, gateway>>
        BY <2>2 DEF RouteRequest, HandleRequest, HandleLeaseAck, HandleReplyAck, loopVars
      <2>3. ASSUME NEW d \in Deliveries, StopExtending(d) \/ ExtendLease(d)
            PROVE  UNCHANGED <<loop, shutdown, state, active, gateway>>
        BY <2>3 DEF StopExtending, ExtendLease, connVars, loopVars
      <2>4. ASSUME NEW d \in Deliveries, Reply(d) \/ BufferReply(d) \/ HandlerThrows(d)
            PROVE  UNCHANGED <<loop, shutdown, state, active, gateway>>
        BY <2>4 DEF Reply, BufferReply, HandlerThrows, Finally
      <2>5. QED
        BY <1>1, <1>3, <1>7, <2>1, <2>2, <2>3, <2>4 DEF RequestStep
    <1>8. CASE FlushStep
      BY <1>1, <1>8
      DEF FlushStep, FlushAccepted, FlushRefused, FlushRetries, connVars, loopVars
    <1>9. CASE BeginFinalFlush \/ UNCHANGED vars
      BY <1>1, <1>9 DEF BeginFinalFlush, vars, connVars, loopVars
    <1>10. CASE Wake
      BY <1>2, <1>10 DEF Wake
    <1>11. QED
      BY <1>5, <1>6, <1>7, <1>8, <1>9, <1>10 DEF Next

LEMMA PromisesHold == Spec => [](WakeInv /\ PromiseInv)
    <1>1. Init => WakeInv /\ PromiseInv
      BY DEF Init, ConnInit, WakeInv, NoLostWake, Fresh, ShutdownSeen,
             PromiseInv, ActiveParked, PausedOnShutdown
    <1>2. Types /\ WakeInv /\ PromiseInv /\ [Next]_vars => WakeInv' /\ PromiseInv'
      BY WakeStep, PromiseStep
    <1>3. QED
      BY <1>1, <1>2, TypesHold, PTL DEF Spec

(* A worker that says it is ACTIVE has a live connection, once the loop    *)
(* has had its turn: only a parked loop is ACTIVE, and it is woken when    *)
(* its connection dies.                                                    *)
THEOREM WorkerActiveIsLive == Spec => []ActiveMeansLive
    <1>1. WakeInv /\ PromiseInv => ActiveMeansLive
      BY DEF WakeInv, PromiseInv, ActiveParked, NoLostWake, ShutdownSeen,
             ActiveMeansLive, Settled
    <1>2. QED
      BY <1>1, PromisesHold, PTL

(* A closing worker takes no new work: the gateway of its active           *)
(* connection has been told to pause, by close() or by the handshake.      *)
THEOREM WorkerPausesOnShutdown == Spec => []PausedOnShutdown
    <1>1. PromiseInv => PausedOnShutdown
      BY DEF PromiseInv
    <1>2. QED
      BY <1>1, PromisesHold, PTL

-----------------------------------------------------------------------------
(* A shutdown waits.  A request that reached the worker once has one       *)
(* handler, which no other handler's end can take the lease of.            *)

Started(r, n) == exec[<<r, n>>].stage # "none"

Asks(r, c, i) ==
    i \in DOMAIN inbox[c] /\ inbox[c][i].kind = "REQUEST" /\ inbox[c][i].req = r

(* Request messages carry a lease.                                         *)
AsksLeased ==
    \A c \in Conns : \A i \in DOMAIN inbox[c] :
        inbox[c][i].kind = "REQUEST" => inbox[c][i].id # NoLease

Unsent(r) ==
    /\ \A c \in Conns, i \in Nat : ~Asks(r, c, i)
    /\ \A n \in 1 .. MaxDeliveries : ~Started(r, n)

(* It is under way on one socket, or one handler has begun.                *)
OnWay(r) ==
    /\ \A c, e \in Conns : \A i, j \in Nat :
          Asks(r, c, i) /\ Asks(r, e, j) => c = e /\ i = j
    /\ \A n \in 1 .. MaxDeliveries : ~Started(r, n)

Begun(r) ==
    /\ \A c \in Conns, i \in Nat : ~Asks(r, c, i)
    /\ \A n, k \in 1 .. MaxDeliveries : Started(r, n) /\ Started(r, k) => n = k

SentOnce ==
    \A r \in Requests : /\ route[r].sent = 0 => Unsent(r)
                        /\ route[r].sent = 1 => OnWay(r) \/ Begun(r)

Excused(r) == r \in lost \/ route[r].sent > 1

ExecLeased ==
    \A r \in Requests, n \in 1 .. MaxDeliveries :
        Executing(<<r, n>>) => lease[r] # NoLease \/ Excused(r)

ExitedIdle == loop = "exited" => \A r \in Requests : lease[r] = NoLease

(* Request messages only move towards the head of their inbox, or go.      *)
InboxKept ==
    \A c \in Conns : \E k \in Nat : \A i \in DOMAIN inbox'[c] :
        inbox'[c][i].kind = "REQUEST" =>
            i + k \in DOMAIN inbox[c] /\ inbox'[c][i] = inbox[c][i + k]

LEMMA KeptOthers ==
    ASSUME CoreTypes, NEW c \in Conns, NEW s \in Seq(Message), NEW k \in Nat,
           inbox' = [inbox EXCEPT ![c] = s],
           \A i \in DOMAIN s : s[i].kind = "REQUEST" =>
               i + k \in DOMAIN inbox[c] /\ s[i] = inbox[c][i + k]
    PROVE  InboxKept
    <1>1. inbox'[c] = s /\ \A d \in Conns \ {c} : inbox'[d] = inbox[d]
      BY DEF CoreTypes, ConnTypeOK
    <1>2. ASSUME NEW d \in Conns
          PROVE  \E h \in Nat : \A i \in DOMAIN inbox'[d] :
                    inbox'[d][i].kind = "REQUEST" =>
                        i + h \in DOMAIN inbox[d] /\ inbox'[d][i] = inbox[d][i + h]
      <2>1. CASE d = c
        <3>1. \A i \in DOMAIN inbox'[d] :
                 inbox'[d][i].kind = "REQUEST" =>
                    i + k \in DOMAIN inbox[d] /\ inbox'[d][i] = inbox[d][i + k]
          BY <1>1, <2>1
        <3>2. k \in Nat
          OBVIOUS
        <3>3. QED
          BY ONLY <3>1, <3>2, Zenon
      <2>2. CASE d # c
        <3>1. inbox'[d] = inbox[d] /\ inbox[d] \in Seq(Message)
          BY <1>1, <2>2 DEF CoreTypes, ConnTypeOK
        <3>2. \A i \in DOMAIN inbox[d] : i + 0 = i
          BY <3>1
        <3>3. \A i \in DOMAIN inbox'[d] :
                 i + 0 \in DOMAIN inbox[d] /\ inbox'[d][i] = inbox[d][i + 0]
          BY <3>1, <3>2
        <3>4. 0 \in Nat
          OBVIOUS
        <3>5. QED
          BY ONLY <3>3, <3>4, Zenon
      <2>3. QED
        BY <2>1, <2>2
    <1>3. QED
      BY <1>2 DEF InboxKept

LEMMA KeptTail ==
    ASSUME CoreTypes, NEW c \in Conns, inbox[c] # <<>>, Take(c)
    PROVE  InboxKept
    <1>1. inbox[c] \in Seq(Message) /\ Tail(inbox[c]) \in Seq(Message)
      BY DEF CoreTypes, ConnTypeOK
    <1>2. \A i \in DOMAIN Tail(inbox[c]) :
             i + 1 \in DOMAIN inbox[c] /\ Tail(inbox[c])[i] = inbox[c][i + 1]
      BY <1>1
    <1>3. QED
      BY <1>1, <1>2, KeptOthers DEF Take

LEMMA KeptAppend ==
    ASSUME CoreTypes, NEW c \in Conns, NEW m \in Message, m.kind # "REQUEST",
           inbox' = [inbox EXCEPT ![c] = Append(@, m)]
    PROVE  InboxKept
    <1>1. inbox[c] \in Seq(Message) /\ Append(inbox[c], m) \in Seq(Message)
      BY DEF CoreTypes, ConnTypeOK
    <1>2. \A i \in DOMAIN Append(inbox[c], m) :
             Append(inbox[c], m)[i].kind = "REQUEST" =>
               i + 0 \in DOMAIN inbox[c] /\ Append(inbox[c], m)[i] = inbox[c][i + 0]
      BY <1>1
    <1>3. QED
      BY <1>1, <1>2, KeptOthers

LEMMA KeptSubSeq ==
    ASSUME CoreTypes, NEW c \in Conns, NEW n \in 0 .. Len(inbox[c]),
           inbox' = [inbox EXCEPT ![c] = SubSeq(@, 1, n)]
    PROVE  InboxKept
    <1>1. inbox[c] \in Seq(Message) /\ SubSeq(inbox[c], 1, n) \in Seq(Message)
      BY DEF CoreTypes, ConnTypeOK
    <1>2. \A i \in DOMAIN SubSeq(inbox[c], 1, n) :
             i + 0 \in DOMAIN inbox[c] /\ SubSeq(inbox[c], 1, n)[i] = inbox[c][i + 0]
      BY <1>1
    <1>3. QED
      BY <1>1, <1>2, KeptOthers

LEMMA KeptCleared ==
    ASSUME CoreTypes, \A c \in Conns : inbox'[c] \in {inbox[c], <<>>}
    PROVE  InboxKept
    <1>1. ASSUME NEW c \in Conns
          PROVE  \A i \in DOMAIN inbox'[c] :
                    i + 0 \in DOMAIN inbox[c] /\ inbox'[c][i] = inbox[c][i + 0]
      <2>1. inbox[c] \in Seq(Message)
        BY DEF CoreTypes, ConnTypeOK
      <2>2. QED
        BY <2>1
    <1>2. QED
      BY <1>1 DEF InboxKept

LEMMA IterateKeeps ==
    ASSUME CoreTypes, Iterate
    PROVE  InboxKept
    BY KeptCleared DEF Iterate, Teardown, BeginConnecting, Park, CloseAll

(* The messages that reach the worker.                                     *)
LEMMA InboxSteps ==
    ASSUME CoreTypes, RequestTypes, [Next]_vars,
           \A c \in Conns, r \in Requests : ~RouteRequest(r, c)
    PROVE  InboxKept
    <1>1. CASE inbox' = inbox
      BY <1>1, KeptCleared
    <1>2. CASE Iterate
      BY <1>2, IterateKeeps
    <1>3. CASE CoreStep
      <2>1. CASE LoopStep
        BY <1>1, <1>2, <2>1
        DEF LoopStep, Start, BackoffEnds, StartFails, StartThrows, StartUnauthorized,
            StartAccepted, HandshakeFails, HandshakeTimesOut
      <2>2. ASSUME NEW c \in Conns, SocketBreaks(c)
            PROVE  InboxKept
        BY <2>2, KeptSubSeq DEF SocketBreaks
      <2>3. ASSUME NEW c \in Conns, SocketCloses(c) \/ HandleHeartbeat(c)
            PROVE  InboxKept
        BY <1>1, <2>3 DEF SocketCloses, HandleHeartbeat
      <2>4. ASSUME NEW c \in Conns, GatewayDrains(c)
            PROVE  InboxKept
        <3>1. [kind |-> "CLOSING", req |-> None, id |-> NoLease] \in Message
          BY DEF Message, NoLease
        <3>2. QED
          BY <2>4, <3>1, KeptAppend DEF GatewayDrains
      <2>5. ASSUME NEW c \in Conns, HandleClosing(c)
            PROVE  InboxKept
        BY <2>5, KeptTail DEF HandleClosing, Receives
      <2>6. CASE HeartbeatTick \/ RequestShutdown \/ ShutdownDump
        BY <1>1, <1>2, <2>6 DEF HeartbeatTick, RequestShutdown, ShutdownDump
      <2>7. QED
        BY <1>3, <2>1, <2>2, <2>3, <2>4, <2>5, <2>6 DEF CoreStep, SocketStep
    <1>4. CASE RequestStep
      <2>1. ASSUME NEW r \in Requests, LeaseExpires(r) \/ Expire(r)
            PROVE  InboxKept
        BY <1>1, <2>1 DEF LeaseExpires, Expire, connVars
      <2>2. ASSUME NEW c \in Conns, HandleRequest(c) \/ HandleLeaseAck(c) \/ HandleReplyAck(c)
            PROVE  InboxKept
        BY <2>2, KeptTail DEF HandleRequest, HandleLeaseAck, HandleReplyAck, Receives
      <2>3. ASSUME NEW c \in Conns, Activate(c)
            PROVE  InboxKept
        BY <2>3, KeptCleared DEF Activate, Established
      <2>4. ASSUME NEW d \in Deliveries, StopExtending(d) \/ BufferReply(d) \/ HandlerThrows(d)
            PROVE  InboxKept
        BY <1>1, <2>4 DEF StopExtending, BufferReply, HandlerThrows, connVars
      <2>5. ASSUME NEW d \in Deliveries, ExtendLease(d)
            PROVE  InboxKept
        <3>1. d[1] \in Requests /\ route[d[1]].lease + 1 \in Nat
          BY DEF Deliveries, RequestTypes, Route
        <3>2. ExtendOver(d) \in Conns
          BY <2>5 DEF ExtendLease, ExtendOver, CoreTypes, ConnTypeOK, RequestTypes
        <3>3. PICK id \in Nat :
                inbox' = [inbox EXCEPT ![ExtendOver(d)] =
                            Append(@, [kind |-> "LEASE_ACK", req |-> d[1], id |-> id])]
          BY <2>5, <3>1 DEF ExtendLease, NoLease
        <3>4. [kind |-> "LEASE_ACK", req |-> d[1], id |-> id] \in Message
          BY <3>1 DEF Message
        <3>5. QED
          BY <3>2, <3>3, <3>4, KeptAppend
      <2>6. ASSUME NEW d \in Deliveries, Reply(d)
            PROVE  InboxKept
        <3>1. active \in Conns /\ d[1] \in Requests
          BY <2>6 DEF Reply, Deliveries, CoreTypes, ConnTypeOK
        <3>2. [kind |-> "REPLY_ACK", req |-> d[1], id |-> NoLease] \in Message
          BY <3>1 DEF Message, NoLease
        <3>3. QED
          BY <1>1, <2>6, <3>1, <3>2, KeptAppend DEF Reply
      <2>7. QED
        BY <1>4, <2>1, <2>2, <2>3, <2>4, <2>5, <2>6 DEF RequestStep
    <1>5. CASE FlushStep
      BY <1>1, <1>5 DEF FlushStep, FlushAccepted, FlushRefused, FlushRetries, connVars
    <1>6. CASE BeginFinalFlush \/ CloseReturns \/ UNCHANGED vars
      BY <1>1, <1>6 DEF BeginFinalFlush, CloseReturns, vars, connVars
    <1>7. QED
      BY <1>2, <1>3, <1>4, <1>5, <1>6 DEF Next, Wake

(* Only the gateway sends, and no request lost or sent is forgotten.       *)
LEMMA SentSteps ==
    ASSUME RequestTypes, [Next]_vars
    PROVE  /\ lost \subseteq lost'
           /\ \A r \in Requests : \/ route'[r].sent = route[r].sent
                                  \/ \E c \in Conns : RouteRequest(r, c)
    <1>1. CASE UNCHANGED <<lost, route>>
      BY <1>1
    <1>2. CASE RequestStep
      <2>1. ASSUME NEW r \in Requests, LeaseExpires(r)
            PROVE  lost' = lost /\ \A q \in Requests : route'[q].sent = route[q].sent
        BY <2>1 DEF LeaseExpires, RequestTypes, Route
      <2>2. ASSUME NEW r \in Requests, NEW c \in Conns, RouteRequest(r, c)
            PROVE  lost' = lost /\ \A q \in Requests \ {r} : route'[q].sent = route[q].sent
        BY <2>2 DEF RouteRequest, RequestTypes
      <2>3. ASSUME NEW c \in Conns, HandleLeaseAck(c)
            PROVE  lost \subseteq lost' /\ route' = route
        BY <2>3 DEF HandleLeaseAck
      <2>4. ASSUME NEW d \in Deliveries, ExtendLease(d)
            PROVE  lost' = lost /\ \A q \in Requests : route'[q].sent = route[q].sent
        BY <2>4 DEF ExtendLease, RequestTypes, Route
      <2>5. ASSUME NEW r \in Requests, Expire(r)
            PROVE  UNCHANGED <<lost, route>>
        BY <2>5 DEF Expire, requestVars
      <2>6. ASSUME NEW c \in Conns, HandleRequest(c) \/ HandleReplyAck(c) \/ Activate(c)
            PROVE  UNCHANGED <<lost, route>>
        BY <2>6 DEF HandleRequest, HandleReplyAck, Activate, requestVars
      <2>7. ASSUME NEW d \in Deliveries,
                   StopExtending(d) \/ Reply(d) \/ BufferReply(d) \/ HandlerThrows(d)
            PROVE  UNCHANGED <<lost, route>>
        BY <2>7 DEF StopExtending, Reply, BufferReply, HandlerThrows, Finally
      <2>8. QED
        BY <1>1, <1>2, <2>1, <2>2, <2>3, <2>4, <2>5, <2>6, <2>7 DEF RequestStep
    <1>3. CASE CoreStep \/ FlushStep
      BY <1>1, <1>3 DEF CoreStep, FlushStep, FlushAccepted, FlushRefused, FlushRetries, requestVars
    <1>4. CASE \/ Wake /\ UNCHANGED <<requestVars, bufferVars>>
               \/ BeginFinalFlush \/ CloseReturns \/ UNCHANGED vars
      BY <1>1, <1>4 DEF BeginFinalFlush, CloseReturns, vars, requestVars
    <1>5. QED
      BY <1>2, <1>3, <1>4 DEF Next

LEMMA ExcusedKept ==
    ASSUME RequestTypes, [Next]_vars, NEW r \in Requests, Excused(r)
    PROVE  Excused(r)'
    <1>1. CASE route'[r].sent = route[r].sent
      BY <1>1, SentSteps DEF Excused
    <1>2. ASSUME NEW c \in Conns, RouteRequest(r, c)
          PROVE  Excused(r)'
      <2>1. route'[r].sent = route[r].sent + 1 /\ route[r].sent \in Nat
        BY <1>2 DEF RouteRequest, RequestTypes, Route
      <2>2. QED
        BY <2>1, SentSteps DEF Excused
    <1>3. QED
      BY <1>1, <1>2, SentSteps

LEMMA AsksKept ==
    ASSUME CoreTypes, InboxKept, NEW c \in Conns
    PROVE  \E k \in Nat : \A r \in Requests, i \in Nat :
               Asks(r, c, i)' => Asks(r, c, i + k)
    <1>1. PICK k \in Nat : \A i \in DOMAIN inbox'[c] :
            inbox'[c][i].kind = "REQUEST" =>
                i + k \in DOMAIN inbox[c] /\ inbox'[c][i] = inbox[c][i + k]
      BY DEF InboxKept
    <1>2. \A r \in Requests, i \in Nat : Asks(r, c, i)' => Asks(r, c, i + k)
      BY <1>1 DEF Asks
    <1>3. QED
      BY <1>2

(* A request whose handlers stay as they are is no further than it was.    *)
LEMMA OneKept ==
    ASSUME CoreTypes, InboxKept, NEW r \in Requests,
           \A n \in 1 .. MaxDeliveries : Started(r, n)' <=> Started(r, n)
    PROVE  /\ Unsent(r) => Unsent(r)'
           /\ OnWay(r) => OnWay(r)'
           /\ Begun(r) => Begun(r)'
    <1>1. (\A c \in Conns, i \in Nat : ~Asks(r, c, i)) =>
             \A c \in Conns, i \in Nat : ~Asks(r, c, i)'
      BY AsksKept
    <1>2. ASSUME \A c, e \in Conns : \A i, j \in Nat :
                    Asks(r, c, i) /\ Asks(r, e, j) => c = e /\ i = j,
                 NEW c \in Conns, NEW e \in Conns, NEW i \in Nat, NEW j \in Nat,
                 Asks(r, c, i)', Asks(r, e, j)'
          PROVE  c = e /\ i = j
      <2>1. PICK k \in Nat : \A h \in Nat : Asks(r, c, h)' => Asks(r, c, h + k)
        BY AsksKept
      <2>2. PICK l \in Nat : \A h \in Nat : Asks(r, e, h)' => Asks(r, e, h + l)
        BY AsksKept
      <2>3. Asks(r, c, i + k) /\ Asks(r, e, j + l)
        BY <1>2, <2>1, <2>2
      <2>4. c = e
        BY <1>2, <2>3
      <2>5. Asks(r, c, j + k)
        BY <1>2, <2>1, <2>4
      <2>6. i + k = j + k
        BY <1>2, <2>3, <2>5
      <2>7. QED
        BY <2>4, <2>6
    <1>3. Unsent(r) => Unsent(r)'
      BY <1>1 DEF Unsent
    <1>4. Begun(r) => Begun(r)'
      BY <1>1 DEF Begun
    <1>5. OnWay(r) => OnWay(r)'
      BY <1>2 DEF OnWay
    <1>6. QED
      BY <1>3, <1>4, <1>5

LEMMA AllKept ==
    ASSUME CoreTypes, InboxKept, SentOnce, NEW S \in SUBSET Requests,
           \A r \in S : /\ route'[r].sent = route[r].sent
                        /\ \A n \in 1 .. MaxDeliveries : Started(r, n)' <=> Started(r, n)
    PROVE  \A r \in S : /\ route'[r].sent = 0 => Unsent(r)'
                        /\ route'[r].sent = 1 => OnWay(r)' \/ Begun(r)'
    BY OneKept DEF SentOnce

(* The gateway routes r: the first time, it was neither under way nor      *)
(* begun; after the second, nothing is claimed of it.                      *)
LEMMA RouteSentOnce ==
    ASSUME CoreTypes, RequestTypes, SentOnce, AsksLeased,
           NEW r \in Requests, NEW c \in Conns, RouteRequest(r, c)
    PROVE  SentOnce' /\ AsksLeased'
    <1> DEFINE m == [kind |-> "REQUEST", req |-> r, id |-> route[r].lease + 1]
    <1>1. /\ inbox' = [inbox EXCEPT ![c] = Append(@, m)]
          /\ exec' = exec
          /\ route'[r].sent = route[r].sent + 1
          /\ \A q \in Requests \ {r} : route'[q].sent = route[q].sent
      BY DEF RouteRequest, RequestTypes
    <1>2. /\ m.kind = "REQUEST" /\ m.req = r /\ m.id = route[r].lease + 1
          /\ route[r].lease \in Nat /\ route[r].sent \in Nat
      BY DEF RequestTypes, Route
    <1> HIDE DEF m
    <1>3. m.id # NoLease
      BY <1>2 DEF NoLease
    <1>4. \A d \in Conns : inbox[d] \in Seq(Message)
      BY DEF CoreTypes, ConnTypeOK
    <1> DEFINE last == Len(inbox[c]) + 1
    <1>5. /\ \A d \in Conns \ {c} : inbox'[d] = inbox[d]
          /\ DOMAIN inbox'[c] = 1 .. last
          /\ inbox'[c][last] = m
          /\ \A i \in 1 .. Len(inbox[c]) : inbox'[c][i] = inbox[c][i]
      BY <1>1, <1>4 DEF CoreTypes, ConnTypeOK
    <1>6. \A d \in Conns : \A i \in DOMAIN inbox'[d] :
             \/ d = c /\ i = last /\ inbox'[d][i] = m
             \/ i \in DOMAIN inbox[d] /\ inbox'[d][i] = inbox[d][i]
      BY <1>4, <1>5
    <1> HIDE DEF last
    <1>7. AsksLeased'
      BY <1>3, <1>6 DEF AsksLeased
    <1>8. \A d \in Conns, i \in Nat : \A q \in Requests :
             Asks(q, d, i)' => Asks(q, d, i) \/ (q = r /\ d = c /\ i = last)
      BY <1>2, <1>6 DEF Asks
    <1>9. \A q \in Requests, n \in 1 .. MaxDeliveries : Started(q, n)' <=> Started(q, n)
      BY <1>1 DEF Started
    <1>10. ASSUME NEW q \in Requests \ {r}
           PROVE  /\ route'[q].sent = 0 => Unsent(q)'
                  /\ route'[q].sent = 1 => OnWay(q)' \/ Begun(q)'
      <2>1. \A d \in Conns, i \in Nat : Asks(q, d, i)' => Asks(q, d, i)
        BY <1>8
      <2>2. Unsent(q) => Unsent(q)'
        BY <1>9, <2>1 DEF Unsent
      <2>3. OnWay(q) => OnWay(q)'
        BY <1>9, <2>1 DEF OnWay
      <2>4. Begun(q) => Begun(q)'
        BY <1>9, <2>1 DEF Begun
      <2>5. QED
        BY <1>1, <2>2, <2>3, <2>4 DEF SentOnce
    <1>11. route'[r].sent # 0
      BY <1>1, <1>2
    <1>12. ASSUME route'[r].sent = 1
           PROVE  OnWay(r)'
      <2>1. Unsent(r)
        BY <1>1, <1>2, <1>12 DEF SentOnce
      <2>2. QED
        BY <1>8, <1>9, <2>1 DEF Unsent, OnWay
    <1>13. QED
      BY <1>7, <1>10, <1>11, <1>12 DEF SentOnce

(* The worker takes a request: its message is gone, its handler begins.    *)
LEMMA HandleSentOnce ==
    ASSUME CoreTypes, RequestTypes, SentOnce, InboxKept,
           NEW c \in Conns, HandleRequest(c)
    PROVE  SentOnce'
    <1>1. route' = route
      BY DEF HandleRequest
    <1> PICK m \in Message : m = Head(inbox[c]) /\ m.kind = "REQUEST" /\ inbox[c] # <<>>
      BY InboxType DEF HandleRequest, Receives, CoreTypes, ConnTypeOK
    <1>2. CASE exec' = exec
      BY <1>1, <1>2, AllKept DEF SentOnce, Started
    <1>3. ASSUME NEW n \in 1 .. MaxDeliveries,
                 exec' = [exec EXCEPT ![<<m.req, n>>] = [stage |-> "ticking", conn |-> c]]
          PROVE  SentOnce'
      <2>1. m.req \in Requests
        BY MessageFields
      <2>2. \A q \in Requests \ {m.req}, k \in 1 .. MaxDeliveries : Started(q, k)' <=> Started(q, k)
        BY <1>3, <2>1 DEF Started, Deliveries, RequestTypes
      <2>3. \A k \in 1 .. MaxDeliveries : Started(m.req, k)' => Started(m.req, k) \/ k = n
        <3>1. \A d \in Deliveries \ {<<m.req, n>>} : exec'[d] = exec[d]
          BY <1>3 DEF RequestTypes
        <3>2. \A k \in 1 .. MaxDeliveries : k # n => <<m.req, k>> \in Deliveries \ {<<m.req, n>>}
          BY <2>1 DEF Deliveries
        <3>3. QED
          BY <3>1, <3>2 DEF Started
      <2>4. Asks(m.req, c, 1)
        BY <2>1 DEF Asks, CoreTypes, ConnTypeOK
      <2>5. ~Unsent(m.req) /\ ~Begun(m.req)
        BY <2>4 DEF Unsent, Begun
      <2>6. ASSUME OnWay(m.req)
            PROVE  Begun(m.req)'
        <3>1. \A k \in 1 .. MaxDeliveries : Started(m.req, k)' => k = n
          BY <2>3, <2>6 DEF OnWay
        <3>2. ASSUME NEW r, r = m.req, NEW d \in Conns, NEW i \in Nat, Asks(r, d, i)'
              PROVE  FALSE
          <4>1. \A e \in Conns \ {c} : inbox'[e] = inbox[e]
            BY DEF HandleRequest, Take, CoreTypes, ConnTypeOK
          <4>2. CASE d # c
            <5>1. Asks(r, d, i)
              BY <3>2, <4>1, <4>2 DEF Asks
            <5>2. QED
              BY <2>4, <2>6, <3>2, <4>2, <5>1 DEF OnWay
          <4>3. CASE d = c
            <5>1. inbox'[c] = Tail(inbox[c]) /\ inbox[c] \in Seq(Message)
              BY DEF HandleRequest, Take, CoreTypes, ConnTypeOK
            <5>2. i \in DOMAIN Tail(inbox[c]) /\ Tail(inbox[c])[i] = inbox[c][i + 1]
              BY <3>2, <4>3, <5>1 DEF Asks
            <5>3. i + 1 \in DOMAIN inbox[c] /\ i + 1 # 1
              BY <5>1, <5>2
            <5>4. Asks(r, c, i + 1)
              BY <3>2, <4>3, <5>1, <5>2, <5>3 DEF Asks
            <5>5. QED
              BY <2>4, <2>6, <3>2, <5>3, <5>4 DEF OnWay
          <4>4. QED
            BY <4>2, <4>3
        <3>3. QED
          BY <3>1, <3>2 DEF Begun
      <2>7. \A q \in Requests \ {m.req} :
               /\ route'[q].sent = 0 => Unsent(q)'
               /\ route'[q].sent = 1 => OnWay(q)' \/ Begun(q)'
        BY <1>1, <2>2, AllKept
      <2>8. QED
        BY <1>1, <2>1, <2>5, <2>6, <2>7 DEF SentOnce
    <1>4. QED
      BY <1>2, <1>3 DEF HandleRequest

LEMMA SentOnceStep ==
    ASSUME Types, SentOnce, AsksLeased, [Next]_vars
    PROVE  SentOnce' /\ AsksLeased'
    <1> CoreTypes /\ RequestTypes
      BY DEF Types
    <1>1. ASSUME NEW r \in Requests, NEW c \in Conns, RouteRequest(r, c)
          PROVE  SentOnce' /\ AsksLeased'
      BY <1>1, RouteSentOnce
    <1>2. ASSUME \A c \in Conns, r \in Requests : ~RouteRequest(r, c)
          PROVE  SentOnce' /\ AsksLeased'
      <2>1. InboxKept
        BY <1>2, InboxSteps
      <2>2. AsksLeased'
        BY <2>1 DEF InboxKept, AsksLeased
      <2>3. \A r \in Requests : route'[r].sent = route[r].sent
        BY <1>2, SentSteps
      <2>4. CASE \A r \in Requests, n \in 1 .. MaxDeliveries : Started(r, n)' <=> Started(r, n)
        <3>1. \A r \in Requests : /\ route'[r].sent = 0 => Unsent(r)'
                                  /\ route'[r].sent = 1 => OnWay(r)' \/ Begun(r)'
          BY <2>1, <2>3, <2>4, AllKept
        <3>2. QED
          BY <2>2, <3>1 DEF SentOnce
      <2>5. ASSUME NEW c \in Conns, HandleRequest(c)
            PROVE  SentOnce'
        BY <2>1, <2>5, HandleSentOnce
      <2>6. CASE UNCHANGED exec
        BY <2>4, <2>6 DEF Started
      <2>7. ASSUME NEW d \in Deliveries, StopExtending(d) \/ (Executing(d) /\ Finally(d))
            PROVE  SentOnce'
        <3>1. exec[d].stage # "none" /\ exec'[d].stage # "none"
          BY <2>7 DEF StopExtending, Executing, Finally, RequestTypes
        <3>2. \A e \in Deliveries \ {d} : exec'[e] = exec[e]
          BY <2>7 DEF StopExtending, Finally, RequestTypes
        <3>3. QED
          BY <2>4, <3>1, <3>2 DEF Started, Deliveries
      <2>8. ASSUME NEW c \in Conns, HandleLeaseAck(c)
            PROVE  SentOnce'
        BY <2>6, <2>8 DEF HandleLeaseAck
      <2>9. QED
        BY <2>2, <2>5, <2>6, <2>7, <2>8, LeaseSteps
    <1>3. QED
      BY <1>1, <1>2

(* A handler loses its lease by its own end, by a refusal, or because the  *)
(* request reached the worker again.                                       *)
LEMMA ExecLeasedStep ==
    ASSUME Types, SentOnce, AsksLeased, ExecLeased, [Next]_vars
    PROVE  ExecLeased'
    <1> CoreTypes /\ RequestTypes
      BY DEF Types
    <1> SUFFICES ASSUME NEW r \in Requests, NEW n \in 1 .. MaxDeliveries,
                        Executing(<<r, n>>)', ~Excused(r)'
                 PROVE  lease'[r] # NoLease
      BY DEF ExecLeased
    <1>1. ~Excused(r)
      BY ExcusedKept
    <1>2. Executing(<<r, n>>) => lease[r] # NoLease
      BY <1>1 DEF ExecLeased
    <1>3. <<r, n>> \in Deliveries
      BY DEF Deliveries
    <1>4. CASE UNCHANGED <<lease, exec>>
      BY <1>2, <1>4 DEF Executing
    <1>5. ASSUME NEW c \in Conns, HandleRequest(c)
          PROVE  lease'[r] # NoLease
      <2> PICK m \in Message : m = Head(inbox[c]) /\ m.kind = "REQUEST" /\ inbox[c] # <<>>
        BY <1>5, InboxType DEF HandleRequest, Receives, CoreTypes, ConnTypeOK
      <2>1. CASE state # "ACTIVE"
        BY <1>2, <1>5, <2>1 DEF HandleRequest, Executing
      <2>2. CASE state = "ACTIVE"
        <3>1. m.req \in Requests
          BY MessageFields
        <3>2. m.id # NoLease
          BY DEF AsksLeased, CoreTypes, ConnTypeOK
        <3>3. lease' = [lease EXCEPT ![m.req] = m.id]
          BY <1>5, <2>2 DEF HandleRequest
        <3>4. CASE r = m.req
          BY <3>2, <3>3, <3>4 DEF CoreTypes, ConnTypeOK
        <3>5. CASE r # m.req
          <4>1. PICK k \in 1 .. MaxDeliveries :
                  exec' = [exec EXCEPT ![<<m.req, k>>] = [stage |-> "ticking", conn |-> c]]
            BY <1>5, <2>2 DEF HandleRequest
          <4>2. <<r, n>> # <<m.req, k>>
            BY <3>5
          <4>3. exec'[<<r, n>>] = exec[<<r, n>>]
            BY <1>3, <4>1, <4>2 DEF RequestTypes
          <4>4. lease'[r] = lease[r]
            BY <3>3, <3>5 DEF CoreTypes, ConnTypeOK
          <4>5. QED
            BY <1>2, <4>3, <4>4 DEF Executing
        <3>6. QED
          BY <3>4, <3>5
      <2>3. QED
        BY <2>1, <2>2
    <1>6. ASSUME NEW c \in Conns, HandleLeaseAck(c)
          PROVE  lease'[r] # NoLease
      <2> DEFINE m == Head(inbox[c])
      <2>1. lease[r] # NoLease
        BY <1>2, <1>6 DEF HandleLeaseAck, Executing
      <2>2. CASE UNCHANGED lease
        BY <2>1, <2>2
      <2>3. CASE lease' = [lease EXCEPT ![m.req] = m.id] /\ m.id # NoLease
        BY <2>1, <2>3 DEF CoreTypes, ConnTypeOK
      <2>4. CASE lease' = [lease EXCEPT ![m.req] = m.id] /\ lost' = lost \cup {m.req}
        <3>1. r # m.req
          BY <2>4 DEF Excused
        <3>2. QED
          BY <2>1, <2>4, <3>1 DEF CoreTypes, ConnTypeOK
      <2>5. QED
        BY <1>6, <2>2, <2>3, <2>4 DEF HandleLeaseAck
    <1>7. ASSUME NEW d \in Deliveries, StopExtending(d)
          PROVE  lease'[r] # NoLease
      <2>1. Executing(<<r, n>>)
        BY <1>3, <1>7 DEF StopExtending, Executing, RequestTypes
      <2>2. lease' = lease
        BY <1>7 DEF StopExtending, connVars
      <2>3. QED
        BY <1>2, <2>1, <2>2
    <1>8. ASSUME NEW d \in Deliveries, Executing(d), Finally(d)
          PROVE  lease'[r] # NoLease
      <2>1. <<r, n>> # d
        BY <1>3, <1>8 DEF Finally, Executing, RequestTypes
      <2>2. Executing(<<r, n>>)
        BY <1>3, <1>8, <2>1 DEF Finally, Executing, RequestTypes
      <2>3. CASE d[1] = r
        <3>1. PICK k \in 1 .. MaxDeliveries : d = <<r, k>>
          BY <2>3 DEF Deliveries
        <3>2. k # n /\ Started(r, n) /\ Started(r, k)
          BY <1>8, <2>1, <2>2, <3>1 DEF Executing, Started
        <3>3. ~Unsent(r) /\ ~OnWay(r) /\ ~Begun(r)
          BY <3>2 DEF Unsent, OnWay, Begun
        <3>4. route[r].sent # 0 /\ route[r].sent # 1 /\ route[r].sent \in Nat
          BY <3>3 DEF SentOnce, RequestTypes, Route
        <3>5. route[r].sent > 1
          BY <3>4
        <3>6. QED
          BY <1>1, <3>5 DEF Excused
      <2>4. CASE d[1] # r
        <3>1. lease'[r] = lease[r]
          BY <1>8, <2>4 DEF Finally, CoreTypes, ConnTypeOK
        <3>2. QED
          BY <1>2, <2>2, <3>1
      <2>5. QED
        BY <2>3, <2>4
    <1>9. QED
      BY <1>4, <1>5, <1>6, <1>7, <1>8, LeaseSteps

(* The loop exits only at its top, when nothing is in flight.              *)
LEMMA ExitSteps ==
    ASSUME [Next]_vars, loop' = "exited"
    PROVE  loop = "exited" \/ (Teardown /\ Iterate)
    <1>1. CASE loop' = loop
      BY <1>1
    <1>2. CASE Iterate
      BY <1>2 DEF Iterate, BeginConnecting, Park
    <1>3. CASE CoreStep
      <2>1. CASE LoopStep
        BY <1>2, <2>1
        DEF LoopStep, Start, BackoffEnds, StartFails, StartThrows, StartUnauthorized,
            StartAccepted, HandshakeFails, HandshakeTimesOut
      <2>2. CASE SocketStep
        BY <1>1, <2>2
        DEF SocketStep, SocketBreaks, SocketCloses, HandleHeartbeat,
            GatewayDrains, HandleClosing, loopVars
      <2>3. CASE HeartbeatTick \/ RequestShutdown \/ ShutdownDump
        BY <1>1, <1>2, <2>3 DEF HeartbeatTick, RequestShutdown, ShutdownDump
      <2>4. QED
        BY <1>3, <2>1, <2>2, <2>3 DEF CoreStep
    <1>4. CASE RequestStep
      <2>1. ASSUME NEW r \in Requests, LeaseExpires(r) \/ Expire(r)
            PROVE  loop' = loop
        BY <2>1 DEF LeaseExpires, Expire, connVars, loopVars
      <2>2. ASSUME NEW c \in Conns,
                   \/ \E r \in Requests : RouteRequest(r, c)
                   \/ HandleRequest(c) \/ HandleLeaseAck(c) \/ HandleReplyAck(c)
            PROVE  loop' = loop
        BY <2>2 DEF RouteRequest, HandleRequest, HandleLeaseAck, HandleReplyAck, loopVars
      <2>3. ASSUME NEW c \in Conns, Activate(c)
            PROVE  FALSE
        BY <2>3 DEF Activate, Established
      <2>4. ASSUME NEW d \in Deliveries, StopExtending(d) \/ ExtendLease(d)
            PROVE  loop' = loop
        BY <2>4 DEF StopExtending, ExtendLease, connVars, loopVars
      <2>5. ASSUME NEW d \in Deliveries, Reply(d) \/ BufferReply(d) \/ HandlerThrows(d)
            PROVE  loop' = loop
        BY <2>5 DEF Reply, BufferReply, HandlerThrows, Finally
      <2>6. QED
        BY <1>1, <1>4, <2>1, <2>2, <2>3, <2>4, <2>5 DEF RequestStep
    <1>5. CASE FlushStep
      BY <1>1, <1>5
      DEF FlushStep, FlushAccepted, FlushRefused, FlushRetries, connVars, loopVars
    <1>6. CASE BeginFinalFlush \/ CloseReturns \/ UNCHANGED vars
      BY <1>1, <1>6 DEF BeginFinalFlush, CloseReturns, vars, connVars, loopVars
    <1>7. QED
      BY <1>2, <1>3, <1>4, <1>5, <1>6 DEF Next, Wake

(* After the exit no handler begins, and a late acknowledgement is ignored.*)
LEMMA ExitedIdleStep ==
    ASSUME Types, ActiveParked, ExitedIdle, [Next]_vars
    PROVE  ExitedIdle'
    <1> CoreTypes /\ RequestTypes
      BY DEF Types
    <1> SUFFICES ASSUME loop' = "exited", NEW r \in Requests
                 PROVE  lease'[r] = NoLease
      BY DEF ExitedIdle
    <1>1. CASE Teardown /\ Iterate
      BY <1>1 DEF Teardown, Iterate, InFlight
    <1>2. CASE loop = "exited"
      <2>1. state # "ACTIVE" /\ \A q \in Requests : lease[q] = NoLease
        BY <1>2 DEF ActiveParked, ExitedIdle
      <2>2. ASSUME NEW c \in Conns, HandleRequest(c)
            PROVE  lease' = lease
        BY <2>1, <2>2 DEF HandleRequest
      <2>3. ASSUME NEW c \in Conns, HandleLeaseAck(c)
            PROVE  lease' = lease
        <3>1. Head(inbox[c]).req \in Requests
          BY <2>3, InboxType, MessageFields DEF HandleLeaseAck, Receives, CoreTypes, ConnTypeOK
        <3>2. QED
          BY <2>1, <2>3, <3>1 DEF HandleLeaseAck, HasLease
      <2>4. ASSUME NEW d \in Deliveries, StopExtending(d)
            PROVE  lease' = lease
        BY <2>4 DEF StopExtending, connVars
      <2>5. ASSUME NEW d \in Deliveries, Finally(d)
            PROVE  lease'[r] = NoLease
        BY <2>1, <2>5 DEF Finally, CoreTypes, ConnTypeOK
      <2>6. QED
        BY <2>1, <2>2, <2>3, <2>4, <2>5, LeaseSteps
    <1>3. QED
      BY <1>1, <1>2, ExitSteps

WaitInv == SentOnce /\ AsksLeased /\ ExecLeased /\ ExitedIdle

LEMMA InitWaits ==
    ASSUME Init
    PROVE  WaitInv
    <1>1. \A c \in Conns : DOMAIN inbox[c] = {}
      BY DEF Init, ConnInit
    <1>2. \A d \in Deliveries : exec[d].stage = "none"
      BY DEF Init
    <1>3. \A r \in Requests, n \in 1 .. MaxDeliveries : <<r, n>> \in Deliveries
      BY DEF Deliveries
    <1>4. \A r \in Requests, n \in 1 .. MaxDeliveries : ~Started(r, n) /\ ~Executing(<<r, n>>)
      BY <1>2, <1>3 DEF Started, Executing
    <1>5. \A r \in Requests, c \in Conns, i \in Nat : ~Asks(r, c, i)
      BY <1>1 DEF Asks
    <1>6. \A r \in Requests : Unsent(r)
      BY <1>4, <1>5 DEF Unsent
    <1>7. \A r \in Requests : route[r].sent = 0
      BY DEF Init
    <1>8. SentOnce
      <2>1. ASSUME NEW r \in Requests
            PROVE  route[r].sent # 1 /\ Unsent(r)
        <3>1. route[r].sent = 0
          BY <1>7
        <3>2. QED
          BY <1>6, <3>1
      <2>2. QED
        BY <2>1 DEF SentOnce
    <1>9. AsksLeased
      BY <1>1 DEF AsksLeased
    <1>10. ExecLeased
      BY <1>4 DEF ExecLeased
    <1>11. ExitedIdle
      BY DEF Init, ConnInit, ExitedIdle
    <1>12. QED
      BY <1>8, <1>9, <1>10, <1>11 DEF WaitInv

(* A shutdown waits for the work in flight: the loop exits only when no    *)
(* request has a lease, and code that runs has one, unless the gateway     *)
(* refused to renew it or the request reached the worker twice.            *)
THEOREM WorkerShutdownWaits == Spec => []ShutdownWaits
    <1>1. Init => WaitInv
      BY InitWaits
    <1>2. Types /\ WakeInv /\ PromiseInv /\ WaitInv /\ [Next]_vars => WaitInv'
      BY SentOnceStep, ExecLeasedStep, ExitedIdleStep DEF WaitInv, PromiseInv
    <1>3. WaitInv => ShutdownWaits
      <2>1. \A d \in Deliveries : /\ d[1] \in Requests /\ d[2] \in 1 .. MaxDeliveries
                                  /\ d = <<d[1], d[2]>>
        BY DEF Deliveries
      <2>2. QED
        BY <2>1 DEF WaitInv, ExecLeased, ExitedIdle, Excused, ShutdownWaits
    <1>4. QED
      BY <1>1, <1>2, <1>3, TypesHold, PromisesHold, PTL DEF Spec

-----------------------------------------------------------------------------
(* The sockets.  Only one of the two slots is ever taken, and the active   *)
(* connection of a loop that connects is dead or gone.                     *)

OneSlot == active # None => draining = None

Connecting == loop \in {"starting", "handshake"} => ~Live(active)

OwnInv == SocketsOwned /\ OneSlot /\ Connecting

(* No socket opens, no connection revives, and the slots are left alone.   *)
LEMMA OwnKept ==
    ASSUME OwnInv,
           \A d \in Conns :
              /\ conns[d].dead => conns'[d].dead
              /\ conns'[d].link \in {"open", "broken"} =>
                    conns[d].link \in {"open", "broken"},
           UNCHANGED <<active, draining, dropped>>,
           active \in Conns \cup {None},
           loop' \in {"starting", "handshake"} =>
              loop \in {"starting", "handshake"}
    PROVE  OwnInv'
    <1>1. SocketsOwned'
      BY DEF OwnInv, SocketsOwned, ReadyStateOpen
    <1>2. OneSlot' /\ Connecting'
      BY DEF OwnInv, OneSlot, Connecting, Live
    <1>3. QED
      BY <1>1, <1>2 DEF OwnInv

LEMMA IterateOwns ==
    ASSUME CoreTypes, OwnInv, Iterate
    PROVE  OwnInv'
    <1>1. CASE Teardown
      <2>1. \A d \in Conns : d \notin {active, draining} => conns'[d] = conns[d]
        BY <1>1 DEF Teardown, CloseAll
      <2>2. \A d \in Conns \cap {active, draining} :
              conns'[d].dead \/ conns'[d].link = "closed"
        <3>1. \A d \in Conns : d # None
          BY NoneAssumption, FaultsAssumption DEF Conns
        <3>2. \A d \in Conns : [conns[d] EXCEPT !.link = "closed", !.dead = TRUE].link = "closed"
          BY DEF CoreTypes, ConnTypeOK, Connection
        <3>3. QED
          BY <1>1, <3>1, <3>2 DEF Teardown, CloseAll
      <2>3. active' = None /\ draining' = None /\ loop' = "exited" /\ dropped' = dropped
        BY <1>1 DEF Teardown, Iterate
      <2>4. SocketsOwned'
        BY <2>1, <2>2, <2>3 DEF OwnInv, SocketsOwned, ReadyStateOpen
      <2>5. QED
        BY <2>3, <2>4 DEF OwnInv, OneSlot, Connecting
    <1>2. CASE BeginConnecting \/ Park
      BY <1>2 DEF BeginConnecting, Park, Iterate, OwnInv, SocketsOwned,
                  ReadyStateOpen, OneSlot, Connecting, Live
    <1>3. QED
      BY <1>1, <1>2 DEF Iterate

LEMMA LoopOwns ==
    ASSUME CoreTypes, OwnInv, LoopStep
    PROVE  OwnInv'
    <1>1. CASE Start \/ BackoffEnds
      BY <1>1, IterateOwns DEF Start, BackoffEnds
    <1>2. CASE StartFails \/ StartThrows \/ StartUnauthorized
      BY <1>2, OwnKept
      DEF StartFails, StartThrows, StartUnauthorized, CoreTypes, ConnTypeOK
    <1>3. ASSUME NEW c \in Conns,
                 StartAccepted(c) \/ HandshakeFails(c) \/ HandshakeTimesOut(c)
          PROVE  OwnInv'
      <2>1. \A d \in Conns : conns'[d].dead = conns[d].dead /\ (d # c => conns'[d] = conns[d])
        BY <1>3 DEF StartAccepted, HandshakeFails, HandshakeTimesOut,
                    CoreTypes, ConnTypeOK, Connection
      <2>2. conns'[c].link \in {"handshaking", "closed", "orphan"}
        BY <1>3 DEF StartAccepted, HandshakeFails, HandshakeTimesOut,
                    CoreTypes, ConnTypeOK, Connection
      <2>3. /\ UNCHANGED <<active, draining, dropped>>
            /\ loop \in {"starting", "handshake"}
            /\ active \in Conns \cup {None}
        BY <1>3 DEF StartAccepted, HandshakeFails, HandshakeTimesOut,
                    CoreTypes, ConnTypeOK
      <2>4. QED
        BY <2>1, <2>2, <2>3, OwnKept
    <1>4. QED
      BY <1>1, <1>2, <1>3 DEF LoopStep

LEMMA ClosingOwns ==
    ASSUME CoreTypes, OwnInv, NEW c \in Conns, HandleClosing(c)
    PROVE  OwnInv'
    <1>1. c # None
      BY NoneAssumption, FaultsAssumption DEF Conns
    <1>2. UNCHANGED <<conns, loop>> /\ active' = None /\ draining' = active
      BY DEF HandleClosing
    <1>3. dropped \subseteq dropped'
      BY DEF HandleClosing
    <1>4. draining = None \/ draining \in dropped'
      <2>1. CASE c = active
        BY <1>1, <2>1 DEF OwnInv, OneSlot
      <2>2. CASE c # active
        BY <2>2 DEF HandleClosing
      <2>3. QED
        BY <2>1, <2>2
    <1>5. SocketsOwned'
      <2>1. \A d \in Conns : d # None
        BY NoneAssumption, FaultsAssumption DEF Conns
      <2>2. QED
        BY <1>2, <1>3, <1>4, <2>1 DEF OwnInv, SocketsOwned, ReadyStateOpen
    <1>6. QED
      BY <1>2, <1>5 DEF OwnInv, OneSlot, Connecting, Live

LEMMA SocketOwns ==
    ASSUME CoreTypes, OwnInv, SocketStep
    PROVE  OwnInv'
    <1> PICK c \in Conns : \/ SocketBreaks(c) \/ SocketCloses(c)
                           \/ HandleHeartbeat(c)
                           \/ GatewayDrains(c) \/ HandleClosing(c)
      BY DEF SocketStep
    <1>1. CASE SocketBreaks(c) \/ HandleHeartbeat(c) \/ GatewayDrains(c)
      <2>1. \A d \in Conns : /\ conns'[d].dead = conns[d].dead
                             /\ conns'[d].link \in {"open", "broken"} =>
                                   conns[d].link \in {"open", "broken"}
        <3>1. \/ conns' = [conns EXCEPT ![c].link = "broken"] /\ conns[c].link = "open"
              \/ conns' = [conns EXCEPT ![c].beats = 0]
              \/ conns' = conns
          BY <1>1 DEF SocketBreaks, HandleHeartbeat, GatewayDrains
        <3>2. CASE conns' = [conns EXCEPT ![c].link = "broken"] /\ conns[c].link = "open"
          BY <3>2 DEF CoreTypes, ConnTypeOK, Connection
        <3>3. CASE conns' = [conns EXCEPT ![c].beats = 0]
          BY <3>3 DEF CoreTypes, ConnTypeOK, Connection
        <3>4. CASE conns' = conns
          BY <3>4
        <3>5. QED
          BY <3>1, <3>2, <3>3, <3>4
      <2>2. UNCHANGED <<active, draining, dropped, loop>> /\ active \in Conns \cup {None}
        BY <1>1 DEF SocketBreaks, HandleHeartbeat, GatewayDrains, loopVars,
                    CoreTypes, ConnTypeOK
      <2>3. QED
        BY <2>1, <2>2, OwnKept
    <1>2. CASE SocketCloses(c)
      <2>1. \A d \in Conns : d # c => conns'[d] = conns[d]
        BY <1>2 DEF SocketCloses, CoreTypes, ConnTypeOK
      <2> DEFINE closed == [conns EXCEPT ![c].link = "closed"]
      <2>2. closed \in [Conns -> Connection] /\ closed[c].link = "closed"
        BY DEF CoreTypes, ConnTypeOK, Connection, Links
      <2> HIDE DEF closed
      <2>3. conns' = [closed EXCEPT ![c].dead = TRUE]
        BY <1>2 DEF SocketCloses, closed
      <2>4. conns'[c].link = "closed" /\ conns'[c].dead
        BY <2>2, <2>3 DEF Connection
      <2>5. /\ UNCHANGED <<draining, dropped, loop>>
            /\ active' = active \/ (active = c /\ active' = None)
        BY <1>2 DEF SocketCloses
      <2>6. SocketsOwned'
        BY <2>1, <2>4, <2>5 DEF OwnInv, SocketsOwned, ReadyStateOpen
      <2>7. OneSlot' /\ Connecting'
        BY <2>1, <2>4, <2>5 DEF OwnInv, OneSlot, Connecting, Live, CoreTypes, ConnTypeOK
      <2>8. QED
        BY <2>6, <2>7 DEF OwnInv
    <1>3. CASE HandleClosing(c)
      BY <1>3, ClosingOwns
    <1>4. QED
      BY <1>1, <1>2, <1>3

LEMMA TimerOwns ==
    ASSUME CoreTypes, OwnInv, HeartbeatTick \/ RequestShutdown \/ ShutdownDump
    PROVE  OwnInv'
    <1>1. CASE HeartbeatTick
      <2>1. active \in Conns
        BY <1>1 DEF HeartbeatTick, CoreTypes, ConnTypeOK
      <2>2. \A d \in Conns : /\ conns'[d].link = conns[d].link
                             /\ conns[d].dead => conns'[d].dead
        <3>1. \/ conns' = [conns EXCEPT ![active].beats = conns[active].beats + 1]
              \/ conns' = [conns EXCEPT ![active].dead = TRUE]
          BY <1>1 DEF HeartbeatTick
        <3>2. CASE conns' = [conns EXCEPT ![active].beats = conns[active].beats + 1]
          BY <2>1, <3>2 DEF CoreTypes, ConnTypeOK, Connection
        <3>3. CASE conns' = [conns EXCEPT ![active].dead = TRUE]
          BY <2>1, <3>3 DEF CoreTypes, ConnTypeOK, Connection
        <3>4. QED
          BY <3>1, <3>2, <3>3
      <2>3. UNCHANGED <<active, draining, dropped, loop>>
        BY <1>1 DEF HeartbeatTick
      <2>4. QED
        BY <2>1, <2>2, <2>3, OwnKept
    <1>2. CASE RequestShutdown
      BY <1>2, OwnKept DEF RequestShutdown, CoreTypes, ConnTypeOK
    <1>3. CASE ShutdownDump
      <2>1. CASE loop = "parked"
        BY <1>3, <2>1, IterateOwns DEF ShutdownDump
      <2>2. CASE loop # "parked"
        BY <1>3, <2>2, OwnKept DEF ShutdownDump, CoreTypes, ConnTypeOK
      <2>3. QED
        BY <2>1, <2>2
    <1>4. QED
      BY <1>1, <1>2, <1>3

LEMMA EstablishedOwns ==
    ASSUME CoreTypes, OwnInv, NEW c \in Conns, Established(c)
    PROVE  OwnInv'
    <1>1. active' = c /\ draining' = None /\ loop' = "parked" /\ dropped' = dropped
      BY DEF Established
    <1>2. ~Live(active)
      BY DEF Established, OwnInv, Connecting
    <1>3. \A d \in Conns : d # None
      BY NoneAssumption, FaultsAssumption DEF Conns
    <1>4. \A d \in Conns \ {c} :
             \/ conns'[d] = conns[d] /\ (d = draining => conns[d].dead)
             \/ conns'[d].link = "closed"
      BY <1>3 DEF Established, CoreTypes, ConnTypeOK, Connection
    <1>5. SocketsOwned'
      BY <1>1, <1>2, <1>3, <1>4 DEF OwnInv, SocketsOwned, ReadyStateOpen, Live
    <1>6. QED
      BY <1>1, <1>5 DEF OwnInv, OneSlot, Connecting

LEMMA OwnStep ==
    ASSUME Types, OwnInv, [Next]_vars
    PROVE  OwnInv'
    <1> CoreTypes
      BY DEF Types
    <1>1. CASE UNCHANGED <<loop, active, draining, conns, dropped>>
      BY <1>1 DEF OwnInv, SocketsOwned, ReadyStateOpen, OneSlot, Connecting, Live
    <1>2. CASE Wake
      BY <1>2, IterateOwns DEF Wake
    <1>3. CASE CoreStep
      BY <1>3, LoopOwns, SocketOwns, TimerOwns DEF CoreStep
    <1>4. CASE RequestStep
      <2>1. ASSUME NEW r \in Requests, LeaseExpires(r) \/ Expire(r)
            PROVE  OwnInv'
        BY <1>1, <2>1 DEF LeaseExpires, Expire, connVars, loopVars
      <2>2. ASSUME NEW c \in Conns,
                   \/ \E r \in Requests : RouteRequest(r, c)
                   \/ HandleRequest(c) \/ HandleLeaseAck(c) \/ HandleReplyAck(c)
            PROVE  OwnInv'
        BY <1>1, <2>2 DEF RouteRequest, HandleRequest, HandleLeaseAck, HandleReplyAck, loopVars
      <2>3. ASSUME NEW c \in Conns, Activate(c)
            PROVE  OwnInv'
        BY <2>3, EstablishedOwns DEF Activate
      <2>4. ASSUME NEW d \in Deliveries, StopExtending(d) \/ ExtendLease(d)
            PROVE  OwnInv'
        BY <1>1, <2>4 DEF StopExtending, ExtendLease, connVars, loopVars
      <2>5. ASSUME NEW d \in Deliveries, Reply(d) \/ BufferReply(d) \/ HandlerThrows(d)
            PROVE  OwnInv'
        BY <1>1, <2>5 DEF Reply, BufferReply, HandlerThrows, Finally
      <2>6. QED
        BY <1>4, <2>1, <2>2, <2>3, <2>4, <2>5 DEF RequestStep
    <1>5. CASE FlushStep
      BY <1>1, <1>5
      DEF FlushStep, FlushAccepted, FlushRefused, FlushRetries, connVars, loopVars
    <1>6. CASE BeginFinalFlush \/ CloseReturns \/ UNCHANGED vars
      BY <1>1, <1>6 DEF BeginFinalFlush, CloseReturns, vars, connVars, loopVars
    <1>7. QED
      BY <1>2, <1>3, <1>4, <1>5, <1>6 DEF Next

(* No socket is leaked: one that is open and not declared dead is the      *)
(* active or the draining connection, whatever breaks, drains or closes,   *)
(* unless a GATEWAY_CLOSING that came on another connection than the       *)
(* active one made the worker forget it.                                   *)
THEOREM WorkerOwnsSockets == Spec => []SocketsOwned
    <1>1. Init => OwnInv
      BY DEF Init, ConnInit, OwnInv, SocketsOwned, ReadyStateOpen, OneSlot, Connecting
    <1>2. Types /\ OwnInv /\ [Next]_vars => OwnInv'
      BY OwnStep
    <1>3. OwnInv => SocketsOwned
      BY DEF OwnInv
    <1>4. QED
      BY <1>1, <1>2, <1>3, TypesHold, PTL DEF Spec
=============================================================================
