--------------------------- MODULE MessageBuffer ---------------------------
(***************************************************************************)
(* The response buffer of an Inngest Connect worker                        *)
(* (components/connect/buffer.ts).                                         *)
(*                                                                         *)
(* A response that user code has produced is "pending" while the worker    *)
(* waits for the gateway's WORKER_REPLY_ACK, and "buffered" once it has    *)
(* given up on the WebSocket and means to POST it to /v0/connect/flush.    *)
(* Every response put in pending starts a timer of its own, which nothing  *)
(* ever cancels.  Several flushes may be under way at once: one is started *)
(* (and not awaited) each time a connection becomes active, and one more   *)
(* by close().                                                             *)
(*                                                                         *)
(* Payloads are abstracted: a response is known by its request.  A pass of *)
(* a flush walks a snapshot of the buffer one response at a time; which    *)
(* one is in flight is chosen when its answer arrives, which allows every  *)
(* order, the code's insertion order among them.                           *)
(***************************************************************************)
EXTENDS Naturals

CONSTANTS
    Requests,      \* request ids
    Slots,         \* the calls of flush() that may overlap
    Keys,          \* hashed signing keys a flush may be given
    NoKey,         \* the key of a flush that is not running
    MaxAttempts    \* passes a flush makes before it gives up (5 in the code)

VARIABLES
    buffered,      \* requests whose response waits for an HTTP flush
    pending,       \* requests whose response waits for a WORKER_REPLY_ACK
    timers,        \* deadline timers running, per request
    flushes,       \* the state of each call of flush()
    completed,     \* history: requests with a response ever handed over
    served         \* what the server has: requests whose response arrived

bufferVars == <<buffered, pending, timers, flushes, completed, served>>

Idle == [phase |-> "off", key |-> NoKey, attempt |-> 0, todo |-> {}]

Flush == [phase   : {"off", "sending", "waiting"},
          key     : Keys \cup {NoKey},
          attempt : 0 .. MaxAttempts - 1,
          todo    : SUBSET Requests]

BufferTypeOK ==
    /\ buffered \in SUBSET Requests
    /\ pending \in SUBSET Requests
    /\ timers \in [Requests -> Nat]
    /\ flushes \in [Slots -> Flush]
    /\ completed \in SUBSET Requests
    /\ served \in SUBSET Requests

BufferInit ==
    /\ buffered = {}
    /\ pending = {}
    /\ timers = [r \in Requests |-> 0]
    /\ flushes = [s \in Slots |-> Idle]
    /\ completed = {}
    /\ served = {}

(***************************************************************************)
(* addPending: the response waits for its acknowledgement, and a timer     *)
(* that nothing clears is set for it.                                      *)
(***************************************************************************)
AddPending(r) ==
    /\ pending' = pending \cup {r}
    /\ timers' = [timers EXCEPT ![r] = @ + 1]
    /\ completed' = completed \cup {r}

(* The response went out on the WebSocket; `arrives' says whether the      *)
(* gateway got it (the socket may be broken without the worker knowing).   *)
RespondOnSocket(r, arrives) ==
    /\ AddPending(r)
    /\ served' = IF arrives THEN served \cup {r} ELSE served
    /\ UNCHANGED <<buffered, flushes>>

(* There was no active connection: addPending, then append.                *)
RespondToBuffer(r) ==
    /\ timers' = [timers EXCEPT ![r] = @ + 1]
    /\ completed' = completed \cup {r}
    /\ buffered' = buffered \cup {r}
    /\ pending' = pending \ {r}
    /\ UNCHANGED <<flushes, served>>

(* A WORKER_REPLY_ACK arrived.  The gateway acknowledges only what it has. *)
AcknowledgePending(r) ==
    /\ r \in served
    /\ pending' = pending \ {r}
    /\ UNCHANGED <<buffered, timers, flushes, completed, served>>

(* A deadline timer fires: a response still unacknowledged is buffered.    *)
Expire(r) ==
    /\ timers[r] > 0
    /\ timers' = [timers EXCEPT ![r] = @ - 1]
    /\ pending' = pending \ {r}
    /\ buffered' = IF r \in pending THEN buffered \cup {r} ELSE buffered
    /\ UNCHANGED <<flushes, completed, served>>

-----------------------------------------------------------------------------
(* flush(key) up to its first await.                                       *)
StartFlush(s, k) ==
    /\ flushes[s].phase = "off"
    /\ flushes' = IF buffered = {} THEN flushes
                  ELSE [flushes EXCEPT ![s] =
                          [phase |-> "sending", key |-> k,
                           attempt |-> 0, todo |-> buffered]]
    /\ UNCHANGED <<buffered, pending, timers, completed, served>>

(* (Mutant) A flush makes one pass.                                        *)
OnePass(f, left) == Idle

(* What a flush does when its pass over the snapshot is over, with `left'  *)
(* still in the buffer: return, or sleep before the next attempt.          *)
AfterPass(f, left) ==
    IF left = {} THEN Idle ELSE [f EXCEPT !.phase = "waiting", !.todo = {}]

(* The API accepted one response: it leaves the buffer.                    *)
FlushAccepted(s, r) ==
    LET f    == flushes[s]
        left == buffered \ {r}
    IN  /\ f.phase = "sending"
        /\ r \in f.todo
        /\ served' = served \cup {r}
        /\ buffered' = left
        /\ flushes' = [flushes EXCEPT ![s] =
                         IF f.todo = {r} THEN AfterPass(f, left)
                         ELSE [f EXCEPT !.todo = @ \ {r}]]
        /\ UNCHANGED <<pending, timers, completed>>

(* (Mutant) What could not be sent is dropped with the pass.               *)
FlushDrops(s) ==
    /\ flushes[s].phase = "sending"
    /\ buffered' = buffered \ flushes[s].todo
    /\ flushes' = [flushes EXCEPT ![s] = AfterPass(@, buffered')]
    /\ UNCHANGED <<pending, timers, completed, served>>

(* One POST failed: the rest of the pass is abandoned.                     *)
FlushRefused(s) ==
    /\ flushes[s].phase = "sending"
    /\ flushes' = [flushes EXCEPT ![s] = AfterPass(@, buffered)]
    /\ UNCHANGED <<buffered, pending, timers, completed, served>>

(* The backoff between two attempts ends; after the last one the flush     *)
(* logs and returns normally, whatever is left.                            *)
FlushRetries(s) ==
    LET f == flushes[s]
    IN  /\ f.phase = "waiting"
        /\ flushes' = [flushes EXCEPT ![s] =
                         IF f.attempt + 1 = MaxAttempts \/ buffered = {}
                           THEN Idle
                         ELSE [f EXCEPT !.phase = "sending",
                                        !.attempt = @ + 1,
                                        !.todo = buffered]]
        /\ UNCHANGED <<buffered, pending, timers, completed, served>>

-----------------------------------------------------------------------------
BufferNext ==
    \/ \E r \in Requests :
          \/ \E arrives \in BOOLEAN : RespondOnSocket(r, arrives)
          \/ RespondToBuffer(r)
          \/ AcknowledgePending(r)
          \/ Expire(r)
    \/ \E s \in Slots :
          \/ \E k \in Keys : StartFlush(s, k)
          \/ \E r \in Requests : FlushAccepted(s, r)
          \/ FlushRefused(s)
          \/ FlushRetries(s)

BufferSpec == BufferInit /\ [][BufferNext]_bufferVars

-----------------------------------------------------------------------------
(* A response is never forgotten: from the moment user code produced it    *)
(* the server has it or the worker still holds it, whatever the acks, the  *)
(* deadlines and the overlapping flushes do.                               *)
ResponsesHeld == completed \subseteq served \cup pending \cup buffered

(* A response that waits for its ack has a deadline running, so it cannot  *)
(* wait for ever: no ack, re-delivery or earlier deadline may take the     *)
(* last timer away from it.                                                *)
PendingHasDeadline == \A r \in pending : timers[r] > 0

=============================================================================
