---------------------------- MODULE Subscription ----------------------------
(***************************************************************************)
(* A realtime subscription: components/realtime/subscribe, the classes     *)
(* TokenSubscription and StreamFanout and the function subscribe() that    *)
(* hands them to user code.                                                *)
(*                                                                         *)
(* One socket brings messages; each starts an asynchronous handler that    *)
(* parses it, checks it and, when its topic has a schema, awaits the       *)
(* validation.  What passes is fanned out to every reader.  A reader is    *)
(* slower than the socket: one message sits in its TransformStream, those  *)
(* behind it wait for `writer.ready`.                                      *)
(*                                                                         *)
(* Chunk streams never begin.  The handler of "datastream-start" makes a   *)
(* ReadableStream whose start(), called by the constructor, reads the      *)
(* constant the constructor is to initialise: it throws, and the map of    *)
(* chunk streams stays empty.  So a start is dropped, and every chunk and  *)
(* end, which look their stream up, too.                                   *)
(***************************************************************************)
EXTENDS Naturals, Sequences, FiniteSets, SequencesExt

CONSTANTS
  Readers,    \* streams of the fanout that user code may hold
  Initial,    \* those of them that subscribe() makes
  Callback,   \* those of them that useCallback reads
  MaxSent     \* bound: messages the gateway sends

ASSUME ReaderSets == Callback \subseteq Initial /\ Initial \subseteq Readers
ASSUME SentBound == MaxSent \in Nat

VARIABLES
  connect,       \* the promise of connect()
  running,       \* #running
  socket,        \* #ws, as its events show it
  wire,          \* messages on their way
  parsing,       \* handlers that await safeParseAsync
  validating,    \* handlers that await the schema of the topic
  writers,       \* #writers of the fanout
  stage,         \* [Readers -> "none", "live", "closing", "done", "cancelled"]
  queue,         \* [Readers -> Seq(Message)] inside the TransformStream
  waiting,       \* [Readers -> Seq(Message)] waiting for writer.ready
  fanned,        \* history: every message given to fanout.write
  from,          \* history: [Readers -> Nat] what had been fanned out when the reader was made
  got,           \* history: [Readers -> Seq(Message)] what it has read
  sent           \* messages sent

connVars == <<connect, running, socket>>
handlerVars == <<parsing, validating>>
readerVars == <<writers, stage, queue, waiting>>
historyVars == <<fanned, from, got>>
vars == <<connVars, wire, handlerVars, readerVars, historyVars, sent>>

\* "plain": data of a topic without a schema, or a run message.  "checked": data of a
\* topic with one.  "other": another channel, an unknown topic, a start, a chunk or an end of
\* a stream, a kind that is not handled.
Kinds == {"plain", "checked", "other"}

Messages == [kind : Kinds, n : 1..MaxSent]

\* Nothing leaves its range, and what is still to be read belongs to a reader that reads.
TypeOK ==
  /\ connect \in {"idle", "fetching", "pending", "resolved", "rejected"}
  /\ running \in BOOLEAN
  /\ socket \in {"none", "connecting", "failed", "open", "closing", "closed"}
  /\ wire \in Seq(Messages) /\ parsing \in Seq(Messages)
  /\ validating \subseteq Messages
  /\ writers = {r \in Readers : stage[r] = "live"}
  /\ stage \in [Readers -> {"none", "live", "closing", "done", "cancelled"}]
  /\ queue \in [Readers -> Seq(Messages)] /\ waiting \in [Readers -> Seq(Messages)]
  /\ \A r \in Readers : /\ stage[r] # "live" => waiting[r] = <<>>
                        /\ stage[r] \notin {"live", "closing"} => queue[r] = <<>>
  /\ fanned \in Seq(Messages)
  /\ from \in [Readers -> Nat] /\ got \in [Readers -> Seq(Messages)]
  /\ sent \in 0..MaxSent
  /\ running => socket \in {"connecting", "failed", "open"}

Init ==
  /\ connect = "idle" /\ running = FALSE /\ socket = "none"
  /\ wire = <<>> /\ parsing = <<>> /\ validating = {}
  /\ writers = {} /\ stage = [r \in Readers |-> "none"]
  /\ queue = [r \in Readers |-> <<>>] /\ waiting = [r \in Readers |-> <<>>]
  /\ fanned = <<>> /\ from = [r \in Readers |-> 0] /\ got = [r \in Readers |-> <<>>]
  /\ sent = 0

-----------------------------------------------------------------------------
(* The fanout.                                                             *)

\* getJsonStream, getEncodedStream: `writers` gains the writer of a new TransformStream.
MakeStreams(R) ==
  /\ writers' = writers \cup R
  /\ stage' = [r \in Readers |-> IF r \in R THEN "live" ELSE stage[r]]
  /\ from' = [r \in Readers |-> IF r \in R THEN Len(fanned) ELSE from[r]]
  /\ UNCHANGED <<queue, waiting, fanned, got>>

\* write: `writer.ready` is resolved as long as nothing is queued in the writer.
Ready(r) == queue[r] = <<>>

\* Mutant: a writer that is not ready is passed over.
WriteToReady(m) ==
  /\ queue' = [r \in Readers |-> IF r \in writers /\ Ready(r) THEN <<m>> ELSE queue[r]]
  /\ fanned' = Append(fanned, m)
  /\ UNCHANGED <<writers, stage, waiting, from, got>>

Write(m) ==
  /\ queue' = [r \in Readers |-> IF r \in writers /\ Ready(r) THEN <<m>> ELSE queue[r]]
  /\ waiting' = [r \in Readers |->
                   IF r \in writers /\ ~Ready(r) THEN Append(waiting[r], m) ELSE waiting[r]]
  /\ fanned' = Append(fanned, m)
  /\ UNCHANGED <<writers, stage, from, got>>

\* Mutant: the writers are forgotten, not closed.
ForgetWriters ==
  /\ waiting' = [r \in Readers |-> IF r \in writers THEN <<>> ELSE waiting[r]]
  /\ stage' = [r \in Readers |-> IF r \in writers THEN "none" ELSE stage[r]]
  /\ queue' = [r \in Readers |-> IF r \in writers THEN <<>> ELSE queue[r]]
  /\ writers' = {}

\* close: what is queued can still be read, what waits for `ready` is refused by a
\* writer that is closing.
CloseWriters ==
  /\ stage' = [r \in Readers |-> IF r \in writers THEN "closing" ELSE stage[r]]
  /\ waiting' = [r \in Readers |-> IF r \in writers THEN <<>> ELSE waiting[r]]
  /\ writers' = {}
  /\ UNCHANGED queue

-----------------------------------------------------------------------------
(* connect() and close().                                                  *)

\* The token has a key, or must be fetched first.
Connect ==
  /\ connect = "idle"
  /\ \/ connect' = "fetching" /\ UNCHANGED <<running, socket>>
     \/ connect' = "pending" /\ running' = TRUE /\ socket' = "connecting"
  /\ UNCHANGED <<wire, handlerVars, readerVars, historyVars, sent>>

\* lazilyGetSubscriptionToken returns or throws, and `new WebSocket` may throw.
TokenArrives ==
  /\ connect = "fetching"
  /\ \/ connect' = "pending" /\ running' = TRUE /\ socket' = "connecting"
     \/ connect' = "rejected" /\ UNCHANGED <<running, socket>>
  /\ UNCHANGED <<wire, handlerVars, readerVars, historyVars, sent>>

\* onopen; subscribe() goes on and makes its streams before the next event.
Opens ==
  /\ socket = "connecting"
  /\ socket' = "open" /\ connect' = "resolved"
  /\ MakeStreams(Initial)
  /\ UNCHANGED <<running, wire, handlerVars, sent>>

\* onerror before the socket is open; onclose follows.
SocketFails ==
  /\ socket = "connecting"
  /\ socket' = "failed" /\ connect' = "rejected"
  /\ UNCHANGED <<running, wire, handlerVars, readerVars, historyVars, sent>>

\* The body of close(), which `running` guards.
Shut ==
  /\ running' = FALSE
  /\ CloseWriters

\* onclose: rejects connect() if the socket has never been open, then close().
SocketCloses ==
  /\ socket \in {"connecting", "failed", "open", "closing"}
  /\ socket' = "closed" /\ wire' = <<>>
  /\ connect' = IF connect = "pending" THEN "rejected" ELSE connect
  /\ IF running THEN Shut ELSE UNCHANGED <<running, readerVars>>
  /\ UNCHANGED <<parsing, validating, historyVars, sent>>

\* close() or unsubscribe() of the object subscribe() returned.
Close ==
  /\ connect = "resolved" /\ running
  /\ Shut
  /\ socket' = "closing"
  /\ UNCHANGED <<connect, wire, parsing, validating, historyVars, sent>>

\* User code asks for another stream, after a close too.
GetStream(r) ==
  /\ connect = "resolved" /\ stage[r] = "none"
  /\ MakeStreams({r})
  /\ UNCHANGED <<connVars, wire, handlerVars, sent>>

-----------------------------------------------------------------------------
(* Messages.                                                               *)

Sends(m) ==
  /\ socket = "open" /\ sent < MaxSent /\ m.n = sent + 1
  /\ wire' = Append(wire, m) /\ sent' = sent + 1
  /\ UNCHANGED <<connVars, handlerVars, readerVars, historyVars>>

\* onmessage begins: an open socket delivers in order.
Receives ==
  /\ socket = "open" /\ wire # <<>>
  /\ wire' = Tail(wire) /\ parsing' = Append(parsing, Head(wire))
  /\ UNCHANGED <<connVars, validating, readerVars, historyVars, sent>>

Ignore == UNCHANGED <<validating, readerVars, historyVars>>

\* The switch over msg.kind.
Handle(m) ==
  \/ m.kind = "other" /\ Ignore
  \/ m.kind = "plain" /\ Write(m) /\ UNCHANGED validating
  \/ m.kind = "checked" /\ validating' = validating \cup {m}
       /\ UNCHANGED <<readerVars, historyVars>>

\* Mutant: `running` is looked at before the await only.
ParsedUnchecked ==
  /\ parsing # <<>>
  /\ parsing' = Tail(parsing)
  /\ Handle(Head(parsing))
  /\ UNCHANGED <<connVars, wire, sent>>

\* safeParseAsync has settled: `running` is looked at after it.
Parsed ==
  /\ parsing # <<>>
  /\ parsing' = Tail(parsing)
  /\ IF running THEN Handle(Head(parsing)) ELSE Ignore
  /\ UNCHANGED <<connVars, wire, sent>>

\* The schema has settled, in whatever order schemas do; `running` is not looked at again.
Validated(m) ==
  /\ m \in validating
  /\ validating' = validating \ {m}
  /\ Write(m) \/ UNCHANGED <<readerVars, historyVars>>
  /\ UNCHANGED <<connVars, wire, parsing, sent>>

-----------------------------------------------------------------------------
(* User code.                                                              *)

\* A read takes the head; once the writer is empty `ready` lets all that waits in.
Read(r) ==
  /\ queue[r] # <<>>
  /\ r \in Callback => running
  /\ got' = [got EXCEPT ![r] = Append(@, Head(queue[r]))]
  /\ IF Len(queue[r]) = 1
       THEN queue' = [queue EXCEPT ![r] = waiting[r]] /\ waiting' = [waiting EXCEPT ![r] = <<>>]
       ELSE queue' = [queue EXCEPT ![r] = Tail(@)] /\ UNCHANGED waiting
  /\ UNCHANGED <<connVars, wire, handlerVars, writers, stage, fanned, from, sent>>

\* `done`; useCallback also stops, whatever is queued, when the subscription is closed.
ReadsEnd(r) ==
  /\ stage[r] = "closing" /\ (queue[r] = <<>> \/ (r \in Callback /\ ~running))
  /\ stage' = [stage EXCEPT ![r] = "done"]
  /\ queue' = [queue EXCEPT ![r] = <<>>]
  /\ UNCHANGED <<connVars, wire, handlerVars, writers, waiting, historyVars, sent>>

\* The reader cancels its stream: `writer.closed` rejects and the writer leaves the fanout.
CancelReader(r) ==
  /\ stage[r] \in {"live", "closing"} /\ r \notin Callback
  /\ stage' = [stage EXCEPT ![r] = "cancelled"]
  /\ writers' = writers \ {r}
  /\ queue' = [queue EXCEPT ![r] = <<>>] /\ waiting' = [waiting EXCEPT ![r] = <<>>]
  /\ UNCHANGED <<connVars, wire, handlerVars, historyVars, sent>>

SocketStep == Opens \/ SocketFails \/ SocketCloses
Reads(r) == Read(r) \/ ReadsEnd(r)

Next ==
  \/ Connect \/ TokenArrives \/ SocketStep \/ Close
  \/ \E m \in Messages : Sends(m)
  \/ Receives \/ Parsed
  \/ \E m \in validating : Validated(m)
  \/ \E r \in Readers : GetStream(r) \/ Reads(r) \/ CancelReader(r)

Spec == Init /\ [][Next]_vars

\* Requests and handshakes settle and closing handshakes end; a promise that has settled
\* runs its continuation; readers go on reading.  Nothing makes an open socket close.
FairSpec ==
  /\ Spec
  /\ WF_vars(TokenArrives)
  /\ WF_vars(socket # "open" /\ SocketStep)
  /\ WF_vars(Parsed)
  /\ \A r \in Readers : WF_vars(Reads(r))

-----------------------------------------------------------------------------
(* What must hold.                                                         *)

\* Whatever a reader is slow at, it reads what was fanned out since it was made, in that
\* order and without a gap: only a close may cut the end off (StreamFanout.write).
InOrder ==
  \A r \in Readers :
    LET mine == SubSeq(fanned, from[r] + 1, Len(fanned))
    IN  /\ IsPrefix(got[r] \o queue[r], mine)
        /\ stage[r] = "live" => got[r] \o queue[r] \o waiting[r] = mine

\* Only a message whose schema is awaited is overtaken by one that arrived later.
OnlyCheckedFallBehind ==
  \A i, j \in 1..Len(fanned) :
    i < j /\ fanned[j].kind # "checked" => fanned[i].n < fanned[j].n

\* Once the subscription is closed, all that is still fanned out are messages whose schema was
\* being awaited when it closed: a handler that was parsing then finds it closed.  A reader
\* made after the close hears nothing else (onmessage, getJsonStream).
ClosedIsQuiet ==
  [][~running => /\ validating' \subseteq validating
                 /\ fanned' # fanned => \E m \in validating : fanned' = Append(fanned, m)]_vars

\* subscribe() returns or throws, whichever way the token and the socket go wrong.
ConnectSettles ==
  connect \in {"fetching", "pending"} ~> connect \in {"resolved", "rejected"}

\* What waits for `ready` is not forgotten: it is let in, or the stream is over.
Delivered == \A r \in Readers : waiting[r] # <<>> ~> waiting[r] = <<>>

\* A reader made while the subscription runs sees its end once the socket is gone, whoever
\* closed it.
ReadersEnd ==
  \A r \in Readers :
    [](running /\ stage[r] = "live" =>
         [](socket = "closed" => <>(stage[r] \in {"done", "cancelled"})))

=============================================================================
