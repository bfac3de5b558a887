----------------------- MODULE DurableEndpointProofs -----------------------
(***************************************************************************)
(* What DurableEndpoint promises whatever the bounds and faults: its       *)
(* types, that a stream leads its client on, that the request and the      *)
(* server never both execute the run, and that a success is the truth.     *)
(***************************************************************************)
EXTENDS DurableEndpoint, TLAPS

\* User code and the core loop take turns: one checkpoint at a time, a step only while user
\* code waits for it.
Turn ==
  /\ Len(queue) <= 1
  /\ user = "code" => queue = <<>>
  /\ pc = "step" => queue = <<>> /\ user = "waiting"
  /\ user = "waiting" => at < N
  /\ queue # <<>> /\ Head(queue) = "step" => user = "waiting"

\* A checkpoint after which the loop goes on is that of a step that has succeeded; any other
\* ends the request.
StepTask == [NoTask EXCEPT !.op = "step"]

Tasks ==
  /\ pc = "save" => /\ task = StepTask \/ task.reply # "none"
                    /\ task.op \in Ops
                    /\ task.close \in {"no", "switch"}
  /\ pc = "close" => /\ task.close \in {"end", "failed", "succeeded"}
                     /\ task.op # "none" => task.close = "succeeded"
  /\ background.stage # "none" => background.close \in {"no", "end", "failed"}
  /\ background.stage = "save" => background.op \in Ops
  /\ background.stage = "close" => background.close # "no"
  /\ pc # "done" => background = NoBackground
  /\ pc \in {"loop", "step", "save"} => run \in {"unknown", "sync"}

\* The server attempts the run once it is its own, and not when it has ended.
Attempts ==
  /\ run \in {"unknown", "sync"} => attempts = 0
  /\ run = "async" => attempts < MaxAttempts

HasEvent(types) == \E i \in DOMAIN stream : EventAt(i, types)

LeadsOn == Terminal \cup {"redirect"}

\* The redirect event is asked for as soon as the run is known, and written unless the
\* stream is over; a stream that ends before its last checkpoint ends with the outcome.
Redirects ==
  /\ sse /\ known => redirect # "none"
  /\ redirect # "none" => known
  /\ sse /\ redirect = "sent" /\ ~broken => HasEvent(LeadsOn)
  /\ sse /\ closed => pc = "done"
  /\ sse /\ closed /\ ~broken /\ background.stage = "save" => HasEvent(LeadsOn)
  /\ sse /\ closed /\ ~broken => HasEvent(LeadsOn) \/ redirect = "failed" \/ ~known

-----------------------------------------------------------------------------
(* The types, by who changes them.                                         *)

UserT == at \in 0 .. N /\ user \in {"code", "waiting", "over"}
QueueT == queue \in Seq(Checkpoints)
LoopT == /\ pc \in {"loop", "step", "save", "close", "done"}
         /\ task \in Task /\ background \in Background
ReplyT == known \in BOOLEAN /\ response \in Replies
StreamT == /\ activated \in BOOLEAN /\ stream \in Seq(Event) /\ closed \in BOOLEAN
           /\ broken \in BOOLEAN /\ redirect \in {"none", "fetching", "sent", "failed"}
ServerT == /\ run \in {"unknown", "sync", "async", "completed", "failed"}
           /\ attempts \in 0 .. MaxAttempts
BoundT == /\ sse \in BOOLEAN /\ piped \in Nat
          /\ pushes \in 0 .. MaxPushes /\ faults \in 0 .. MaxFaults /\ unsaved \subseteq Ops

LEMMA TypeParts ==
  TypeOK <=> UserT /\ QueueT /\ LoopT /\ ReplyT /\ StreamT /\ ServerT /\ client \in Client /\ BoundT
  BY DEF TypeOK, UserT, QueueT, LoopT, ReplyT, StreamT, ServerT, BoundT

Types == UserT /\ QueueT /\ LoopT /\ ReplyT /\ StreamT /\ ServerT /\ client \in Client /\ BoundT

Inv == Types /\ Turn /\ Tasks /\ Attempts /\ Redirects

LEMMA Names ==
  /\ Ops = {"step", "stepError", "stepFailed", "plan", "runError", "runFailed", "runComplete"}
  /\ Closes = {"no", "end", "failed", "succeeded", "switch"}
  /\ Replies = {"none", "sse", "json", "error", "redirect"}
  BY DEF Ops, Closes, Replies

LEMMA Tasking ==
  /\ \A op \in Ops \cup {"none"}, close \in Closes, reply \in Replies :
       [op |-> op, close |-> close, reply |-> reply] \in Task
  /\ \A op \in Ops \cup {"none"}, close \in Closes, stage \in {"none", "save", "close"} :
       [stage |-> stage, op |-> op, close |-> close] \in Background
  /\ NoTask \in Task /\ NoBackground \in Background /\ StepTask \in Task
  /\ NoBackground.stage = "none" /\ StepTask.op = "step" /\ StepTask.close = "no"
  /\ StepTask.reply = "none"
  /\ \A op \in Ops : SwitchTask(op) \in Task /\ SwitchTask(op).reply # "none"
  BY Names DEF Task, Background, NoTask, NoBackground, StepTask, SwitchTask

LEMMA Events ==
  /\ \A t \in {"redirect", "succeeded", "failed"} :
       [type |-> t] \in Event /\ [type |-> t].type \in LeadsOn
  /\ \A t \in {"chunk", "commit", "rollback"} : \A i \in 0 .. N : OfStep(t, i) \in Event
  BY DEF Event, OfStep, LeadsOn, Terminal

-----------------------------------------------------------------------------
(* The stream.                                                             *)

\* Writing keeps what was written.
LEMMA Writing ==
  ASSUME StreamT, NEW event \in Event, stream' = Written(event)
  PROVE  /\ stream' \in Seq(Event)
         /\ HasEvent(LeadsOn) => HasEvent(LeadsOn)'
         /\ ~closed /\ ~broken /\ event.type \in LeadsOn => HasEvent(LeadsOn)'
<1>1. CASE closed \/ broken
  <2>1. stream' = stream
    BY <1>1 DEF Written
  <2>2. QED BY <1>1, <2>1 DEF HasEvent, EventAt, StreamT
<1>2. CASE ~(closed \/ broken)
  <2>1. stream' = Append(stream, event) /\ stream \in Seq(Event)
    BY <1>2 DEF Written, StreamT
  <2>2. /\ stream' \in Seq(Event) /\ Len(stream') = Len(stream) + 1
        /\ \A i \in 1..Len(stream) : stream'[i] = stream[i]
        /\ stream'[Len(stream) + 1] = event
        /\ DOMAIN stream = 1..Len(stream) /\ DOMAIN stream' = 1..Len(stream')
        /\ Len(stream) \in Nat
    BY <2>1
  <2>3. ASSUME HasEvent(LeadsOn)
        PROVE  HasEvent(LeadsOn)'
    <3>1. PICK i \in 1..Len(stream) : stream[i].type \in LeadsOn
      BY <2>2, <2>3 DEF HasEvent, EventAt
    <3>2. i \in 1..Len(stream') /\ stream'[i].type \in LeadsOn
      BY <2>2, <3>1
    <3>3. LeadsOn' = LeadsOn
      BY DEF LeadsOn, Terminal
    <3>4. QED BY <2>2, <3>2, <3>3 DEF HasEvent, EventAt
  <2>4. ASSUME event.type \in LeadsOn
        PROVE  HasEvent(LeadsOn)'
    <3>1. Len(stream) + 1 \in DOMAIN stream' /\ stream'[Len(stream) + 1].type \in LeadsOn
      BY <2>2, <2>4
    <3>2. LeadsOn' = LeadsOn
      BY DEF LeadsOn, Terminal
    <3>3. QED BY <3>1, <3>2 DEF HasEvent, EventAt
  <2>5. QED BY <2>2, <2>3, <2>4
<1>3. QED BY <1>1, <1>2

\* A step that leaves redirect and end alone.
LEMMA SameTelling ==
  ASSUME Redirects, UNCHANGED <<sse, known, redirect, closed, broken>>,
         HasEvent(LeadsOn) => HasEvent(LeadsOn)',
         sse /\ closed => pc' = "done",
         sse /\ closed /\ background'.stage = "save" => background.stage = "save"
  PROVE  Redirects'
  BY DEF Redirects

LEMMA SameStream ==
  ASSUME UNCHANGED stream
  PROVE  HasEvent(LeadsOn) => HasEvent(LeadsOn)'
  BY DEF HasEvent, EventAt, LeadsOn, Terminal

\* The stream is closed, once no redirect is on its way.
LEMMA ClosingTells ==
  ASSUME Redirects, StreamT, NEW kind \in {"end", "failed", "succeeded"}, CloseWriter(kind),
         redirect # "fetching", UNCHANGED <<sse, known>>, pc' = "done",
         background'.stage = "save" /\ sse =>
           (background.stage = "save" /\ closed) \/ (kind = "succeeded" /\ ~closed)
  PROVE  Redirects' /\ stream' \in Seq(Event)
<1>1. UNCHANGED <<activated, broken, redirect>> /\ closed'
  BY DEF CloseWriter
<1>2. /\ stream' \in Seq(Event)
      /\ HasEvent(LeadsOn) => HasEvent(LeadsOn)'
      /\ kind = "succeeded" /\ ~closed /\ ~broken => HasEvent(LeadsOn)'
  <2>1. CASE kind = "end"
    BY <2>1, SameStream DEF CloseWriter, StreamT
  <2>2. CASE kind \in {"failed", "succeeded"}
    <3>1. stream' = Written([type |-> kind]) /\ [type |-> kind] \in Event /\ [type |-> kind].type \in LeadsOn
      BY <2>2, Events DEF CloseWriter
    <3>2. QED BY <3>1, Writing
  <2>3. QED BY <2>1, <2>2
<1>3. QED BY <1>1, <1>2 DEF Redirects, StreamT

-----------------------------------------------------------------------------
(* User code.                                                              *)

LEMMA CheckpointSet ==
  ASSUME Inv, user = "code", NEW type \in Checkpoints, NEW then \in {"waiting", "over"},
         then = "waiting" => at < N, type = "step" => then = "waiting", SetCheckpoint(type, then)
  PROVE  Inv'
<1>1. queue = <<>> /\ pc # "step"
  BY DEF Inv, Turn
<1>2. queue' = <<type>> /\ user' = then
      /\ UNCHANGED <<sse, at, pc, task, background, known, response, streamVars, serverVars,
                     client, piped, pushes, faults, unsaved>>
  BY <1>1 DEF SetCheckpoint, boundVars
<1>3. /\ queue' \in Seq(Checkpoints) /\ Len(queue') = 1 /\ queue' # <<>> /\ Head(queue') = type
  BY <1>2
<1>4. Types'
  BY <1>2, <1>3 DEF Inv, Types, UserT, QueueT, LoopT, ReplyT, StreamT, ServerT, BoundT, streamVars, serverVars, boundVars
<1>5. Turn'
  BY <1>1, <1>2, <1>3 DEF Turn
<1>6. Tasks' /\ Attempts'
  BY <1>2 DEF Inv, Tasks, Attempts, serverVars, boundVars
<1>7. Redirects'
  BY <1>2, SameStream, SameTelling DEF Inv, Redirects, streamVars
<1>8. QED BY <1>4, <1>5, <1>6, <1>7 DEF Inv

LEMMA UserInv ==
  ASSUME Inv, User
  PROVE  Inv'
<1>1. CASE FindSteps
  BY <1>1, CheckpointSet DEF FindSteps, Checkpoints
<1>2. CASE Return
  BY <1>2, CheckpointSet DEF Return, Checkpoints
<1>3. CASE Throw
  BY <1>3, CheckpointSet DEF Throw, Checkpoints
<1>4. QED BY <1>1, <1>2, <1>3 DEF User

LEMMA PushInv ==
  ASSUME Inv, Push
  PROVE  Inv'
<1> DEFINE step == IF pc = "step" THEN at + 1 ELSE 0
<1>1. step \in 0 .. N
  <2>1. N \in Nat /\ at \in 0 .. N
    BY EndpointBounds DEF Inv, Types, UserT
  <2>2. pc = "step" => at < N
    BY DEF Inv, Turn
  <2>3. QED BY <2>1, <2>2
<1>2. OfStep("chunk", step) \in Event /\ stream' = Written(OfStep("chunk", step))
  BY <1>1, Events DEF Push
<1>3. stream' \in Seq(Event) /\ (HasEvent(LeadsOn) => HasEvent(LeadsOn)')
  BY <1>2, Writing DEF Inv, Types
<1>4. redirect' = redirect
  BY DEF Push, RedirectIfReady, Inv, Redirects
<1>5. pushes' \in 0 .. MaxPushes
  <2>1. pushes' = pushes + 1 /\ pushes < MaxPushes /\ pushes \in 0 .. MaxPushes /\ MaxPushes \in Nat
    BY EndpointBounds DEF Push, Inv, Types, BoundT
  <2>2. QED BY <2>1
<1>6. activated' = TRUE /\ response' \in Replies
      /\ UNCHANGED <<sse, at, user, queue, pc, task, background, known, closed, broken, run, attempts,
                     client, faults, unsaved>>
  BY Names DEF Push, Inv, Types, ReplyT, userVars, loopVars, serverVars, boundVars
<1>7. Types'
  <2>1. piped' \in Nat
    BY <1>3 DEF Push, Inv, Types, BoundT
  <2>2. QED
    BY <1>3, <1>4, <1>5, <1>6, <2>1
    DEF Inv, Types, UserT, QueueT, LoopT, ReplyT, StreamT, ServerT, BoundT
<1>8. Turn' /\ Tasks' /\ Attempts'
  BY <1>6 DEF Inv, Turn, Tasks, Attempts
<1>9. Redirects'
  BY <1>3, <1>4, <1>6, SameTelling DEF Inv, Redirects
<1>10. QED BY <1>7, <1>8, <1>9 DEF Inv

LEMMA FetchedInv ==
  ASSUME Inv, RedirectFetched
  PROVE  Inv'
<1>1. UNCHANGED <<sse, at, user, queue, pc, task, background, known, response, activated, closed, broken,
                  run, attempts, client, piped, pushes, unsaved>>
  BY DEF RedirectFetched, userVars, loopVars, serverVars, boundVars
<1>2. redirect = "fetching" /\ known
  BY DEF RedirectFetched, Inv, Redirects
<1>3. CASE redirect' = "sent" /\ stream' = Written([type |-> "redirect"]) /\ UNCHANGED faults
  <2>1. [type |-> "redirect"] \in Event /\ [type |-> "redirect"].type \in LeadsOn
    BY Events
  <2>2. /\ stream' \in Seq(Event)
        /\ HasEvent(LeadsOn) => HasEvent(LeadsOn)'
        /\ ~closed /\ ~broken => HasEvent(LeadsOn)'
    BY <1>3, <2>1, Writing DEF Inv, Types
  <2>3. Types'
    BY <1>1, <1>3, <2>2 DEF Inv, Types, UserT, QueueT, LoopT, ReplyT, StreamT, ServerT, BoundT
  <2>4. Turn' /\ Tasks' /\ Attempts'
    BY <1>1 DEF Inv, Turn, Tasks, Attempts
  <2>5. Redirects'
    BY <1>1, <1>2, <1>3, <2>2 DEF Inv, Redirects
  <2>6. QED BY <2>3, <2>4, <2>5 DEF Inv
<1>4. CASE redirect' = "failed" /\ UNCHANGED stream /\ faults < MaxFaults /\ faults' = faults + 1
  <2>1. faults' \in 0 .. MaxFaults
    BY <1>4, EndpointBounds DEF Inv, Types, BoundT
  <2>2. Types'
    BY <1>1, <1>4, <2>1 DEF Inv, Types, UserT, QueueT, LoopT, ReplyT, StreamT, ServerT, BoundT
  <2>3. Turn' /\ Tasks' /\ Attempts'
    BY <1>1 DEF Inv, Turn, Tasks, Attempts
  <2>4. Redirects'
    BY <1>1, <1>2, <1>4, SameStream DEF Inv, Redirects
  <2>5. QED BY <2>2, <2>3, <2>4 DEF Inv
<1>5. QED BY <1>3, <1>4 DEF RedirectFetched

-----------------------------------------------------------------------------
(* The core loop takes a checkpoint.                                       *)

\* The parts of the state a turn of the loop leaves alone, and what it finds.
LEMMA Looping ==
  ASSUME Inv, NEW type, Loop(type)
  PROVE  /\ queue' = <<>> /\ QueueT' /\ UserT' /\ ServerT' /\ client' \in Client /\ BoundT'
         /\ UNCHANGED <<sse, at, user, known, run, attempts, client, piped, pushes, faults, unsaved>>
         /\ pc = "loop" /\ (sse => ~closed) /\ background = NoBackground
         /\ user # "code" /\ (type = "step" => user = "waiting")
         /\ run \in {"unknown", "sync"} /\ Attempts'
<1>1. /\ pc = "loop" /\ queue # <<>> /\ Head(queue) = type /\ queue' = Tail(queue)
      /\ UNCHANGED <<sse, at, user, known, run, attempts, client, piped, pushes, faults, unsaved>>
  BY DEF Loop, userVars, serverVars, boundVars
<1>2. queue' = <<>>
  <2>1. queue \in Seq(Checkpoints) /\ Len(queue) <= 1
    BY DEF Inv, Types, QueueT, Turn
  <2>2. QED BY <1>1, <2>1
<1>3. QueueT'
  BY <1>2 DEF QueueT
<1>4. UserT' /\ ServerT' /\ client' \in Client /\ BoundT'
  BY <1>1 DEF Inv, Types, UserT, ServerT, BoundT
<1>5. (sse => ~closed) /\ background = NoBackground /\ run \in {"unknown", "sync"}
  BY <1>1 DEF Inv, Redirects, Tasks
<1>6. user # "code" /\ (type = "step" => user = "waiting")
  BY <1>1 DEF Inv, Turn
<1>7. Attempts'
  BY <1>1 DEF Inv, Attempts
<1>8. QED BY <1>1, <1>2, <1>3, <1>4, <1>5, <1>6, <1>7

LEMMA SavingInv ==
  ASSUME Inv, NEW type, Loop(type), NEW op \in Ops, NEW close \in {"no", "switch"},
         NEW reply \in Replies \ {"none"}, Save(op, close, reply)
  PROVE  Inv'
<1>1. /\ pc' = "save" /\ task' = [op |-> op, close |-> close, reply |-> reply]
      /\ UNCHANGED <<background, response, activated, stream, closed, broken, redirect>>
  BY DEF Save, streamVars
<1>2. /\ queue' = <<>> /\ QueueT' /\ UserT' /\ ServerT' /\ client' \in Client /\ BoundT'
      /\ UNCHANGED <<sse, at, user, known, run, attempts, client, piped, pushes, faults, unsaved>>
      /\ pc = "loop" /\ (sse => ~closed) /\ background = NoBackground
      /\ user # "code" /\ run \in {"unknown", "sync"} /\ Attempts'
  BY Looping
<1>3. task' \in Task
  <2>1. close \in Closes
    BY Names
  <2>2. QED BY <1>1, <2>1, Tasking
<1>4. Types'
  BY <1>1, <1>2, <1>3 DEF Inv, Types, LoopT, ReplyT, StreamT
<1>5. Turn'
  BY <1>1, <1>2 DEF Inv, Turn
<1>6. Tasks'
  BY <1>1, <1>2, Tasking DEF Tasks
<1>7. Redirects'
  BY <1>1, <1>2, SameStream, SameTelling DEF Inv
<1>8. QED BY <1>2, <1>4, <1>5, <1>6, <1>7 DEF Inv

LEMMA SwitchInv ==
  ASSUME Inv, NEW type, Loop(type), NEW op \in Ops, Switch(op)
  PROVE  Inv'
<1>1. SwitchTask(op).reply \in Replies \ {"none"}
  BY Names DEF SwitchTask
<1>2. QED BY <1>1, SavingInv DEF Switch

\* The loop has taken its last checkpoint: the request is answered, or its stream closed.
LEMMA LastTurn ==
  ASSUME Inv, NEW type, Loop(type), pc' \in {"close", "done"}, task' \in Task, background' \in Background,
         response' \in Replies, StreamT',
         pc' = "close" => /\ background' = NoBackground
                          /\ task'.close \in {"end", "failed", "succeeded"}
                          /\ task'.op # "none" => task'.close = "succeeded",
         background'.stage # "none" => background'.close \in {"no", "end", "failed"},
         background'.stage = "close" => background'.close # "no",
         background'.stage = "save" => background'.op \in Ops,
         Redirects'
  PROVE  Inv'
<1>1. /\ queue' = <<>> /\ QueueT' /\ UserT' /\ ServerT' /\ client' \in Client /\ BoundT'
      /\ UNCHANGED <<user, known>> /\ user # "code" /\ Attempts' /\ at' = at
  BY Looping
<1>2. Types'
  BY <1>1 DEF Inv, Types, LoopT, ReplyT
<1>3. Turn'
  BY <1>1 DEF Inv, Turn
<1>4. Tasks'
  BY DEF Tasks
<1>5. QED BY <1>1, <1>2, <1>3, <1>4 DEF Inv

LEMMA ReplyFacts ==
  ASSUME Inv, NEW reply \in Replies, Reply(reply)
  PROVE  pc' = "done" /\ task' \in Task /\ response' \in Replies
  BY Tasking DEF Reply, Inv, Types, ReplyT

LEMMA TakeStepInv ==
  ASSUME Inv, TakeStep
  PROVE  Inv'
<1>1. Loop("step") /\ pc' = "step"
      /\ UNCHANGED <<task, background, response, activated, stream, closed, broken, redirect>>
  BY DEF TakeStep, streamVars
<1>2. /\ queue' = <<>> /\ QueueT' /\ UserT' /\ ServerT' /\ client' \in Client /\ BoundT'
      /\ UNCHANGED <<sse, at, user, known, run, attempts, client, piped, pushes, faults, unsaved>>
      /\ pc = "loop" /\ (sse => ~closed) /\ background = NoBackground
      /\ user = "waiting" /\ run \in {"unknown", "sync"} /\ Attempts'
  BY <1>1, Looping
<1>3. Types'
  BY <1>1, <1>2 DEF Inv, Types, LoopT, ReplyT, StreamT
<1>4. Turn'
  BY <1>1, <1>2 DEF Inv, Turn
<1>5. Tasks'
  BY <1>1, <1>2, Tasking DEF Tasks
<1>6. Redirects'
  BY <1>1, <1>2, SameStream, SameTelling DEF Inv
<1>7. QED BY <1>2, <1>3, <1>4, <1>5, <1>6 DEF Inv

LEMMA TakeResolvedInv ==
  ASSUME Inv, TakeResolved
  PROVE  Inv'
<1>1. Loop("resolved")
  BY DEF TakeResolved
<1>2. /\ UNCHANGED <<sse, known>> /\ (sse => ~closed) /\ background = NoBackground
  BY <1>1, Looping
<1>3. CASE sse
  <2>1. /\ pc' = "close" /\ task' = [op |-> "runComplete", close |-> "succeeded", reply |-> "sse"]
        /\ UNCHANGED <<background, response, activated, stream, closed, broken, redirect>>
    BY <1>3 DEF TakeResolved, streamVars
  <2>2. task' \in Task
    BY <2>1, Tasking, Names
  <2>3. Redirects'
    BY <1>2, <2>1, SameStream, SameTelling DEF Inv
  <2>4. background' \in Background /\ response' \in Replies /\ StreamT'
    BY <2>1 DEF Inv, Types, LoopT, ReplyT, StreamT
  <2>5. background'.stage = "none"
    BY <1>2, <2>1, Tasking
  <2>6. background' = NoBackground
    BY <1>2, <2>1
  <2>7. pc' \in {"close", "done"} /\ task'.close = "succeeded"
    BY <2>1
  <2>8. QED BY <1>1, <2>2, <2>3, <2>4, <2>5, <2>6, <2>7, LastTurn
<1>4. CASE ~sse
  <2>1. StreamT'
    <3>1. CASE activated
      <4>1. CloseWriter("succeeded")
        BY <1>4, <3>1 DEF TakeResolved
      <4>2. stream' = Written([type |-> "succeeded"])
        BY <4>1 DEF CloseWriter
      <4>3. stream' \in Seq(Event)
        BY <4>2, Events, Writing DEF Inv, Types
      <4>4. QED BY <4>1, <4>3 DEF CloseWriter, Inv, Types, StreamT
    <3>2. CASE ~activated
      BY <1>4, <3>2 DEF TakeResolved, Inv, Types, StreamT, streamVars
    <3>3. QED BY <3>1, <3>2
  <2>2. redirect' = redirect
    BY <1>4 DEF TakeResolved, CloseWriter, streamVars
  <2>3. Redirects'
    BY <1>2, <1>4, <2>2 DEF Inv, Redirects
  <2>4. CASE /\ pc' = "save"
             /\ task' = [op |-> "runComplete", close |-> "no", reply |-> "json"]
             /\ UNCHANGED <<background, response>>
    <3>1. /\ queue' = <<>> /\ QueueT' /\ UserT' /\ ServerT' /\ client' \in Client /\ BoundT'
          /\ UNCHANGED <<user, run, known>> /\ user # "code" /\ at' = at /\ run \in {"unknown", "sync"} /\ Attempts'
      BY <1>1, Looping
    <3>2. task' \in Task
      BY <2>4, Tasking, Names
    <3>3. Types'
      BY <2>1, <2>4, <3>1, <3>2 DEF Inv, Types, LoopT, ReplyT
    <3>4. Turn'
      BY <2>4, <3>1 DEF Inv, Turn
    <3>5. Tasks'
      BY <1>2, <2>4, <3>1, Tasking, Names DEF Tasks
    <3>6. QED BY <2>3, <3>1, <3>3, <3>4, <3>5 DEF Inv
  <2>5. CASE Reply("json") /\ background' = [stage |-> "save", op |-> "runComplete", close |-> "no"]
    <3>1. pc' = "done" /\ task' \in Task /\ response' \in Replies
      BY <2>5, Names, ReplyFacts
    <3>2. background' \in Background /\ background'.op \in Ops
      BY <2>5, Names, Tasking
    <3>3. QED BY <1>1, <2>1, <2>3, <2>5, <3>1, <3>2, LastTurn
  <2>6. QED BY <1>4, <2>4, <2>5 DEF TakeResolved, Save
<1>5. QED BY <1>3, <1>4

LEMMA TakeRejectedInv ==
  ASSUME Inv, TakeRejected
  PROVE  Inv'
<1>1. PICK final \in BOOLEAN :
        /\ Loop(IF final THEN "rejectedFinal" ELSE "rejected")
        /\ IF activated /\ sse
             THEN /\ pc' = "done" /\ task' = NoTask
                  /\ background' = [stage |-> "save", op |-> IF final THEN "runFailed" ELSE "runError",
                                    close |-> IF final THEN "failed" ELSE "end"]
                  /\ UNCHANGED <<response, streamVars>>
             ELSE IF final
               THEN Reply("error") /\ UNCHANGED <<background, streamVars>>
               ELSE Switch("runError")
  BY DEF TakeRejected
<1> DEFINE type == IF final THEN "rejectedFinal" ELSE "rejected"
<1>2. Loop(type)
  BY <1>1
<1> HIDE DEF type
<1>3. UNCHANGED <<sse, known>> /\ (sse => ~closed) /\ background = NoBackground
  BY <1>2, Looping
<1>4. CASE activated /\ sse
  <2>1. /\ pc' = "done" /\ task' = NoTask /\ UNCHANGED <<response, activated, stream, closed, broken, redirect>>
        /\ background' = [stage |-> "save", op |-> IF final THEN "runFailed" ELSE "runError",
                          close |-> IF final THEN "failed" ELSE "end"]
    BY <1>1, <1>4 DEF streamVars
  <2>2. /\ background' \in Background /\ background'.stage = "save"
        /\ background'.close \in {"end", "failed"} /\ background'.op \in Ops
    <3>1. CASE final
      BY <2>1, <3>1, Names, Tasking
    <3>2. CASE ~final
      BY <2>1, <3>2, Names, Tasking
    <3>3. QED BY <3>1, <3>2
  <2>3. Redirects'
    BY <1>3, <2>1, SameStream, SameTelling DEF Inv
  <2>4. task' \in Task /\ response' \in Replies /\ StreamT'
    BY <2>1, Tasking DEF Inv, Types, ReplyT, StreamT
  <2>5. QED BY <1>2, <2>1, <2>2, <2>3, <2>4, LastTurn
<1>5. CASE ~(activated /\ sse) /\ final
  <2>1. Reply("error") /\ UNCHANGED <<background, activated, stream, closed, broken, redirect>>
    BY <1>1, <1>5 DEF streamVars
  <2>2. pc' = "done" /\ task' \in Task /\ response' \in Replies
    BY <2>1, Names, ReplyFacts
  <2>3. Redirects'
    BY <1>3, <2>1, <2>2, SameStream, SameTelling DEF Inv
  <2>4. StreamT' /\ background' \in Background /\ background'.stage = "none"
    BY <1>3, <2>1, Tasking DEF Inv, Types, StreamT
  <2>5. QED BY <1>2, <2>2, <2>3, <2>4, LastTurn
<1>6. CASE ~(activated /\ sse) /\ ~final
  BY <1>1, <1>2, <1>6, Names, SwitchInv
<1>7. QED BY <1>4, <1>5, <1>6

-----------------------------------------------------------------------------
(* Steps and checkpoints.                                                  *)

LEMMA StepOverInv ==
  ASSUME Inv, NEW event \in {"commit", "rollback"}, StepOver(event), pc' = "save", task' \in Task,
         task' = StepTask \/ task'.reply # "none", task'.op \in Ops, task'.close \in {"no", "switch"},
         \/ UNCHANGED <<at, user>>
         \/ at' = at + 1 /\ user' = "code"
  PROVE  Inv'
<1>1. /\ pc = "step" /\ stream' = Written(OfStep(event, at + 1))
      /\ UNCHANGED <<sse, queue, background, known, response, activated, closed, broken,
                     redirect, run, attempts, client, piped, pushes, faults, unsaved>>
  BY DEF StepOver, serverVars, boundVars
<1>2. at + 1 \in 0 .. N /\ queue = <<>> /\ user = "waiting"
  <2>1. N \in Nat /\ at \in 0 .. N
    BY EndpointBounds DEF Inv, Types, UserT
  <2>2. at < N /\ queue = <<>> /\ user = "waiting"
    BY <1>1 DEF Inv, Turn
  <2>3. QED BY <2>1, <2>2
<1>3. stream' \in Seq(Event) /\ (HasEvent(LeadsOn) => HasEvent(LeadsOn)')
  BY <1>1, <1>2, Events, Writing DEF Inv, Types
<1>4. UserT'
  BY <1>2 DEF Inv, Types, UserT
<1>5. Types'
  BY <1>1, <1>3, <1>4 DEF Inv, Types, QueueT, LoopT, ReplyT, StreamT, ServerT, BoundT
<1>6. Turn'
  <2>1. user' = "waiting" => at' < N
    BY <1>1 DEF Inv, Turn
  <2>2. QED BY <1>1, <1>2, <2>1 DEF Inv, Turn
<1>7. Tasks' /\ Attempts'
  BY <1>1, Tasking DEF Inv, Tasks, Attempts
<1>8. Redirects'
  <2>1. sse => ~closed
    BY <1>1 DEF Inv, Redirects
  <2>2. QED BY <1>1, <1>3, <2>1, SameTelling DEF Inv
<1>9. QED BY <1>5, <1>6, <1>7, <1>8 DEF Inv

LEMMA StepInv ==
  ASSUME Inv, StepEnds \/ StepFails
  PROVE  Inv'
<1>1. CASE StepEnds
  <2>1. task' = StepTask
    BY <1>1 DEF StepEnds, StepTask
  <2>2. QED BY <1>1, <2>1, Tasking, Names, StepOverInv DEF StepEnds
<1>2. CASE StepFails
  <2>1. PICK op \in {"stepError", "stepFailed"} : pc' = "save" /\ task' = SwitchTask(op)
    BY <1>2 DEF StepFails
  <2>2. task' \in Task /\ task'.reply # "none" /\ task'.close = "switch" /\ task'.op \in Ops
    <3>1. SwitchTask(op).close = "switch" /\ SwitchTask(op).op = op
      BY DEF SwitchTask
    <3>2. QED BY <2>1, <3>1, Tasking, Names
  <2>3. QED BY <1>2, <2>1, <2>2, StepOverInv DEF StepFails
<1>3. QED BY <1>1, <1>2

\* What the server makes of a checkpoint.
LEMMA Applying ==
  ASSUME Inv, NEW op, run' = run \/ run' = Applied(op), UNCHANGED attempts
  PROVE  /\ ServerT' /\ Attempts'
         /\ op = "step" /\ run \in {"unknown", "sync"} => run' \in {"unknown", "sync"}
<1>1. run \in {"unknown", "sync", "async", "completed", "failed"}
      /\ attempts \in 0 .. MaxAttempts /\ MaxAttempts \in Nat \ {0}
  BY EndpointBounds DEF Inv, Types, ServerT
<1>2. run' \in {"unknown", "sync", "async", "completed", "failed"}
      /\ (op = "step" /\ run \in {"unknown", "sync"} => run' \in {"unknown", "sync"})
      /\ (run' \in {"unknown", "sync"} => run \in {"unknown", "sync"})
      /\ (run' = "async" => run \in {"unknown", "sync", "async"})
  BY <1>1 DEF Applied, Ended
<1>3. ServerT'
  BY <1>1, <1>2 DEF ServerT
<1>4. Attempts'
  BY <1>1, <1>2 DEF Inv, Attempts
<1>5. QED BY <1>2, <1>3, <1>4

LEMMA Checkpointing ==
  ASSUME Inv, NEW op, Checkpointed(op), sse /\ closed => pc' = "done" /\ background.stage = "save",
         background'.stage # "save"
  PROVE  /\ UserT' /\ QueueT' /\ StreamT' /\ ServerT' /\ client' \in Client /\ BoundT'
         /\ Attempts' /\ Redirects' /\ known' = TRUE
         /\ UNCHANGED <<at, user, queue>>
         /\ op = "step" /\ run \in {"unknown", "sync"} => run' \in {"unknown", "sync"}
<1>1. /\ run' = Applied(op) /\ known' = TRUE
      /\ redirect' = (IF ~known /\ sse /\ redirect = "none" THEN "fetching" ELSE redirect)
      /\ UNCHANGED <<sse, at, user, queue, activated, stream, closed, broken, attempts, client, piped, pushes, faults, unsaved>>
  BY DEF Checkpointed, RedirectIfReady, userVars, boundVars
<1>2. /\ ServerT' /\ Attempts'
      /\ op = "step" /\ run \in {"unknown", "sync"} => run' \in {"unknown", "sync"}
  BY <1>1, Applying
<1>3. UserT' /\ QueueT' /\ StreamT' /\ client' \in Client /\ BoundT'
  BY <1>1 DEF Inv, Types, UserT, QueueT, StreamT, BoundT
<1>4. HasEvent(LeadsOn) => HasEvent(LeadsOn)'
  BY <1>1, SameStream
<1>5. Redirects'
  BY <1>1, <1>4 DEF Inv, Redirects
<1>6. QED BY <1>1, <1>2, <1>3, <1>5

LEMMA Unsaving ==
  ASSUME Inv, NEW op \in Ops, Unsaved(op), sse /\ closed => pc' = "done", background'.stage # "save"
  PROVE  /\ UserT' /\ QueueT' /\ StreamT' /\ ServerT' /\ client' \in Client /\ BoundT'
         /\ Attempts' /\ Redirects' /\ UNCHANGED <<at, user, queue, known>>
<1>1. /\ run' = run \/ run' = Applied(op)
      /\ faults < MaxFaults /\ faults' = faults + 1 /\ unsaved' = unsaved \cup {op}
      /\ UNCHANGED <<sse, at, user, queue, known, activated, stream, closed, broken, redirect, attempts,
                     client, piped, pushes>>
  BY DEF Unsaved, userVars, streamVars
<1>2. ServerT' /\ Attempts'
  BY <1>1, Applying
<1>3. BoundT'
  BY <1>1, EndpointBounds DEF Inv, Types, BoundT
<1>4. UserT' /\ QueueT' /\ StreamT' /\ client' \in Client
  BY <1>1 DEF Inv, Types, UserT, QueueT, StreamT
<1>5. Redirects'
  BY <1>1, SameStream, SameTelling DEF Inv
<1>6. QED BY <1>1, <1>2, <1>3, <1>4, <1>5

LEMMA SaveInv ==
  ASSUME Inv, SaveSucceeds
  PROVE  Inv'
<1>1. pc = "save" /\ Checkpointed(task.op) /\ background' = background /\ background = NoBackground
      /\ (sse => ~closed)
  BY DEF SaveSucceeds, Inv, Tasks, Redirects
<1>2. task \in Task /\ (task = StepTask \/ task.reply # "none") /\ task.close \in {"no", "switch"}
      /\ run \in {"unknown", "sync"} /\ response \in Replies
  BY <1>1 DEF Inv, Types, LoopT, ReplyT, Tasks
<1>3. background'.stage = "none" /\ background' \in Background
  BY <1>1, Tasking
<1>4. /\ UserT' /\ QueueT' /\ StreamT' /\ ServerT' /\ client' \in Client /\ BoundT'
      /\ Attempts' /\ Redirects' /\ known' = TRUE
      /\ UNCHANGED <<at, user, queue>>
      /\ task.op = "step" => run' \in {"unknown", "sync"}
  BY <1>1, <1>2, <1>3, Checkpointing
<1>5. CloseOf(task) \in {"no", "end", "failed"} /\ (task = StepTask => CloseOf(task) = "no")
  BY <1>2, Tasking DEF CloseOf
<1>7. ASSUME pc' \in {"loop", "close", "done"}, task' \in Task, response' \in Replies,
             pc' = "close" => task'.close \in {"end", "failed", "succeeded"} /\ task'.op = "none",
             pc' = "loop" => run' \in {"unknown", "sync"}
      PROVE  Inv'
  <2>1. Types'
    BY <1>3, <1>4, <1>7 DEF Types, LoopT, ReplyT
  <2>2. Turn'
    BY <1>4, <1>7 DEF Inv, Turn
  <2>3. Tasks'
    BY <1>1, <1>3, <1>7 DEF Tasks
  <2>4. QED BY <1>4, <2>1, <2>2, <2>3 DEF Inv
<1>8. CASE CloseOf(task) # "no"
  <2>1. pc' = "close" /\ task' = [task EXCEPT !.op = "none", !.close = CloseOf(task)] /\ response' = response
    BY <1>8 DEF SaveSucceeds
  <2>2. task' \in Task /\ task'.op = "none" /\ task'.close = CloseOf(task)
    BY <1>2, <1>5, <2>1, Names DEF Task
  <2>3. QED BY <1>2, <1>5, <1>7, <1>8, <2>1, <2>2
<1>9. CASE CloseOf(task) = "no" /\ task.reply # "none"
  <2>1. Reply(task.reply) /\ task.reply \in Replies
    BY <1>2, <1>9 DEF SaveSucceeds, Task
  <2>2. pc' = "done" /\ task' \in Task /\ response' \in Replies
    BY <2>1, ReplyFacts
  <2>3. QED BY <1>7, <2>2
<1>10. CASE CloseOf(task) = "no" /\ task.reply = "none"
  <2>1. pc' = "loop" /\ task' = NoTask /\ response' = response
    BY <1>10 DEF SaveSucceeds
  <2>2. task.op = "step"
    BY <1>2, <1>10, Tasking
  <2>3. QED BY <1>2, <1>4, <1>7, <2>1, <2>2, Tasking
<1>11. QED BY <1>8, <1>9, <1>10

LEMMA SaveFailsInv ==
  ASSUME Inv, SaveFails
  PROVE  Inv'
<1>1. pc = "save" /\ Unsaved(task.op) /\ task.op \in Ops
      /\ background' = background /\ background = NoBackground
      /\ (sse => ~closed)
  BY DEF SaveFails, Inv, Tasks, Redirects
<1>2. background'.stage = "none" /\ background' \in Background
  BY <1>1, Tasking
<1>3. /\ UserT' /\ QueueT' /\ StreamT' /\ ServerT' /\ client' \in Client /\ BoundT'
      /\ Attempts' /\ Redirects' /\ UNCHANGED <<at, user, queue, known>>
  BY <1>1, <1>2, Unsaving
<1>4. /\ pc' \in {"close", "done"} /\ task' \in Task /\ response' \in Replies
      /\ pc' = "close" => task'.close = "failed" /\ task'.op = "none"
  <2>1. CASE sse
    <3>1. pc' = "close" /\ task' = [op |-> "none", close |-> "failed", reply |-> "error"] /\ response' = response
      BY <2>1 DEF SaveFails
    <3>2. QED BY <3>1, Names, Tasking DEF Inv, Types, ReplyT
  <2>2. CASE ~sse
    <3>1. Reply("error") /\ "error" \in Replies
      BY <2>2, Names DEF SaveFails
    <3>2. QED BY <3>1, ReplyFacts
  <2>3. QED BY <2>1, <2>2
<1>5. Types'
  BY <1>2, <1>3, <1>4 DEF Inv, Types, LoopT, ReplyT
<1>6. Turn'
  BY <1>3, <1>4 DEF Inv, Turn
<1>7. Tasks'
  BY <1>1, <1>2, <1>4 DEF Tasks
<1>8. QED BY <1>3, <1>5, <1>6, <1>7 DEF Inv

LEMMA CloseInv ==
  ASSUME Inv, Close
  PROVE  Inv'
<1>1. /\ pc = "close" /\ redirect # "fetching" /\ CloseWriter(task.close) /\ Reply(task.reply)
      /\ background' = (IF task.op = "none" THEN background
                        ELSE [stage |-> "save", op |-> task.op, close |-> "no"])
      /\ UNCHANGED <<sse, at, user, queue, known, run, attempts, client, piped, pushes, faults, unsaved>>
  BY DEF Close, userVars, serverVars, boundVars
<1>2. /\ task \in Task /\ task.close \in {"end", "failed", "succeeded"}
      /\ task.op # "none" => task.close = "succeeded"
      /\ background = NoBackground /\ (sse => ~closed)
  BY <1>1 DEF Inv, Types, LoopT, Tasks, Redirects
<1>3. task.reply \in Replies /\ task.op \in Ops \cup {"none"}
  BY <1>2 DEF Task
<1>4. pc' = "done" /\ task' \in Task /\ response' \in Replies
  BY <1>1, <1>3, ReplyFacts
<1>5. /\ background' \in Background
      /\ background'.stage # "none" => background'.close = "no" /\ background'.stage = "save"
      /\ background'.stage = "save" => task.op # "none" /\ background'.op \in Ops
  <2>1. CASE task.op = "none"
    BY <1>1, <1>2, <2>1, Tasking
  <2>2. CASE task.op # "none"
    BY <1>1, <1>3, <2>2, Names, Tasking
  <2>3. QED BY <2>1, <2>2
<1>6. Redirects' /\ stream' \in Seq(Event)
  BY <1>1, <1>2, <1>4, <1>5, ClosingTells DEF Inv, Types
<1>7. StreamT'
  BY <1>1, <1>6 DEF CloseWriter, Inv, Types, StreamT
<1>8. Types'
  BY <1>1, <1>4, <1>5, <1>7 DEF Inv, Types, UserT, QueueT, LoopT, ReplyT, ServerT, BoundT
<1>9. Turn' /\ Attempts'
  BY <1>1, <1>4 DEF Inv, Turn, Attempts
<1>10. Tasks'
  BY <1>4, <1>5 DEF Tasks
<1>11. QED BY <1>6, <1>8, <1>9, <1>10 DEF Inv

LEMMA BackgroundSaveInv ==
  ASSUME Inv, BackgroundSave
  PROVE  Inv'
<1>1. /\ background.stage = "save" /\ UNCHANGED <<pc, task, response>>
      /\ background' = (IF background.close = "no" THEN NoBackground ELSE [background EXCEPT !.stage = "close"])
      /\ Checkpointed(background.op) \/ Unsaved(background.op)
  BY DEF BackgroundSave
<1>2. pc = "done" /\ background.close \in {"no", "end", "failed"} /\ background \in Background
      /\ background.op \in Ops
  BY <1>1, Tasking DEF Inv, Tasks, Types, LoopT
<1>3. /\ background' \in Background /\ background'.stage # "save"
      /\ background'.stage # "none" => background'.close \in {"end", "failed"}
  <2>1. CASE background.close = "no"
    BY <1>1, <2>1, Tasking
  <2>2. CASE background.close # "no"
    <3>1. background' = [background EXCEPT !.stage = "close"]
      BY <1>1, <2>2
    <3>2. background' \in Background /\ background'.stage = "close" /\ background'.close = background.close
      BY <1>2, <3>1 DEF Background
    <3>3. QED BY <1>2, <2>2, <3>2
  <2>3. QED BY <2>1, <2>2
<1>4. /\ UserT' /\ QueueT' /\ StreamT' /\ ServerT' /\ client' \in Client /\ BoundT'
      /\ Attempts' /\ Redirects' /\ known' \in BOOLEAN /\ UNCHANGED <<at, user, queue>>
  <2>1. CASE Checkpointed(background.op)
    BY <1>1, <1>2, <1>3, <2>1, Checkpointing
  <2>2. CASE Unsaved(background.op)
    BY <1>1, <1>2, <1>3, <2>2, Unsaving DEF Inv, Types, ReplyT
  <2>3. QED BY <1>1, <2>1, <2>2
<1>5. Types'
  BY <1>1, <1>3, <1>4 DEF Inv, Types, LoopT, ReplyT
<1>6. Turn'
  BY <1>1, <1>4 DEF Inv, Turn
<1>7. Tasks'
  BY <1>1, <1>2, <1>3 DEF Tasks
<1>8. QED BY <1>4, <1>5, <1>6, <1>7 DEF Inv

LEMMA BackgroundCloseInv ==
  ASSUME Inv, BackgroundClose
  PROVE  Inv'
<1>1. /\ background.stage = "close" /\ redirect # "fetching" /\ CloseWriter(background.close)
      /\ background' = NoBackground
      /\ UNCHANGED <<sse, at, user, queue, pc, task, known, response, run, attempts, client, piped, pushes, faults, unsaved>>
  BY DEF BackgroundClose, userVars, serverVars, boundVars
<1>2. pc = "done" /\ background.close \in {"end", "failed"}
  BY <1>1, Tasking DEF Inv, Tasks
<1>3. background' \in Background /\ background'.stage = "none"
  BY <1>1, Tasking
<1>4. Redirects' /\ stream' \in Seq(Event)
  BY <1>1, <1>2, <1>3, ClosingTells DEF Inv, Types
<1>5. StreamT'
  BY <1>1, <1>4 DEF CloseWriter, Inv, Types, StreamT
<1>6. Types'
  BY <1>1, <1>3, <1>5 DEF Inv, Types, UserT, QueueT, LoopT, ReplyT, ServerT, BoundT
<1>7. Turn' /\ Attempts'
  BY <1>1 DEF Inv, Turn, Attempts
<1>8. Tasks'
  BY <1>1, <1>2, <1>3 DEF Tasks
<1>9. QED BY <1>4, <1>6, <1>7, <1>8 DEF Inv

-----------------------------------------------------------------------------
(* The server and the client.                                              *)

Outcomes == {"none", "left", "noResponse"} \cup Replies
              \cup {"streamSucceeded", "streamFailed", "relaySucceeded", "relayFailed"}

LEMMA ClientChanges ==
  ASSUME client \in Client
  PROVE  /\ \A o \in Outcomes : [client EXCEPT !.outcome = o] \in Client
         /\ [client EXCEPT !.link = TRUE] \in Client
         /\ \A kind \in {"succeeded", "failed"} : [client EXCEPT !.relayed = kind] \in Client
         /\ LET next == [client EXCEPT !.read = @ + 1]
            IN  /\ next \in Client /\ [next EXCEPT !.url = TRUE] \in Client
                /\ \A o \in Outcomes : [next EXCEPT !.outcome = o] \in Client
<1>1. \A c \in Client :
        /\ \A o \in Outcomes : [c EXCEPT !.outcome = o] \in Client
        /\ [c EXCEPT !.link = TRUE] \in Client /\ [c EXCEPT !.url = TRUE] \in Client
        /\ \A kind \in {"none", "succeeded", "failed"} : [c EXCEPT !.relayed = kind] \in Client
  BY DEF Client, Outcomes
<1>2. [client EXCEPT !.read = @ + 1] \in Client
  <2>1. client.read + 1 \in Nat
    BY DEF Client
  <2>2. QED BY <2>1 DEF Client
<1>3. QED BY <1>1, <1>2

\* The client, and the bounds, change only.
LEMMA ClientInv ==
  ASSUME Inv, UNCHANGED <<sse, at, user, queue, pc, task, background, known, response, activated,
                          stream, closed, redirect, run, attempts, piped, pushes, unsaved>>,
         client' \in Client, faults' \in 0 .. MaxFaults, broken' \in BOOLEAN, broken => broken'
  PROVE  Inv'
<1>1. Types'
  BY DEF Inv, Types, UserT, QueueT, LoopT, ReplyT, StreamT, ServerT, BoundT
<1>2. Turn' /\ Tasks' /\ Attempts'
  BY DEF Inv, Turn, Tasks, Attempts
<1>3. Redirects'
  BY SameStream DEF Inv, Redirects
<1>4. QED BY <1>1, <1>2, <1>3 DEF Inv

LEMMA ReaderInv ==
  ASSUME Inv, Reader \/ Leave
  PROVE  Inv'
<1>1. client \in Client /\ faults \in 0 .. MaxFaults /\ broken \in BOOLEAN
  BY DEF Inv, Types, StreamT, BoundT
<1>2. UNCHANGED <<sse, at, user, queue, pc, task, background, known, response, activated,
                  stream, closed, redirect, run, attempts, piped, pushes, unsaved>>
  BY DEF Reader, Answered, ReadEvent, ConnectEagerly, NoResponse, ReadRelay, Leave, ClientStep,
         userVars, loopVars, serverVars, boundVars
<1>3. ASSUME client' \in Client, UNCHANGED <<broken, faults>>
      PROVE  Inv'
  BY <1>1, <1>2, <1>3, ClientInv
<1>4. CASE Answered
  <2>1. client' = [client EXCEPT !.outcome = response] /\ response \in Outcomes
    BY <1>4, Names DEF Answered, Outcomes
  <2>2. QED BY <1>1, <1>3, <1>4, <2>1, ClientChanges DEF Answered
<1>5. CASE ReadEvent
  <2> DEFINE next == [client EXCEPT !.read = @ + 1]
  <2>1. \/ client' = [next EXCEPT !.url = TRUE]
        \/ client' = [next EXCEPT !.outcome = "streamSucceeded"]
        \/ client' = [next EXCEPT !.outcome = "streamFailed"]
        \/ client' = next
    BY <1>5 DEF ReadEvent
  <2>2. "streamSucceeded" \in Outcomes /\ "streamFailed" \in Outcomes
    BY DEF Outcomes
  <2>3. client' \in Client
    BY <1>1, <2>1, <2>2, ClientChanges
  <2>4. QED BY <1>3, <1>5, <2>3 DEF ReadEvent
<1>6. CASE ConnectEagerly
  BY <1>1, <1>3, <1>6, ClientChanges DEF ConnectEagerly
<1>7. CASE NoResponse
  <2>1. "noResponse" \in Outcomes
    BY DEF Outcomes
  <2>2. QED BY <1>1, <1>3, <1>7, <2>1, ClientChanges DEF NoResponse
<1>8. CASE ReadRelay
  <2>1. "relaySucceeded" \in Outcomes /\ "relayFailed" \in Outcomes
    BY DEF Outcomes
  <2>2. QED BY <1>1, <1>3, <1>8, <2>1, ClientChanges DEF ReadRelay
<1>9. CASE Leave
  <2>1. "left" \in Outcomes
    BY DEF Outcomes
  <2>2. faults' \in 0 .. MaxFaults
    BY <1>1, <1>9, EndpointBounds DEF Leave
  <2>3. client' \in Client /\ broken' = TRUE
    BY <1>1, <1>9, <2>1, ClientChanges DEF Leave
  <2>4. QED BY <1>2, <2>2, <2>3, ClientInv
<1>10. QED BY <1>4, <1>5, <1>6, <1>7, <1>8, <1>9 DEF Reader

LEMMA AsyncInv ==
  ASSUME Inv, AsyncResolves \/ AsyncRejects
  PROVE  Inv'
<1>1. run = "async"
      /\ UNCHANGED <<sse, at, user, queue, pc, task, background, known, response, activated, stream,
                     closed, broken, redirect, piped, pushes, faults, unsaved>>
  BY DEF AsyncResolves, AsyncRejects, Async, userVars, loopVars, streamVars, boundVars
<1>2. attempts \in 0 .. MaxAttempts /\ attempts < MaxAttempts /\ MaxAttempts \in Nat
      /\ pc \notin {"loop", "step", "save"}
  BY <1>1, EndpointBounds DEF Inv, Types, ServerT, Attempts, Tasks
<1>3. \A kind \in {"succeeded", "failed"} : Relayed(kind) \in Client
  BY ClientChanges DEF Relayed, Inv, Types
<1>4. client' \in Client
  BY <1>3 DEF AsyncResolves, AsyncRejects, Inv, Types
<1>5. /\ run' \in {"async", "completed", "failed"} /\ attempts' \in 0 .. MaxAttempts
      /\ run' = "async" => attempts' < MaxAttempts
  <2>1. CASE AsyncResolves
    BY <1>2, <2>1 DEF AsyncResolves
  <2>2. CASE AsyncRejects
    BY <1>1, <1>2, <2>2 DEF AsyncRejects
  <2>3. QED BY <2>1, <2>2
<1>6. Types'
  BY <1>1, <1>4, <1>5 DEF Inv, Types, UserT, QueueT, LoopT, ReplyT, StreamT, ServerT, BoundT
<1>7. Turn' /\ Tasks'
  BY <1>1, <1>2 DEF Inv, Turn, Tasks
<1>8. Attempts'
  BY <1>5 DEF Attempts
<1>9. Redirects'
  BY <1>1, SameStream DEF Inv, Redirects
<1>10. QED BY <1>6, <1>7, <1>8, <1>9 DEF Inv

-----------------------------------------------------------------------------
(* Theorems.                                                               *)

LEMMA InvInit ==
  ASSUME Init
  PROVE  Inv
<1>1. N \in Nat /\ MaxAttempts \in Nat \ {0} /\ MaxPushes \in Nat /\ MaxFaults \in Nat
  BY EndpointBounds
<1>2. UserT /\ BoundT /\ ServerT
  BY <1>1 DEF Init, UserT, BoundT, ServerT
<1>3. QueueT /\ StreamT
  <2>1. <<>> \in Seq(Checkpoints) /\ <<>> \in Seq(Event)
    OBVIOUS
  <2>2. QED BY <2>1 DEF Init, QueueT, StreamT
<1>4. LoopT /\ ReplyT
  BY Tasking, Names DEF Init, LoopT, ReplyT
<1>5. client \in Client
  BY DEF Init, Client
<1>6. Turn
  BY DEF Init, Turn
<1>7. Tasks
  BY Tasking DEF Init, Tasks
<1>8. Attempts
  BY DEF Init, Attempts
<1>9. Redirects
  BY DEF Init, Redirects
<1>10. QED BY <1>2, <1>3, <1>4, <1>5, <1>6, <1>7, <1>8, <1>9 DEF Inv, Types

LEMMA InvStep ==
  ASSUME Inv, [Next]_vars
  PROVE  Inv'
<1>1. CASE UNCHANGED vars
  <2>1. UNCHANGED <<sse, at, user, queue, pc, task, background, known, response, activated,
                    stream, closed, redirect, run, attempts, piped, pushes, unsaved, client, faults,
                    broken>>
    BY <1>1 DEF vars, userVars, loopVars, streamVars, serverVars, boundVars
  <2>2. client' \in Client /\ faults' \in 0 .. MaxFaults /\ broken' \in BOOLEAN
    BY <2>1 DEF Inv, Types, StreamT, BoundT
  <2>3. QED BY <2>1, <2>2, ClientInv
<1>2. CASE TakePlan
  BY <1>2, Names, SwitchInv DEF TakePlan
<1>3. CASE Next
  BY <1>2, <1>3, UserInv, PushInv, FetchedInv, TakeStepInv, TakeResolvedInv, TakeRejectedInv,
     StepInv, SaveInv, SaveFailsInv, CloseInv, BackgroundSaveInv, BackgroundCloseInv, AsyncInv,
     ReaderInv DEF Next, Core, Detached
<1>4. QED BY <1>1, <1>3

LEMMA AlwaysInv == Spec => []Inv
  BY InvInit, InvStep, PTL DEF Spec

\* Whatever the bounds and the faults, every variable keeps its type.
THEOREM EndpointTypeCorrect == Spec => []TypeOK
<1>1. Inv => TypeOK
  BY TypeParts DEF Inv, Types
<1>2. QED BY <1>1, AlwaysInv, PTL

\* A stream that its client still reads has told it the outcome or where to go on when it
\* ends, however late the redirect URL is known and whichever part of the request ends it.
THEOREM StreamLeadsOn == Spec => []EndLeadsOn
<1>1. Inv => EndLeadsOn
  BY DEF Inv, Redirects, EndLeadsOn, HasEvent, LeadsOn
<1>2. QED BY <1>1, AlwaysInv, PTL

\* The request executes no step of a run that the server has taken over or that has ended,
\* for any number of steps and faults.
THEOREM RequestHandsOver == Spec => []ServerRunsAlone
<1>1. Inv => ServerRunsAlone
  BY DEF Inv, Tasks, ServerRunsAlone, Ended
<1>2. QED BY <1>1, AlwaysInv, PTL

-----------------------------------------------------------------------------
(* What a client is told of a success.                                     *)

Succeeded == HasEvent({"succeeded"})

\* The client has been told of a success, or is about to be.
Told == Succeeded \/ (pc = "close" /\ task.close = "succeeded")

\* Then the run is not the server's and has not failed, and what is still to be
\* checkpointed is its result.
Truth ==
  Told => /\ run \notin {"async", "failed"}
          /\ pc \in {"save", "close", "done"}
          /\ pc = "save" => task.op = "runComplete" /\ task.close = "no"
          /\ pc = "close" => task.op \in {"none", "runComplete"}
          /\ background.stage = "save" => background.op = "runComplete"

LEMMA OtherEvent ==
  ASSUME StreamT, NEW event \in Event, event.type # "succeeded", stream' = Written(event)
  PROVE  Succeeded' => Succeeded
<1>1. CASE closed \/ broken
  BY <1>1 DEF Written, Succeeded, HasEvent, EventAt
<1>2. CASE ~(closed \/ broken)
  <2>1. stream' = Append(stream, event) /\ stream \in Seq(Event)
    BY <1>2 DEF Written, StreamT
  <2>2. /\ \A i \in 1..Len(stream) : stream'[i] = stream[i]
        /\ stream'[Len(stream) + 1] = event
        /\ DOMAIN stream = 1..Len(stream) /\ DOMAIN stream' = 1..Len(stream) + 1
        /\ Len(stream) \in Nat
    BY <2>1
  <2>3. SUFFICES ASSUME NEW i \in DOMAIN stream', stream'[i].type = "succeeded" PROVE Succeeded
    BY DEF Succeeded, HasEvent, EventAt
  <2>4. i \in 1..Len(stream)
    BY <2>2, <2>3
  <2>5. QED BY <2>2, <2>3, <2>4 DEF Succeeded, HasEvent, EventAt
<1>3. QED BY <1>1, <1>2

LEMMA SameEvents == ASSUME UNCHANGED stream PROVE Succeeded' <=> Succeeded
  BY DEF Succeeded, HasEvent, EventAt

LEMMA ClosingOtherwise ==
  ASSUME StreamT, NEW kind \in {"end", "failed"}, CloseWriter(kind)
  PROVE  Succeeded' => Succeeded
<1>1. CASE kind = "end"
  BY <1>1, SameEvents DEF CloseWriter
<1>2. CASE kind = "failed"
  BY <1>2, Events, OtherEvent DEF CloseWriter
<1>3. QED BY <1>1, <1>2

\* A step that tells nobody, and leaves the run and what is to be checkpointed alone.
LEMMA TruthSame ==
  ASSUME Truth, Succeeded' => Succeeded, UNCHANGED <<pc, task, background, run>>
  PROVE  Truth'
  BY DEF Truth, Told

\* A handler of the loop begins: nobody has been told of anything.
LEMMA TruthLoop ==
  ASSUME Truth, pc \in {"loop", "step"}, Succeeded' => Succeeded,
         pc' = "close" => task'.close # "succeeded"
  PROVE  Truth'
  BY DEF Truth, Told

\* Applying the result of the run keeps the truth.
LEMMA ResultApplied ==
  ASSUME run \notin {"async", "failed"}
  PROVE  Applied("runComplete") = "completed"
  BY DEF Applied, Ended

\* The step that runs is one of the function's.
LEMMA StepInRange == ASSUME Inv PROVE pc = "step" => at + 1 \in 0 .. N
<1>1. at \in 0 .. N /\ (pc = "step" => at < N)
  BY DEF Inv, Types, UserT, Turn
<1>2. QED BY <1>1, EndpointBounds

LEMMA UserTruth == ASSUME Inv, Truth, User \/ Push \/ RedirectFetched PROVE Truth'
<1>1. CASE User
  BY <1>1, SameEvents, TruthSame
     DEF User, FindSteps, Return, Throw, SetCheckpoint, streamVars, serverVars, boundVars
<1>2. CASE Push
  <2>1. \A i \in 0 .. N : OfStep("chunk", i) \in Event /\ OfStep("chunk", i).type # "succeeded"
    BY Events DEF OfStep
  <2>2. (IF pc = "step" THEN at + 1 ELSE 0) \in 0 .. N
    BY StepInRange, EndpointBounds
  <2>3. Succeeded' => Succeeded
    BY <1>2, <2>1, <2>2, OtherEvent DEF Push, Inv, Types
  <2>4. QED BY <1>2, <2>3, TruthSame DEF Push, loopVars, serverVars, boundVars
<1>3. CASE RedirectFetched
  <2>1. Succeeded' => Succeeded
    BY <1>3, Events, OtherEvent, SameEvents DEF RedirectFetched, Inv, Types
  <2>2. QED BY <1>3, <2>1, TruthSame DEF RedirectFetched, loopVars, serverVars, boundVars
<1>4. QED BY <1>1, <1>2, <1>3

LEMMA ResolvedTruth == ASSUME Inv, Truth, TakeResolved PROVE Truth'
<1>1. /\ pc = "loop" /\ background = NoBackground /\ run \in {"unknown", "sync"}
      /\ run' = run
  BY Looping DEF TakeResolved
<1>2. CASE sse
  BY <1>1, <1>2, Tasking DEF TakeResolved, Truth, NoBackground
<1>3. CASE ~sse
  <2>1. CASE /\ pc' = "save" /\ background' = background
             /\ task' = [op |-> "runComplete", close |-> "no", reply |-> "json"]
    BY <1>1, <2>1 DEF Truth, NoBackground
  <2>2. CASE /\ pc' = "done"
             /\ background' = [stage |-> "save", op |-> "runComplete", close |-> "no"]
    BY <1>1, <2>2 DEF Truth
  <2>3. QED BY <1>3, <2>1, <2>2 DEF TakeResolved, Reply
<1>4. QED BY <1>2, <1>3

LEMMA TakesTruth == ASSUME Inv, Truth, TakeStep \/ TakePlan \/ TakeRejected PROVE Truth'
<1>1. pc = "loop"
  BY DEF TakeStep, TakePlan, TakeRejected, Loop
<1>2. stream' = stream /\ pc' # "close"
  BY DEF TakeStep, TakePlan, TakeRejected, Switch, Save, Reply, streamVars
<1>3. QED BY <1>1, <1>2, SameEvents, TruthLoop

LEMMA StepTruth == ASSUME Inv, Truth, StepEnds \/ StepFails PROVE Truth'
<1>1. pc = "step" /\ pc' = "save"
  BY DEF StepEnds, StepFails, StepOver
<1>2. PICK type \in {"commit", "rollback"} : stream' = Written(OfStep(type, at + 1))
  BY DEF StepEnds, StepFails, StepOver
<1>3. at + 1 \in 0 .. N
  BY <1>1, StepInRange
<1>4. OfStep(type, at + 1) \in Event /\ OfStep(type, at + 1).type # "succeeded"
  BY <1>3, Events DEF OfStep
<1>5. Succeeded' => Succeeded
  BY <1>2, <1>4, OtherEvent DEF Inv, Types
<1>6. QED BY <1>1, <1>5, TruthLoop

LEMMA SaveTruth == ASSUME Inv, Truth, SaveSucceeds \/ SaveFails PROVE Truth'
<1>1. pc = "save" /\ task.close \in {"no", "switch"} /\ stream' = stream /\ background' = background
  BY DEF SaveSucceeds, SaveFails, Checkpointed, Unsaved, streamVars, Inv, Tasks, StepTask, NoTask
<1>2. CloseOf(task) # "succeeded"
  BY <1>1 DEF CloseOf
<1>3. pc' = "close" => task'.close # "succeeded"
  <2>1. task \in Task
    BY DEF Inv, Types, LoopT
  <2>2. CASE SaveSucceeds
    <3>1. pc' = "close" => task' = [task EXCEPT !.op = "none", !.close = CloseOf(task)]
      BY <2>2 DEF SaveSucceeds, Reply
    <3>2. [task EXCEPT !.op = "none", !.close = CloseOf(task)].close = CloseOf(task)
      BY <2>1 DEF Task
    <3>3. QED BY <1>2, <3>1, <3>2
  <2>3. CASE SaveFails
    BY <2>3 DEF SaveFails, Reply
  <2>4. QED BY <2>2, <2>3
<1>4. SUFFICES ASSUME Told' PROVE Truth'
  BY DEF Truth
<1>5. Succeeded /\ Told
  BY <1>1, <1>3, <1>4, SameEvents DEF Told
<1>6. /\ run \notin {"async", "failed"} /\ task.op = "runComplete" /\ task.close = "no"
      /\ background.stage = "save" => background.op = "runComplete"
  BY <1>1, <1>5 DEF Truth
<1>7. run' \in {run, "completed"}
  BY <1>6, ResultApplied DEF SaveSucceeds, SaveFails, Checkpointed, Unsaved
<1>8. pc' \in {"close", "done"} /\ (pc' = "close" => task'.op = "none")
  <2>1. task.reply # "none"
    BY <1>1, <1>6, Tasking DEF Inv, Tasks
  <2>2. CloseOf(task) = "no"
    BY <1>6 DEF CloseOf
  <2>3. QED BY <2>1, <2>2 DEF SaveSucceeds, SaveFails, Reply
<1>9. QED BY <1>1, <1>6, <1>7, <1>8 DEF Truth

LEMMA CloseTruth == ASSUME Inv, Truth, Close PROVE Truth'
<1>1. /\ pc = "close" /\ pc' = "done" /\ CloseWriter(task.close) /\ run' = run
      /\ background' = IF task.op = "none" THEN background
                       ELSE [stage |-> "save", op |-> task.op, close |-> "no"]
  BY DEF Close, Reply, serverVars, boundVars
<1>2. Told' => Told
  <2>1. CASE task.close = "succeeded"
    BY <1>1, <2>1 DEF Told
  <2>2. CASE task.close # "succeeded"
    <3>1. task.close \in {"end", "failed"}
      BY <1>1, <2>2 DEF Inv, Tasks
    <3>2. Succeeded' => Succeeded
      BY <1>1, <3>1, ClosingOtherwise DEF Inv, Types
    <3>3. QED BY <1>1, <3>2 DEF Told
  <2>3. QED BY <2>1, <2>2
<1>3. task.op # "none" => background'.op = task.op
  BY <1>1
<1>4. QED BY <1>1, <1>2, <1>3 DEF Truth

LEMMA DetachedTruth == ASSUME Inv, Truth, Detached PROVE Truth'
<1>1. pc = "done" /\ pc' = "done" /\ background \in Background /\ background.stage # "none"
  <2>1. background.stage # "none" /\ pc' = pc
    BY DEF Detached, BackgroundSave, BackgroundClose
  <2>2. QED BY <2>1, Tasking DEF Inv, Tasks, Types, LoopT
<1>2. CASE BackgroundClose
  <2>1. background.close \in {"end", "failed"}
    BY <1>1, <1>2 DEF BackgroundClose, Inv, Tasks
  <2>2. Succeeded' => Succeeded
    BY <1>2, <2>1, ClosingOtherwise DEF BackgroundClose, Inv, Types
  <2>3. background' = NoBackground /\ run' = run
    BY <1>2 DEF BackgroundClose, serverVars, boundVars
  <2>4. QED BY <1>1, <2>2, <2>3 DEF Truth, Told, NoBackground
<1>3. CASE BackgroundSave
  <2>1. stream' = stream
    BY <1>3 DEF BackgroundSave, Checkpointed, Unsaved, streamVars
  <2>2. SUFFICES ASSUME Succeeded PROVE Truth'
    BY <1>1, <2>1, SameEvents DEF Truth, Told
  <2>3. run \notin {"async", "failed"} /\ background.op = "runComplete"
    BY <1>3, <2>2 DEF Truth, Told, BackgroundSave
  <2>4. background'.stage # "save"
    <3>1. [background EXCEPT !.stage = "close"].stage = "close"
      BY <1>1 DEF Background
    <3>2. QED BY <1>3, <3>1 DEF BackgroundSave, NoBackground
  <2>5. run' \in {run, Applied(background.op)}
    BY <1>3 DEF BackgroundSave, Checkpointed, Unsaved
  <2>6. QED BY <1>1, <2>3, <2>4, <2>5, ResultApplied DEF Truth
<1>4. QED BY <1>2, <1>3 DEF Detached

LEMMA ServerTruth == ASSUME Inv, Truth, AsyncResolves \/ AsyncRejects PROVE Truth'
<1>1. run = "async" /\ stream' = stream /\ UNCHANGED <<pc, task>>
  BY DEF AsyncResolves, AsyncRejects, Async, streamVars, loopVars
<1>2. ~Told
  BY <1>1 DEF Truth
<1>3. ~Told'
  BY <1>1, <1>2, SameEvents DEF Told
<1>4. QED BY <1>3 DEF Truth

LEMMA ReaderTruth == ASSUME Truth, Reader \/ Leave \/ UNCHANGED vars PROVE Truth'
<1>1. UNCHANGED <<stream, pc, task, background, run>>
  BY DEF Reader, Leave, Answered, ReadEvent, ConnectEagerly, NoResponse, ReadRelay, ClientStep,
         vars, loopVars, streamVars, serverVars, boundVars
<1>2. QED BY <1>1, SameEvents, TruthSame

\* A client that is told of a success is told the truth, whatever is checkpointed, lost or
\* still under way when it is told: the server does not go on with the run, and it does not
\* fail (function-resolved of syncHandlers, checkpointReturnValue).
THEOREM SuccessIsTrue == Spec => []SuccessIsFinal
<1>1. Init => Truth
  BY DEF Init, Truth, Told, Succeeded, HasEvent
<1>2. Inv /\ Truth /\ [Next]_vars => Truth'
  BY UserTruth, ResolvedTruth, TakesTruth, StepTruth, SaveTruth, CloseTruth, DetachedTruth,
     ServerTruth, ReaderTruth DEF Next, Core
<1>3. Truth => SuccessIsFinal
  BY DEF Truth, Told, Succeeded, HasEvent, SuccessIsFinal
<1>4. QED BY <1>1, <1>2, <1>3, AlwaysInv, PTL DEF Spec
=============================================================================
