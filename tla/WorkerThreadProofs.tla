------------------------- MODULE WorkerThreadProofs -------------------------
(***************************************************************************)
(* What WorkerThread promises whatever the faults and bounds: its types,   *)
(* that no thread outlives close(), and that none exits while user code    *)
(* works on a request it was the last to receive.                          *)
(***************************************************************************)
EXTENDS WorkerThread, FiniteSetTheorems, FunctionTheorems, TLAPS

\* "exit" is the last message of a thread and "CLOSED" the one before it; both are posted
\* by a thread that is gone.
Channel ==
  \A i \in 1..Len(toMain) :
    /\ toMain[i].type = "exit" => i = Len(toMain) /\ ~thread.alive
    /\ toMain[i].type = "CLOSED" => i = Len(toMain) - 1 /\ ~thread.alive

\* The main thread has a live worker until it has heard of its death, and nothing is left
\* in the channel after that.
Death ==
  /\ worker = "live" /\ ~thread.alive => toMain # <<>> /\ toMain[Len(toMain)].type = "exit"
  /\ worker # "live" => ~thread.alive /\ toMain = <<>>

\* One respawn at a time, and none is due while there is a thread.
OneRespawn == backoffs > 0 => backoffs = 1 /\ worker # "live" /\ connecting # "idle"

\* The strategy has no worker before connect() and after close() only.
Started ==
  /\ connecting = "idle" => worker = "none"
  /\ connecting # "idle" /\ worker = "none" => closed

\* After close() only the exit event can still be heard, so that the state stays what keeps
\* the timer from creating a thread.
Closed ==
  closed => /\ state \in Over /\ ~thread.alive
            /\ \A i \in 1..Len(toMain) : toMain[i].type = "exit"

ThreadInv == TypeOK /\ Channel /\ Death /\ OneRespawn /\ Started /\ Closed

-----------------------------------------------------------------------------
(* Messages.                                                               *)

LEMMA ToMainMessages ==
  /\ \A s \in ConnectionState : StateChange(s) \in ToMain /\ StateChange(s).type = "STATE_CHANGE"
  /\ \A t \in {"CONNECTION_READY", "FATAL", "CLOSED", "error", "exit"} :
       Signal(t) \in ToMain /\ Signal(t).type = t
  /\ \A r \in Requests : [type |-> "EXECUTION_REQUEST", request |-> r] \in ToMain
  BY DEF ToMain, StateChange, Signal

LEMMA ToThreadMessages ==
  /\ \A t \in {"INIT", "CONNECT", "CLOSE"} : Signal(t) \in ToThread
  /\ \A r \in Requests : [type |-> "EXECUTION_ANSWER", request |-> r] \in ToThread
  BY DEF ToThread, Signal

LEMMA Contents ==
  /\ \A m \in ToMain : m.type = "STATE_CHANGE" => m.state \in ConnectionState
  /\ \A m \in ToMain : m.type = "EXECUTION_REQUEST" => m.request \in Requests
  /\ \A m \in ToThread : m.type = "EXECUTION_ANSWER" => m.request \in Requests
  BY DEF ToMain, ToThread

LEMMA Threads ==
  /\ NewThread \in Thread /\ NoThread \in Thread
  /\ NewThread.alive /\ ~NoThread.alive
  /\ \A t \in Thread : /\ \A c \in Core : [t EXCEPT !.core = c] \in Thread
                       /\ \A s \in ConnectionState : [t EXCEPT !.state = s] \in Thread
                       /\ [t EXCEPT !.core = "up", !.connected = TRUE] \in Thread
                       /\ \A c \in Core : [t EXCEPT !.core = c].alive = t.alive
                       /\ \A s \in ConnectionState : [t EXCEPT !.state = s].alive = t.alive
                       /\ [t EXCEPT !.core = "up", !.connected = TRUE].alive = t.alive
  BY DEF NewThread, NoThread, Thread, ConnectionState, Core

-----------------------------------------------------------------------------
(* Types.                                                                  *)

LEMMA CoreChange ==
  ASSUME TypeOK, NEW c \in Core
  PROVE  /\ [thread EXCEPT !.core = c] \in Thread
         /\ [thread EXCEPT !.core = c].alive = thread.alive
  BY Threads DEF TypeOK

LEMMA StateChangeType ==
  ASSUME TypeOK, NEW s \in ConnectionState
  PROVE  /\ [thread EXCEPT !.state = s] \in Thread
         /\ [thread EXCEPT !.state = s].alive = thread.alive
  BY Threads DEF TypeOK

LEMMA Literals ==
  /\ {"CONNECTING", "ACTIVE", "RECONNECTING", "CLOSING", "CLOSED"} \subseteq ConnectionState
  /\ {"none", "idle", "starting", "up", "down", "exited", "failed"} \subseteq Core
  BY DEF ConnectionState, Core

LEMMA CreateType ==
  ASSUME TypeOK, CreateWorker
  PROVE  /\ worker' = "live" /\ thread' \in Thread
         /\ leases' \subseteq Requests /\ pending' \subseteq Requests
         /\ toThread' \in Seq(ToThread)
<1>1. thread' \in Thread
  BY Threads DEF CreateWorker
<1>2. toThread' \in Seq(ToThread)
  BY ToThreadMessages DEF CreateWorker
<1>3. QED BY <1>1, <1>2 DEF CreateWorker

LEMMA SendType ==
  ASSUME TypeOK, NEW msg \in ToThread, SendToWorker(msg)
  PROVE  toThread' \in Seq(ToThread)
  BY DEF TypeOK, SendToWorker

LEMMA ReceiveType ==
  ASSUME TypeOK, NEW type, Receive(type)
  PROVE  /\ toMain' \in Seq(ToMain) /\ toThread' \in Seq(ToThread)
         /\ Head(toMain) \in ToMain /\ Head(toMain).type = type
         /\ UNCHANGED <<threadVars, toThread, boundVars>>
  BY DEF TypeOK, Receive

LEMMA TakeType ==
  ASSUME TypeOK, NEW type, Take(type)
  PROVE  /\ toThread' \in Seq(ToThread)
         /\ Head(toThread) \in ToThread /\ Head(toThread).type = type
         /\ UNCHANGED <<mainVars, execVars, boundVars>>
  BY DEF TypeOK, Take

LEMMA ReportType ==
  ASSUME TypeOK, NEW t \in Thread, NEW s \in ConnectionState, NEW more \in Seq(ToMain),
         Report(t, s, more)
  PROVE  thread' \in Thread /\ toMain' \in Seq(ToMain)
<1>1. CASE thread.state \in Over
  BY <1>1 DEF Report, TypeOK
<1>2. CASE thread.state \notin Over
  <2>1. thread' = [t EXCEPT !.state = s] /\ toMain' = toMain \o <<StateChange(s)>> \o more
    BY <1>2 DEF Report
  <2>2. <<StateChange(s)>> \in Seq(ToMain)
    BY ToMainMessages
  <2>3. thread' \in Thread
    BY <2>1, Threads
  <2>4. toMain \o <<StateChange(s)>> \in Seq(ToMain)
    BY <2>2 DEF TypeOK
  <2>5. (toMain \o <<StateChange(s)>>) \o more \in Seq(ToMain)
    BY <2>4
  <2>6. QED BY <2>1, <2>3, <2>5
<1>3. QED BY <1>1, <1>2

LEMMA MainType ==
  ASSUME TypeOK, Connect \/ Close \/ HandlerEnds \/ BackoffEnds
  PROVE  TypeOK'
<1>1. ASSUME Connect
      PROVE  TypeOK'
  <2>1. /\ worker' = "live" /\ thread' \in Thread
        /\ leases' \subseteq Requests /\ pending' \subseteq Requests
        /\ toThread' \in Seq(ToThread)
    BY <1>1, CreateType DEF Connect
  <2>2. QED BY <1>1, <2>1 DEF Connect, TypeOK, boundVars, execVars
<1>2. ASSUME Close
      PROVE  TypeOK'
  <2>1. toThread' \in Seq(ToThread)
    BY <1>2, SendType, ToThreadMessages DEF Close, TypeOK
  <2>2. state' \in ConnectionState /\ closed' \in BOOLEAN /\ closing' \in Nat /\ closes' \in Nat
    <3>1. CASE worker = "none"
      BY <1>2, <3>1, Literals DEF Close, TypeOK
    <3>2. CASE worker # "none"
      BY <1>2, <3>2, Literals DEF Close, TypeOK
    <3>3. QED BY <3>1, <3>2
  <2>3. /\ UNCHANGED <<worker, crashes, backoffs, connecting, faults, deliveries, lost, toMain>>
        /\ UNCHANGED <<running, orphans, thread, leases, pending>>
    BY <1>2 DEF Close, execVars, threadVars
  <2>4. QED BY <2>1, <2>2, <2>3 DEF TypeOK
<1>3. ASSUME HandlerEnds
      PROVE  TypeOK'
  <2>1. PICK r \in Requests :
          /\ running[r] > 0
          /\ running' = [running EXCEPT ![r] = @ - 1]
          /\ \/ orphans[r] < running[r] /\ UNCHANGED orphans
             \/ orphans[r] > 0 /\ orphans' = [orphans EXCEPT ![r] = @ - 1]
          /\ SendToWorker([type |-> "EXECUTION_ANSWER", request |-> r])
          /\ UNCHANGED <<mainVars, threadVars, toMain, boundVars>>
    BY <1>3 DEF HandlerEnds
  <2>2. toThread' \in Seq(ToThread)
    BY <2>1, SendType, ToThreadMessages
  <2>3. running' \in [Requests -> Nat] /\ orphans' \in [Requests -> Nat]
    BY <2>1 DEF TypeOK
  <2>4. QED BY <2>1, <2>2, <2>3 DEF TypeOK, mainVars, threadVars, boundVars
<1>4. ASSUME BackoffEnds
      PROVE  TypeOK'
  <2>1. backoffs' \in Nat
    BY <1>4 DEF BackoffEnds, TypeOK
  <2>2. CASE state \in Over
    BY <1>4, <2>1, <2>2 DEF BackoffEnds, TypeOK, boundVars, execVars, threadVars
  <2>3. CASE state \notin Over
    <3>1. /\ worker' = "live" /\ thread' \in Thread
          /\ leases' \subseteq Requests /\ pending' \subseteq Requests
          /\ toThread' \in Seq(ToThread)
      BY <1>4, <2>3, CreateType DEF BackoffEnds
    <3>2. QED BY <1>4, <2>1, <2>3, <3>1 DEF BackoffEnds, TypeOK, boundVars, execVars
  <2>4. QED BY <2>2, <2>3
<1>5. QED BY <1>1, <1>2, <1>3, <1>4

LEMMA MessageType ==
  ASSUME TypeOK, OnMessage
  PROVE  TypeOK'
<1>1. ASSUME OnStateChange
      PROVE  TypeOK'
  <2>1. Receive("STATE_CHANGE")
    BY <1>1 DEF OnStateChange
  <2>2. QED BY <1>1, <2>1, ReceiveType, Contents
        DEF OnStateChange, TypeOK, threadVars, boundVars, execVars
<1>2. ASSUME OnReady
      PROVE  TypeOK'
  <2>1. Receive("CONNECTION_READY")
    BY <1>2 DEF OnReady
  <2>2. QED BY <1>2, <2>1, ReceiveType DEF OnReady, TypeOK, threadVars, boundVars, execVars
<1>3. ASSUME OnFatal
      PROVE  TypeOK'
  <2>1. Receive("FATAL")
    BY <1>3 DEF OnFatal
  <2>2. QED BY <1>3, <2>1, ReceiveType DEF OnFatal, TypeOK, threadVars, boundVars, execVars
<1>4. ASSUME OnClosed
      PROVE  TypeOK'
  <2>1. Receive("CLOSED")
    BY <1>4 DEF OnClosed
  <2>2. QED BY <1>4, <2>1, ReceiveType
        DEF OnClosed, TypeOK, threadVars, boundVars, execVars, ConnectionState
<1>5. ASSUME OnExecutionRequest
      PROVE  TypeOK'
  <2>1. Receive("EXECUTION_REQUEST")
    BY <1>5 DEF OnExecutionRequest
  <2>2. Head(toMain).request \in Requests
    BY <2>1, ReceiveType, Contents
  <2>3. running' \in [Requests -> Nat]
    BY <1>5, <2>2 DEF OnExecutionRequest, TypeOK
  <2>4. QED BY <1>5, <2>1, <2>3, ReceiveType
        DEF OnExecutionRequest, TypeOK, threadVars, boundVars, mainVars
<1>6. ASSUME OnError
      PROVE  TypeOK'
  <2>1. Receive("error")
    BY <1>6 DEF OnError
  <2>2. QED BY <1>6, <2>1, ReceiveType
        DEF OnError, TypeOK, threadVars, boundVars, execVars, ConnectionState
<1>7. ASSUME OnExit
      PROVE  TypeOK'
  <2>1. Receive("exit")
    BY <1>7 DEF OnExit
  <2>2. state' \in ConnectionState /\ closed' \in BOOLEAN /\ worker' \in {"none", "exited"}
    BY <1>7 DEF OnExit, TypeOK, ConnectionState
  <2>3. crashes' \in Nat /\ backoffs' \in Nat /\ closing' \in Nat
    BY <1>7 DEF OnExit, TypeOK
  <2>4. connecting' \in {"idle", "waiting", "resolved", "rejected"}
    BY <1>7 DEF OnExit, TypeOK
  <2>5. running' \in [Requests -> Nat] /\ orphans' \in [Requests -> Nat]
    BY <1>7 DEF OnExit, TypeOK
  <2>6. QED BY <2>1, <2>2, <2>3, <2>4, <2>5, ReceiveType DEF TypeOK, threadVars, boundVars
<1>8. QED BY <1>1, <1>2, <1>3, <1>4, <1>5, <1>6, <1>7 DEF OnMessage

\* What the death of the thread changes keeps its type.
DiesType ==
  /\ thread' \in Thread
  /\ leases' \subseteq Requests /\ pending' \subseteq Requests
  /\ toThread' \in Seq(ToThread) /\ toMain' \in Seq(ToMain)

LEMMA DiesTypes ==
  ASSUME TypeOK, NEW last \in Seq(ToMain), Dies(last)
  PROVE  DiesType
<1>1. toMain' \in Seq(ToMain)
  BY DEF TypeOK, Dies
<1>2. thread' \in Thread
  BY Threads DEF Dies
<1>3. leases' \subseteq Requests /\ pending' \subseteq Requests
  BY DEF Dies
<1>4. toThread' \in Seq(ToThread)
  BY DEF Dies
<1>5. QED BY <1>1, <1>2, <1>3, <1>4 DEF DiesType

LEMMA ThreadType ==
  ASSUME TypeOK, InTheThread \/ Deliver
  PROVE  TypeOK'
<1>1. ASSUME TakeInit
      PROVE  TypeOK'
  <2>1. Take("INIT")
    BY <1>1 DEF TakeInit
  <2>2. thread' \in Thread
    BY <1>1, CoreChange, Literals DEF TakeInit
  <2>3. QED BY <1>1, <2>1, <2>2, TakeType DEF TakeInit, TypeOK, mainVars, execVars, boundVars
<1>2. ASSUME TakeConnect
      PROVE  TypeOK'
  <2>1. Take("CONNECT")
    BY <1>2 DEF TakeConnect
  <2>2. thread' \in Thread /\ toMain' \in Seq(ToMain)
    <3>1. CASE thread.core = "none" \/ thread.state = "CLOSED"
      <4>1. toMain' = Append(toMain, Signal("FATAL")) /\ thread' = thread
        BY <1>2, <3>1 DEF TakeConnect
      <4>2. QED BY <4>1, ToMainMessages DEF TypeOK
    <3>2. CASE ~(thread.core = "none" \/ thread.state = "CLOSED")
      <4>1. Report([thread EXCEPT !.core = "starting"], "CONNECTING", <<>>)
        BY <1>2, <3>2 DEF TakeConnect
      <4>2. [thread EXCEPT !.core = "starting"] \in Thread /\ "CONNECTING" \in ConnectionState
            /\ <<>> \in Seq(ToMain)
        BY CoreChange, Literals
      <4>3. QED BY <4>1, <4>2, ReportType
    <3>3. QED BY <3>1, <3>2
  <2>3. QED BY <1>2, <2>1, <2>2, TakeType DEF TakeConnect, TypeOK, mainVars, execVars, boundVars
<1>3. ASSUME TakeClose
      PROVE  TypeOK'
  <2>1. Take("CLOSE")
    BY <1>3 DEF TakeClose
  <2>2. thread' \in Thread
    BY <1>3, StateChangeType, Literals DEF TakeClose
  <2>22. toMain' \in Seq(ToMain)
    BY <1>3, ToMainMessages, Literals DEF TakeClose, TypeOK
  <2>3. QED BY <1>3, <2>1, <2>2, <2>22, TakeType DEF TakeClose, TypeOK, mainVars, execVars, boundVars
<1>4. ASSUME TakeAnswer
      PROVE  TypeOK'
  <2>1. Take("EXECUTION_ANSWER")
    BY <1>4 DEF TakeAnswer
  <2>2. pending' \subseteq Requests /\ leases' \subseteq Requests
    BY <1>4 DEF TakeAnswer, TypeOK
  <2>3. QED BY <1>4, <2>1, <2>2, TakeType DEF TakeAnswer, TypeOK, mainVars, execVars, boundVars
<1>5. ASSUME Deliver
      PROVE  TypeOK'
  <2>1. PICK r \in Requests :
          /\ deliveries' = [deliveries EXCEPT ![r] = @ + 1]
          /\ leases' = leases \cup {r} /\ pending' = pending \cup {r}
          /\ toMain' = Append(toMain, [type |-> "EXECUTION_REQUEST", request |-> r])
    BY <1>5 DEF Deliver
  <2>2. toMain' \in Seq(ToMain) /\ deliveries' \in [Requests -> Nat]
    BY <2>1, ToMainMessages DEF TypeOK
  <2>3. QED BY <1>5, <2>1, <2>2 DEF Deliver, TypeOK, mainVars, execVars
<1>6. ASSUME CoreReady
      PROVE  TypeOK'
  <2>1. thread' \in Thread /\ toMain' \in Seq(ToMain)
    <3>1. [thread EXCEPT !.core = "up", !.connected = TRUE] \in Thread
      BY Threads DEF TypeOK
    <3>2. "ACTIVE" \in ConnectionState
      BY Literals
    <3>3. <<Signal("CONNECTION_READY")>> \in Seq(ToMain)
      BY ToMainMessages
    <3>4. QED BY <1>6, <3>1, <3>2, <3>3, ReportType DEF CoreReady
  <2>2. QED BY <1>6, <2>1
        DEF CoreReady, ThreadStep, InThread, TypeOK, mainVars, execVars
<1>7. ASSUME CoreExits
      PROVE  TypeOK'
  <2>1. thread' \in Thread
    BY <1>7, CoreChange, Literals DEF CoreExits
  <2>2. QED BY <1>7, <2>1 DEF CoreExits, ThreadStep, InThread, TypeOK, mainVars, execVars
<1>8. ASSUME ThreadExits
      PROVE  TypeOK'
  <2>1. <<StateChange("CLOSED"), Signal("CLOSED"), Signal("exit")>> \in Seq(ToMain)
    BY ToMainMessages DEF ConnectionState
  <2>2. /\ UNCHANGED <<state, worker, crashes, backoffs, connecting, closing, closed>>
        /\ UNCHANGED <<running, orphans, deliveries, closes, faults, lost>>
    BY <1>8 DEF ThreadExits, ThreadStep, InThread, mainVars, execVars
  <2>3. DiesType
    BY <1>8, <2>1, DiesTypes DEF ThreadExits
  <2>4. QED BY <2>2, <2>3 DEF TypeOK, DiesType
<1>9. QED BY <1>1, <1>2, <1>3, <1>4, <1>5, <1>6, <1>7, <1>8 DEF InTheThread

LEMMA FaultType ==
  ASSUME TypeOK, CoreDrops \/ CoreFails \/ LeaseLost \/ Crash
  PROVE  TypeOK'
<1>1. ASSUME CoreDrops
      PROVE  TypeOK'
  <2>1. thread' \in Thread /\ toMain' \in Seq(ToMain)
    <3>1. /\ [thread EXCEPT !.core = "down"] \in Thread
          /\ "RECONNECTING" \in ConnectionState /\ <<>> \in Seq(ToMain)
      BY CoreChange, Literals
    <3>2. QED BY <1>1, <3>1, ReportType DEF CoreDrops
  <2>2. QED BY <1>1, <2>1 DEF CoreDrops, Fault, InThread, TypeOK, mainVars, execVars
<1>2. ASSUME CoreFails
      PROVE  TypeOK'
  <2>1. thread' \in Thread
    BY <1>2, CoreChange, Literals DEF CoreFails
  <2>2. toMain' \in Seq(ToMain)
    BY <1>2, ToMainMessages DEF CoreFails, TypeOK
  <2>3. QED BY <1>2, <2>1, <2>2 DEF CoreFails, Fault, InThread, TypeOK, mainVars, execVars
<1>3. ASSUME LeaseLost
      PROVE  TypeOK'
  BY <1>3 DEF LeaseLost, Fault, InThread, TypeOK, mainVars, execVars
<1>4. ASSUME Crash
      PROVE  TypeOK'
  <2>1. <<Signal("error"), Signal("exit")>> \in Seq(ToMain)
    BY ToMainMessages
  <2>2. /\ UNCHANGED <<state, worker, crashes, backoffs, connecting, closing, closed>>
        /\ UNCHANGED <<running, orphans, deliveries, closes, lost>>
        /\ faults' = faults + 1
    BY <1>4 DEF Crash, Fault, InThread, mainVars, execVars
  <2>3. DiesType
    BY <1>4, <2>1, DiesTypes DEF Crash
  <2>4. QED BY <2>2, <2>3 DEF TypeOK, DiesType
<1>5. QED BY <1>1, <1>2, <1>3, <1>4

LEMMA TypeStep ==
  ASSUME TypeOK, [Next]_vars
  PROVE  TypeOK'
<1>1. CASE UNCHANGED vars
  BY <1>1 DEF TypeOK, vars, mainVars, execVars, threadVars, boundVars
<1>2. CASE Next
  BY <1>2, MainType, MessageType, ThreadType, FaultType DEF Next
<1>3. QED BY <1>1, <1>2

LEMMA TypeInit ==
  ASSUME Init
  PROVE  TypeOK
<1>1. running \in [Requests -> Nat] /\ orphans \in [Requests -> Nat]
      /\ deliveries \in [Requests -> Nat]
  BY DEF Init, None
<1>2. thread \in Thread
  BY Threads DEF Init
<1>3. state \in ConnectionState
  BY Literals DEF Init
<1>4. toMain \in Seq(ToMain) /\ toThread \in Seq(ToThread)
  BY DEF Init
<1>5. QED BY <1>1, <1>2, <1>3, <1>4 DEF Init, TypeOK

\* Whatever the bounds and the faults, every variable keeps its type.
THEOREM ThreadTypeCorrect == Spec => []TypeOK
  BY TypeInit, TypeStep, PTL DEF Spec

-----------------------------------------------------------------------------
(* No thread after close().                                                *)

Others == Channel /\ Death /\ OneRespawn /\ Started /\ Closed

\* A thread that goes on living may post what is neither "exit" nor "CLOSED".
LEMMA Posts ==
  ASSUME ThreadInv, NEW new \in Seq(ToMain), toMain' = toMain \o new,
         \A i \in 1..Len(new) : new[i].type \notin {"exit", "CLOSED"},
         thread.alive, thread'.alive, UNCHANGED mainVars
  PROVE  Others'
<1>1. worker = "live" /\ ~closed
  BY DEF ThreadInv, Death, Closed
<1>2. \A i \in 1..Len(toMain) : toMain[i].type \notin {"exit", "CLOSED"}
  BY DEF ThreadInv, Channel
<1>3. \A i \in 1..Len(toMain') : toMain'[i].type \notin {"exit", "CLOSED"}
  BY <1>2 DEF ThreadInv, TypeOK
<1>4. Channel'
  BY <1>3 DEF Channel
<1>5. QED BY <1>1, <1>4 DEF Others, ThreadInv, Death, OneRespawn, Started, Closed, mainVars

\* A thread that does not post.
LEMMA Silent ==
  ASSUME ThreadInv, UNCHANGED <<mainVars, toMain>>, thread'.alive = thread.alive
  PROVE  Others'
  BY DEF ThreadInv, Others, Channel, Death, OneRespawn, Started, Closed, mainVars

LEMMA PostsOne ==
  ASSUME ThreadInv, NEW m \in ToMain, toMain' = Append(toMain, m), m.type \notin {"exit", "CLOSED"},
         thread.alive, thread'.alive, UNCHANGED mainVars
  PROVE  Others'
<1>1. <<m>> \in Seq(ToMain) /\ toMain' = toMain \o <<m>>
  BY DEF ThreadInv, TypeOK
<1>2. \A i \in 1..Len(<<m>>) : <<m>>[i].type \notin {"exit", "CLOSED"}
  OBVIOUS
<1>3. QED BY <1>1, <1>2, Posts

LEMMA Reports ==
  ASSUME ThreadInv, NEW t \in Thread, NEW s \in ConnectionState, NEW more \in Seq(ToMain),
         Report(t, s, more), thread.alive, t.alive, UNCHANGED mainVars,
         \A i \in 1..Len(more) : more[i].type \notin {"exit", "CLOSED"}
  PROVE  Others'
<1>1. CASE thread.state \in Over
  BY <1>1, Silent DEF Report
<1>2. CASE thread.state \notin Over
  <2>1. thread' = [t EXCEPT !.state = s] /\ toMain' = toMain \o <<StateChange(s)>> \o more
    BY <1>2 DEF Report
  <2>2. thread'.alive
    BY <2>1, Threads
  <2>3. <<StateChange(s)>> \o more \in Seq(ToMain)
    <3>1. <<StateChange(s)>> \in Seq(ToMain)
      BY ToMainMessages
    <3>2. QED BY <3>1
  <2>4. \A i \in 1..Len(<<StateChange(s)>> \o more) :
          (<<StateChange(s)>> \o more)[i].type \notin {"exit", "CLOSED"}
    BY ToMainMessages
  <2>5. toMain' = toMain \o (<<StateChange(s)>> \o more)
    <3>1. <<StateChange(s)>> \in Seq(ToMain) /\ toMain \in Seq(ToMain)
      BY ToMainMessages DEF ThreadInv, TypeOK
    <3>2. QED BY <2>1, <3>1
  <2>6. QED BY <2>2, <2>3, <2>4, <2>5, Posts
<1>3. QED BY <1>1, <1>2

\* A dying thread posts its last messages.
LEMMA Last ==
  ASSUME ThreadInv, NEW last \in Seq(ToMain), Dies(last), thread.alive, UNCHANGED mainVars,
         Len(last) >= 2, last[Len(last)].type = "exit",
         \A i \in 1..Len(last) : /\ last[i].type = "exit" => i = Len(last)
                                 /\ last[i].type = "CLOSED" => i = Len(last) - 1
  PROVE  Others'
<1>1. worker = "live" /\ ~closed
  BY DEF ThreadInv, Death, Closed
<1>2. \A i \in 1..Len(toMain) : toMain[i].type \notin {"exit", "CLOSED"}
  BY DEF ThreadInv, Channel
<1>3. toMain' = toMain \o last /\ ~thread'.alive
  BY Threads DEF Dies
<1>4. toMain \in Seq(ToMain)
  BY DEF ThreadInv, TypeOK
<1>5. /\ Len(toMain') = Len(toMain) + Len(last)
      /\ \A i \in 1..Len(toMain) : toMain'[i] = toMain[i]
      /\ \A i \in 1..Len(last) : toMain'[Len(toMain) + i] = last[i]
  BY <1>3, <1>4
<1>6. ASSUME NEW i \in 1..Len(toMain')
      PROVE  /\ toMain'[i].type = "exit" => i = Len(toMain')
             /\ toMain'[i].type = "CLOSED" => i = Len(toMain') - 1
  <2>0. Len(toMain) \in Nat /\ Len(last) \in Nat /\ i \in 1..(Len(toMain) + Len(last))
    BY <1>4, <1>5
  <2>1. CASE i <= Len(toMain)
    <3>1. i \in 1..Len(toMain)
      BY <2>0, <2>1
    <3>2. QED BY <1>2, <1>5, <3>1
  <2>2. CASE i > Len(toMain)
    <3>1. PICK k \in 1..Len(last) : i = Len(toMain) + k
      <4>1. i - Len(toMain) \in 1..Len(last) /\ i = Len(toMain) + (i - Len(toMain))
        BY <2>0, <2>2
      <4>2. QED BY <4>1
    <3>2. toMain'[i] = last[k]
      BY <1>5, <3>1
    <3>3. /\ last[k].type = "exit" => k = Len(last)
          /\ last[k].type = "CLOSED" => k = Len(last) - 1
      OBVIOUS
    <3>4. k \in Nat /\ i = Len(toMain) + k /\ Len(toMain') = Len(toMain) + Len(last)
      BY <1>5, <3>1
    <3>5. k = Len(last) => i = Len(toMain')
      BY <3>4
    <3>6. k = Len(last) - 1 => i = Len(toMain') - 1
      BY <2>0, <3>4
    <3>7. QED BY <3>2, <3>3, <3>5, <3>6
  <2>3. QED BY <2>0, <2>1, <2>2
<1>7. Channel'
  BY <1>3, <1>6 DEF Channel
<1>8. Death'
  <2>1. toMain'[Len(toMain')].type = "exit" /\ toMain' # <<>>
    BY <1>4, <1>5
  <2>2. QED BY <1>1, <2>1 DEF Death, mainVars
<1>9. QED BY <1>1, <1>7, <1>8 DEF Others, ThreadInv, OneRespawn, Started, Closed, mainVars

\* What the channel still holds once its head has been received.
LEMMA Received ==
  ASSUME ThreadInv, NEW type, Receive(type)
  PROVE  /\ worker = "live" /\ backoffs = 0 /\ connecting # "idle"
         /\ Channel'
         /\ toMain' # <<>> /\ toMain[Len(toMain)].type = "exit"
              => toMain'[Len(toMain')].type = "exit"
         /\ type # "exit" /\ ~thread.alive => toMain' # <<>>
         /\ type = "exit" => toMain' = <<>> /\ ~thread.alive
         /\ type = "CLOSED" => /\ ~thread.alive
                               /\ \A i \in 1..Len(toMain') : toMain'[i].type = "exit"
         /\ closed => type = "exit"
<1>1. toMain \in Seq(ToMain) /\ toMain # <<>> /\ toMain' = Tail(toMain)
      /\ toMain[1].type = type /\ thread' = thread
  BY DEF Receive, ThreadInv, TypeOK, threadVars
<1>0. Len(toMain) \in Nat \ {0} /\ 1 \in 1..Len(toMain)
  BY <1>1
<1>2. Len(toMain') = Len(toMain) - 1 /\ \A i \in 1..Len(toMain') : toMain'[i] = toMain[i + 1]
  BY <1>1
<1>3. worker = "live"
  BY <1>1 DEF ThreadInv, Death
<1>4. backoffs = 0 /\ connecting # "idle"
  BY <1>3 DEF ThreadInv, OneRespawn, Started, TypeOK
<1>5. Channel'
  <2>1. SUFFICES ASSUME NEW i \in 1..Len(toMain')
                 PROVE  /\ toMain'[i].type = "exit" => i = Len(toMain') /\ ~thread.alive
                        /\ toMain'[i].type = "CLOSED" => i = Len(toMain') - 1 /\ ~thread.alive
    BY <1>1 DEF Channel
  <2>2. i + 1 \in 1..Len(toMain) /\ toMain'[i] = toMain[i + 1]
    BY <1>1, <1>2
  <2>3. /\ toMain[i + 1].type = "exit" => i + 1 = Len(toMain) /\ ~thread.alive
        /\ toMain[i + 1].type = "CLOSED" => i + 1 = Len(toMain) - 1 /\ ~thread.alive
    BY <2>2 DEF ThreadInv, Channel
  <2>4. i \in Nat
    OBVIOUS
  <2>5. QED BY <1>0, <1>2, <2>2, <2>3, <2>4
<1>6. toMain' # <<>> => toMain'[Len(toMain')] = toMain[Len(toMain)]
  BY <1>1, <1>2
<1>7. type = "exit" => toMain' = <<>> /\ ~thread.alive
  <2>1. type = "exit" => 1 = Len(toMain) /\ ~thread.alive
    BY <1>0, <1>1 DEF ThreadInv, Channel
  <2>2. QED BY <1>1, <1>2, <2>1
<1>8. type # "exit" /\ ~thread.alive => toMain' # <<>>
  <2>1. ~thread.alive => toMain[Len(toMain)].type = "exit"
    BY <1>3 DEF ThreadInv, Death
  <2>2. type # "exit" /\ ~thread.alive => Len(toMain) # 1
    BY <1>1, <2>1
  <2>3. Len(toMain) # 1 => Len(toMain') # 0
    BY <1>0, <1>2
  <2>4. QED BY <2>2, <2>3
<1>9. type = "CLOSED" => ~thread.alive /\ \A i \in 1..Len(toMain') : toMain'[i].type = "exit"
  <2>1. SUFFICES ASSUME type = "CLOSED"
                 PROVE  ~thread.alive /\ \A i \in 1..Len(toMain') : toMain'[i].type = "exit"
    OBVIOUS
  <2>2. Len(toMain) = 2 /\ ~thread.alive
    <3>1. 1 = Len(toMain) - 1 /\ ~thread.alive
      BY <1>0, <1>1, <2>1 DEF ThreadInv, Channel
    <3>2. QED BY <1>0, <3>1
  <2>3. toMain[2].type = "exit"
    BY <1>3, <2>2 DEF ThreadInv, Death
  <2>4. QED BY <1>2, <2>2, <2>3
<1>10. closed => type = "exit"
  BY <1>1 DEF ThreadInv, Closed
<1>11. QED BY <1>3, <1>4, <1>5, <1>6, <1>7, <1>8, <1>9, <1>10

LEMMA MessageInv ==
  ASSUME ThreadInv, OnMessage
  PROVE  Others'
<1> USE DEF Others, Death, OneRespawn, Started, Closed
<1>1. ASSUME NEW type \in {"STATE_CHANGE", "CONNECTION_READY", "FATAL", "EXECUTION_REQUEST", "error"},
             Receive(type), UNCHANGED <<worker, backoffs, closed>>,
             connecting # "idle" => connecting' # "idle"
      PROVE  Others'
  <2>1. /\ worker = "live" /\ backoffs = 0 /\ connecting # "idle" /\ ~closed
        /\ Channel'
        /\ ~thread.alive => toMain' # <<>>
        /\ toMain' # <<>> /\ toMain[Len(toMain)].type = "exit" => toMain'[Len(toMain')].type = "exit"
    BY <1>1, Received
  <2>2. thread' = thread
    BY <1>1 DEF Receive, threadVars
  <2>3. Death'
    BY <1>1, <2>1, <2>2 DEF ThreadInv
  <2>4. QED BY <1>1, <2>1, <2>3
<1>2. ASSUME OnClosed
      PROVE  Others'
  <2>1. Receive("CLOSED")
    BY <1>2 DEF OnClosed
  <2>2. /\ worker = "live" /\ backoffs = 0 /\ connecting # "idle"
        /\ Channel' /\ ~thread.alive /\ toMain' # <<>>
        /\ toMain[Len(toMain)].type = "exit" => toMain'[Len(toMain')].type = "exit"
        /\ \A i \in 1..Len(toMain') : toMain'[i].type = "exit"
    BY <2>1, Received
  <2>3. thread' = thread
    BY <2>1 DEF Receive, threadVars
  <2>4. Death'
    BY <1>2, <2>2, <2>3 DEF OnClosed, ThreadInv
  <2>5. Closed'
    BY <1>2, <2>2, <2>3 DEF OnClosed, Over
  <2>6. QED BY <1>2, <2>2, <2>4, <2>5 DEF OnClosed
<1>3. ASSUME OnExit
      PROVE  Others'
  <2>1. Receive("exit")
    BY <1>3 DEF OnExit
  <2>2. /\ worker = "live" /\ backoffs = 0 /\ connecting # "idle"
        /\ Channel' /\ toMain' = <<>> /\ ~thread.alive
    BY <2>1, Received
  <2>3. thread' = thread
    BY <2>1 DEF Receive, threadVars
  <2>4. connecting' # "idle"
    BY <1>3, <2>2 DEF OnExit
  <2>5. worker' \in {"none", "exited"} /\ (worker' = "none" => closed')
    BY <1>3 DEF OnExit
  <2>6. backoffs' > 0 => backoffs' = 1
    BY <1>3, <2>2 DEF OnExit, ThreadInv, TypeOK
  <2>7. closed' => state' \in Over
    <3>1. CASE closing > 0
      BY <1>3, <3>1 DEF OnExit, Over
    <3>2. CASE ~(closing > 0)
      BY <1>3, <3>2 DEF OnExit, ThreadInv
    <3>3. QED BY <3>1, <3>2
  <2>8. \A i \in 1..Len(toMain') : toMain'[i].type = "exit"
    BY <2>2
  <2>9. QED BY <2>2, <2>3, <2>4, <2>5, <2>6, <2>7, <2>8
<1>4. ASSUME OnStateChange
      PROVE  Others'
  BY <1>1, <1>4 DEF OnStateChange
<1>5. ASSUME OnReady
      PROVE  Others'
  BY <1>1, <1>5 DEF OnReady
<1>6. ASSUME OnFatal
      PROVE  Others'
  BY <1>1, <1>6 DEF OnFatal
<1>7. ASSUME OnExecutionRequest
      PROVE  Others'
  BY <1>1, <1>7 DEF OnExecutionRequest, mainVars
<1>8. ASSUME OnError
      PROVE  Others'
  BY <1>1, <1>8 DEF OnError
<1>9. QED BY <1>2, <1>3, <1>4, <1>5, <1>6, <1>7, <1>8 DEF OnMessage

LEMMA MainInv ==
  ASSUME ThreadInv, Connect \/ Close \/ HandlerEnds \/ BackoffEnds
  PROVE  Others'
<1>1. ASSUME CreateWorker, ~closed, worker # "live", backoffs' = 0, connecting' # "idle",
             UNCHANGED <<closed, toMain>>
      PROVE  Others'
  <2>1. toMain = <<>> /\ thread'.alive /\ worker' = "live"
    BY <1>1, Threads DEF CreateWorker, ThreadInv, Death
  <2>2. Channel'
    BY <1>1, <2>1 DEF Channel
  <2>3. QED BY <1>1, <2>1, <2>2 DEF Others, Death, OneRespawn, Started, Closed
<1>2. ASSUME Connect
      PROVE  Others'
  <2>1. backoffs = 0 /\ ~closed /\ worker # "live"
    BY <1>2 DEF Connect, ThreadInv, OneRespawn, Closed, Started, TypeOK
  <2>2. QED BY <1>1, <1>2, <2>1 DEF Connect
<1>3. ASSUME Close
      PROVE  Others'
  <2>1. /\ UNCHANGED <<worker, backoffs, connecting, thread, toMain>>
        /\ state' \in Over /\ connecting # "idle"
        /\ closed' # closed => worker = "none"
    BY <1>3 DEF Close, threadVars, Over
  <2>2. worker = "none" => closed
    BY <2>1 DEF ThreadInv, Started
  <2>3. QED BY <2>1, <2>2, <1>3
        DEF Close, Others, ThreadInv, TypeOK, Channel, Death, OneRespawn, Started, Closed
<1>4. ASSUME HandlerEnds
      PROVE  Others'
  BY <1>4, Silent DEF HandlerEnds, threadVars
<1>5. ASSUME BackoffEnds
      PROVE  Others'
  <2>1. backoffs = 1 /\ backoffs' = 0 /\ worker # "live" /\ connecting # "idle"
    BY <1>5 DEF BackoffEnds, ThreadInv, OneRespawn
  <2>2. CASE state \in Over
    BY <1>5, <2>1, <2>2
    DEF BackoffEnds, threadVars, Others, ThreadInv, Channel, Death, OneRespawn, Started, Closed
  <2>3. CASE state \notin Over
    <3>1. ~closed
      BY <2>3 DEF ThreadInv, Closed
    <3>2. QED BY <1>1, <1>5, <2>1, <2>3, <3>1 DEF BackoffEnds
  <2>4. QED BY <2>2, <2>3
<1>6. QED BY <1>2, <1>3, <1>4, <1>5

LEMMA ThreadStepInv ==
  ASSUME ThreadInv, InTheThread \/ Deliver
  PROVE  Others'
<1>1. TypeOK
  BY DEF ThreadInv
<1>2. ASSUME TakeInit
      PROVE  Others'
  <2>1. thread'.alive = thread.alive
    BY <1>1, <1>2, CoreChange, Literals DEF TakeInit
  <2>2. QED BY <1>2, <2>1, Silent DEF TakeInit, Take
<1>3. ASSUME TakeConnect
      PROVE  Others'
  <2>1. thread.alive /\ UNCHANGED mainVars
    BY <1>3 DEF TakeConnect, Take
  <2>2. CASE thread.core = "none" \/ thread.state = "CLOSED"
    <3>1. toMain' = Append(toMain, Signal("FATAL")) /\ thread' = thread
      BY <1>3, <2>2 DEF TakeConnect
    <3>2. QED BY <2>1, <3>1, ToMainMessages, PostsOne
  <2>3. CASE ~(thread.core = "none" \/ thread.state = "CLOSED")
    <3>1. Report([thread EXCEPT !.core = "starting"], "CONNECTING", <<>>)
      BY <1>3, <2>3 DEF TakeConnect
    <3>2. [thread EXCEPT !.core = "starting"] \in Thread /\ "CONNECTING" \in ConnectionState
          /\ [thread EXCEPT !.core = "starting"].alive
      BY <1>1, <2>1, CoreChange, Literals
    <3>3. <<>> \in Seq(ToMain) /\ \A i \in 1..Len(<<>>) : <<>>[i].type \notin {"exit", "CLOSED"}
      OBVIOUS
    <3>4. QED BY <2>1, <3>1, <3>2, <3>3, Reports
  <2>4. QED BY <2>2, <2>3
<1>4. ASSUME TakeClose
      PROVE  Others'
  <2>1. thread.alive /\ thread'.alive /\ UNCHANGED mainVars
    BY <1>1, <1>4, StateChangeType, Literals DEF TakeClose, Take
  <2>2. QED BY <1>4, <2>1, ToMainMessages, Literals, PostsOne DEF TakeClose
<1>5. ASSUME TakeAnswer
      PROVE  Others'
  BY <1>5, Silent DEF TakeAnswer, Take
<1>6. ASSUME Deliver
      PROVE  Others'
  <2>1. PICK r \in Requests : toMain' = Append(toMain, [type |-> "EXECUTION_REQUEST", request |-> r])
    BY <1>6 DEF Deliver
  <2>2. thread.alive /\ thread'.alive /\ UNCHANGED mainVars
    BY <1>6 DEF Deliver
  <2>3. QED BY <2>1, <2>2, ToMainMessages, PostsOne
<1>7. ASSUME CoreReady
      PROVE  Others'
  <2>1. thread.alive /\ UNCHANGED mainVars
    BY <1>7 DEF CoreReady, ThreadStep, InThread
  <2>2. [thread EXCEPT !.core = "up", !.connected = TRUE] \in Thread
        /\ [thread EXCEPT !.core = "up", !.connected = TRUE].alive
    BY <1>1, <2>1, Threads DEF TypeOK
  <2>3. <<Signal("CONNECTION_READY")>> \in Seq(ToMain)
    BY ToMainMessages
  <2>4. \A i \in 1..Len(<<Signal("CONNECTION_READY")>>) :
          <<Signal("CONNECTION_READY")>>[i].type \notin {"exit", "CLOSED"}
    BY ToMainMessages
  <2>5. QED BY <1>7, <2>1, <2>2, <2>3, <2>4, Literals, Reports DEF CoreReady
<1>8. ASSUME CoreExits
      PROVE  Others'
  <2>1. thread'.alive = thread.alive
    BY <1>1, <1>8, CoreChange, Literals DEF CoreExits
  <2>2. QED BY <1>8, <2>1, Silent DEF CoreExits, ThreadStep, InThread
<1>9. ASSUME ThreadExits
      PROVE  Others'
  <2>1. thread.alive /\ UNCHANGED mainVars
    BY <1>9 DEF ThreadExits, ThreadStep, InThread
  <2> DEFINE last == <<StateChange("CLOSED"), Signal("CLOSED"), Signal("exit")>>
  <2>2. /\ StateChange("CLOSED") \in ToMain /\ StateChange("CLOSED").type = "STATE_CHANGE"
        /\ Signal("CLOSED") \in ToMain /\ Signal("CLOSED").type = "CLOSED"
        /\ Signal("exit") \in ToMain /\ Signal("exit").type = "exit"
    BY ToMainMessages, Literals
  <2>3. /\ last \in Seq(ToMain) /\ Len(last) = 3
        /\ last[1].type = "STATE_CHANGE" /\ last[2].type = "CLOSED" /\ last[3].type = "exit"
    BY <2>2
  <2>4. Dies(last)
    BY <1>9 DEF ThreadExits
  <2> HIDE DEF last
  <2>5. \A i \in 1..Len(last) : /\ last[i].type = "exit" => i = Len(last)
                                /\ last[i].type = "CLOSED" => i = Len(last) - 1
    BY <2>3
  <2>6. Len(last) >= 2 /\ last[Len(last)].type = "exit" /\ last \in Seq(ToMain)
    BY <2>3
  <2>7. QED BY <2>1, <2>4, <2>5, <2>6, Last
<1>10. QED BY <1>2, <1>3, <1>4, <1>5, <1>6, <1>7, <1>8, <1>9 DEF InTheThread

LEMMA FaultInv ==
  ASSUME ThreadInv, CoreDrops \/ CoreFails \/ LeaseLost \/ Crash
  PROVE  Others'
<1>1. TypeOK
  BY DEF ThreadInv
<1>2. ASSUME CoreDrops
      PROVE  Others'
  <2>1. thread.alive /\ UNCHANGED mainVars
    BY <1>2 DEF CoreDrops, Fault, InThread
  <2>2. [thread EXCEPT !.core = "down"] \in Thread /\ [thread EXCEPT !.core = "down"].alive
    BY <1>1, <2>1, CoreChange, Literals
  <2>3. <<>> \in Seq(ToMain) /\ \A i \in 1..Len(<<>>) : <<>>[i].type \notin {"exit", "CLOSED"}
    OBVIOUS
  <2>4. QED BY <1>2, <2>1, <2>2, <2>3, Literals, Reports DEF CoreDrops
<1>3. ASSUME CoreFails
      PROVE  Others'
  <2>1. thread.alive /\ thread'.alive /\ UNCHANGED mainVars
    BY <1>1, <1>3, CoreChange, Literals DEF CoreFails, Fault, InThread
  <2>2. CASE thread.connected
    BY <1>3, <2>1, <2>2, Silent DEF CoreFails
  <2>3. CASE ~thread.connected
    BY <1>3, <2>1, <2>3, ToMainMessages, PostsOne DEF CoreFails
  <2>4. QED BY <2>2, <2>3
<1>4. ASSUME LeaseLost
      PROVE  Others'
  BY <1>4, Silent DEF LeaseLost, Fault, InThread
<1>5. ASSUME Crash
      PROVE  Others'
  <2>1. thread.alive /\ UNCHANGED mainVars
    BY <1>5 DEF Crash, Fault, InThread
  <2> DEFINE last == <<Signal("error"), Signal("exit")>>
  <2>2. /\ Signal("error") \in ToMain /\ Signal("error").type = "error"
        /\ Signal("exit") \in ToMain /\ Signal("exit").type = "exit"
    BY ToMainMessages
  <2>3. /\ last \in Seq(ToMain) /\ Len(last) = 2
        /\ last[1].type = "error" /\ last[2].type = "exit"
    BY <2>2
  <2>4. Dies(last)
    BY <1>5 DEF Crash
  <2> HIDE DEF last
  <2>5. \A i \in 1..Len(last) : /\ last[i].type = "exit" => i = Len(last)
                                /\ last[i].type = "CLOSED" => i = Len(last) - 1
    BY <2>3
  <2>6. Len(last) >= 2 /\ last[Len(last)].type = "exit" /\ last \in Seq(ToMain)
    BY <2>3
  <2>7. QED BY <2>1, <2>4, <2>5, <2>6, Last
<1>6. QED BY <1>2, <1>3, <1>4, <1>5

LEMMA InvInit ==
  ASSUME Init
  PROVE  ThreadInv
<1>1. TypeOK
  BY TypeInit
<1>2. toMain = <<>> /\ ~thread.alive /\ worker = "none" /\ backoffs = 0 /\ connecting = "idle" /\ ~closed
  BY Threads DEF Init
<1>3. QED BY <1>1, <1>2 DEF ThreadInv, Channel, Death, OneRespawn, Started, Closed

LEMMA InvStep ==
  ASSUME ThreadInv, [Next]_vars
  PROVE  ThreadInv'
<1>1. TypeOK'
  BY TypeStep DEF ThreadInv
<1>2. Others'
  <2>1. CASE UNCHANGED vars
    BY <2>1, Silent DEF vars, threadVars
  <2>2. CASE Next
    BY <2>2, MainInv, MessageInv, ThreadStepInv, FaultInv DEF Next
  <2>3. QED BY <2>1, <2>2
<1>3. QED BY <1>1, <1>2 DEF ThreadInv, Others

\* Once close() has returned there is no thread and none is created later, however the
\* thread's last messages, a crash and the respawn timer fall.
THEOREM ThreadStaysClosed == Spec => []NoThreadAfterClose
<1>1. ThreadInv => NoThreadAfterClose
  BY DEF ThreadInv, Closed, NoThreadAfterClose
<1>2. QED BY <1>1, InvInit, InvStep, PTL DEF Spec
-----------------------------------------------------------------------------
(* The thread does not exit while a request is in flight.  The argument    *)
(* counts: of a request that was delivered n times, fewer than n handlers  *)
(* are begun or about to begin as soon as one of them has answered.        *)

\* The deliveries of r that the main thread has not heard of.
Unheard(r) == {i \in 1..Len(toMain) : toMain[i].type = "EXECUTION_REQUEST" /\ toMain[i].request = r}

\* The deliveries of r without an answer; whether the present thread has made some of
\* them; and whether none of its deliveries has been answered.
Open(r) == running[r] + Cardinality(Unheard(r))
Busy(r) == running[r] > orphans[r] \/ Cardinality(Unheard(r)) > 0
Unanswered(r) == Busy(r) /\ deliveries[r] <= Open(r)
AllAnswered == \A r \in Requests \ lost : ~Unanswered(r)

Counted == \A r \in Requests : orphans[r] <= running[r] /\ Open(r) <= deliveries[r]

\* Handlers outlive their thread as orphans.
Orphaned == worker # "live" => running = orphans

\* An answer on its way to the thread is of a request that has been answered.
AnswersCount ==
  \A i \in 1..Len(toThread) :
    toThread[i].type = "EXECUTION_ANSWER"
      => Open(toThread[i].request) < deliveries[toThread[i].request]

\* A request nobody has answered holds its lease, unless the gateway took it back.
Held == thread.alive => \A r \in Requests \ lost : Unanswered(r) => r \in leases

\* So a loop that exits, because no lease is left, leaves none unanswered.
ExitedIdle == thread.core = "exited" => leases = {}
LeftInOrder == closed \/ (\E i \in 1..Len(toMain) : toMain[i].type = "CLOSED") => AllAnswered

AnswerInv == Counted /\ Orphaned /\ AnswersCount /\ Held /\ ExitedIdle /\ LeftInOrder

LEMMA UnheardCount ==
  ASSUME TypeOK, NEW r
  PROVE  /\ IsFiniteSet(Unheard(r)) /\ Cardinality(Unheard(r)) \in Nat
         /\ Cardinality(Unheard(r)) = 0 <=> Unheard(r) = {}
<1>1. Len(toMain) \in Nat
  BY DEF TypeOK
<1>2. IsFiniteSet(1..Len(toMain))
  BY <1>1, FS_Interval
<1>3. IsFiniteSet(Unheard(r))
  BY <1>2, FS_Subset DEF Unheard
<1>4. QED BY <1>3, FS_CardinalityType, FS_EmptySet

\* What is posted is not a delivery.
LEMMA PostedElse ==
  ASSUME TypeOK, NEW new \in Seq(ToMain), toMain' = toMain \o new,
         \A i \in 1..Len(new) : new[i].type # "EXECUTION_REQUEST", NEW r
  PROVE  Unheard(r)' = Unheard(r)
<1>1. toMain \in Seq(ToMain) /\ Len(toMain) \in Nat /\ Len(new) \in Nat
  BY DEF TypeOK
<1>2. /\ Len(toMain') = Len(toMain) + Len(new)
      /\ \A i \in 1..Len(toMain) : toMain'[i] = toMain[i]
      /\ \A i \in 1..Len(toMain') : i > Len(toMain) =>
           i - Len(toMain) \in 1..Len(new) /\ toMain'[i] = new[i - Len(toMain)]
  BY <1>1
<1>3. ASSUME NEW i \in 1..Len(toMain'), toMain'[i].type = "EXECUTION_REQUEST"
      PROVE  i \in 1..Len(toMain)
  BY <1>1, <1>2, <1>3
<1>4. 1..Len(toMain) \subseteq 1..Len(toMain')
  BY <1>1, <1>2
<1>5. QED BY <1>2, <1>3, <1>4 DEF Unheard

LEMMA PostedDelivery ==
  ASSUME TypeOK, NEW q \in Requests,
         toMain' = Append(toMain, [type |-> "EXECUTION_REQUEST", request |-> q])
  PROVE  \A r \in Requests :
           Cardinality(Unheard(r))' = Cardinality(Unheard(r)) + (IF r = q THEN 1 ELSE 0)
<1> SUFFICES ASSUME NEW r \in Requests
             PROVE  Cardinality(Unheard(r))' = Cardinality(Unheard(r)) + (IF r = q THEN 1 ELSE 0)
  OBVIOUS
<1> DEFINE n == Len(toMain)
<1>1. toMain \in Seq(ToMain) /\ n \in Nat
  BY DEF TypeOK
<1>2. /\ Len(toMain') = n + 1
      /\ \A i \in 1..n : toMain'[i] = toMain[i]
      /\ toMain'[n + 1].type = "EXECUTION_REQUEST" /\ toMain'[n + 1].request = q
  BY <1>1, ToMainMessages
<1>3. 1..(n + 1) = 1..n \cup {n + 1} /\ n + 1 \notin 1..n
  BY <1>1
<1>4. CASE r = q
  <2>1. Unheard(r)' = Unheard(r) \cup {n + 1} /\ n + 1 \notin Unheard(r)
    BY <1>2, <1>3, <1>4 DEF Unheard
  <2>2. QED BY <1>4, <2>1, UnheardCount, FS_AddElement
<1>5. CASE r # q
  <2>1. Unheard(r)' = Unheard(r)
    BY <1>2, <1>3, <1>5 DEF Unheard
  <2>2. QED BY <1>5, <2>1, UnheardCount
<1>6. QED BY <1>4, <1>5

LEMMA HeardNext ==
  ASSUME TypeOK, NEW type, Receive(type), NEW r \in Requests
  PROVE  Cardinality(Unheard(r)) =
           Cardinality(Unheard(r))' +
             (IF type = "EXECUTION_REQUEST" /\ Head(toMain).request = r THEN 1 ELSE 0)
<1> DEFINE n == Len(toMain)
           Rest == Unheard(r) \ {1}
           f == [i \in Rest |-> i - 1]
<1>1. toMain \in Seq(ToMain) /\ n \in Nat \ {0} /\ Head(toMain) = toMain[1]
      /\ Head(toMain).type = type
  BY DEF TypeOK, Receive
<1>2. Len(toMain') = n - 1 /\ \A i \in 1..(n - 1) : toMain'[i] = toMain[i + 1]
  BY <1>1 DEF Receive
<1>3. IsFiniteSet(Rest) /\ Cardinality(Unheard(r)) =
        Cardinality(Rest) + (IF 1 \in Unheard(r) THEN 1 ELSE 0)
  <2>1. IsFiniteSet(Unheard(r)) /\ Cardinality(Unheard(r)) \in Nat
    BY UnheardCount
  <2>2. /\ IsFiniteSet(Rest)
        /\ Cardinality(Rest) = IF 1 \in Unheard(r) THEN Cardinality(Unheard(r)) - 1
                               ELSE Cardinality(Unheard(r))
    BY <2>1, FS_RemoveElement
  <2>3. QED BY <2>1, <2>2
<1>4. f \in Bijection(Rest, Unheard(r)')
  <2>1. ASSUME NEW i \in Rest
        PROVE  i \in Nat /\ i - 1 \in Unheard(r)'
    <3>1. i \in 1..n /\ i # 1 /\ toMain[i].type = "EXECUTION_REQUEST" /\ toMain[i].request = r
      BY DEF Unheard
    <3>2. i - 1 \in 1..(n - 1) /\ toMain'[i - 1] = toMain[i]
      BY <1>1, <1>2, <3>1
    <3>3. QED BY <1>2, <3>1, <3>2 DEF Unheard
  <2>2. ASSUME NEW j \in Unheard(r)'
        PROVE  j + 1 \in Rest /\ (j + 1) - 1 = j
    <3>1. j \in 1..(n - 1) /\ toMain'[j].type = "EXECUTION_REQUEST" /\ toMain'[j].request = r
      BY <1>2 DEF Unheard
    <3>2. j + 1 \in 1..n /\ j + 1 # 1 /\ toMain'[j] = toMain[j + 1] /\ (j + 1) - 1 = j
      BY <1>1, <1>2, <3>1
    <3>3. QED BY <3>1, <3>2 DEF Unheard
  <2>3. f \in [Rest -> Unheard(r)']
    BY <2>1
  <2>4. \A a, b \in Rest : f[a] = f[b] => a = b
    BY <2>1
  <2>5. \A t \in Unheard(r)' : \E s \in Rest : f[s] = t
    BY <2>2
  <2>6. QED BY <2>3, <2>4, <2>5 DEF Bijection, Injection, Surjection, IsInjective
<1>5. Cardinality(Unheard(r)') = Cardinality(Rest)
  BY <1>3, <1>4, FS_Bijection DEF ExistsBijection
<1>6. 1 \in Unheard(r) <=> type = "EXECUTION_REQUEST" /\ Head(toMain).request = r
  BY <1>1 DEF Unheard
<1>7. QED BY <1>3, <1>5, <1>6

LEMMA Numbers ==
  ASSUME TypeOK, NEW r \in Requests
  PROVE  /\ running[r] \in Nat /\ orphans[r] \in Nat /\ deliveries[r] \in Nat
         /\ Cardinality(Unheard(r)) \in Nat
  BY UnheardCount DEF TypeOK

\* A step that neither makes a delivery nor answers one.
Quiet == /\ UNCHANGED <<running, orphans, deliveries>>
         /\ \A r \in Requests : Cardinality(Unheard(r))' = Cardinality(Unheard(r))

LEMMA QuietStep ==
  ASSUME Quiet
  PROVE  /\ Counted => Counted'
         /\ \A r \in Requests : Open(r)' = Open(r) /\ (Unanswered(r)' <=> Unanswered(r))
         /\ lost \subseteq lost' /\ AllAnswered => AllAnswered'
<1>1. \A r \in Requests : Open(r)' = Open(r) /\ (Busy(r)' <=> Busy(r))
  BY DEF Quiet, Open, Busy
<1>2. \A r \in Requests : Unanswered(r)' <=> Unanswered(r)
  BY <1>1 DEF Quiet, Unanswered
<1>3. QED BY <1>1, <1>2 DEF Quiet, Counted, AllAnswered

\* Neither does what the thread posts, but for the deliveries.
LEMMA QuietPosts ==
  ASSUME TypeOK, NEW new \in Seq(ToMain), toMain' = toMain \o new,
         \A i \in 1..Len(new) : new[i].type # "EXECUTION_REQUEST",
         UNCHANGED <<running, orphans, deliveries>>
  PROVE  Quiet
  BY PostedElse DEF Quiet

\* A living thread has not left, so that only a step that leaves can break LeftInOrder.
LEMMA NotLeft ==
  ASSUME ThreadInv, thread.alive
  PROVE  ~closed /\ \A i \in 1..Len(toMain) : toMain[i].type # "CLOSED"
  BY DEF ThreadInv, Channel, Closed

\* No answer is sent to the thread.
NothingNew == \A i \in 1..Len(toThread') : \E j \in 1..Len(toThread) : toThread'[i] = toThread[j]

LEMMA NothingNewTaken ==
  ASSUME TypeOK
  PROVE  /\ toThread' = toThread => NothingNew
         /\ \A type : Take(type) => NothingNew
<1>1. toThread' = toThread => NothingNew
  BY DEF NothingNew
<1>2. ASSUME NEW type, Take(type)
      PROVE  NothingNew
  <2>1. toThread \in Seq(ToThread) /\ toThread # <<>> /\ toThread' = Tail(toThread)
    BY <1>2 DEF Take, TypeOK
  <2>2. \A i \in 1..Len(toThread') : i + 1 \in 1..Len(toThread) /\ toThread'[i] = toThread[i + 1]
    BY <2>1
  <2>3. QED BY <2>2 DEF NothingNew
<1>3. QED BY <1>1, <1>2

LEMMA AnswersAre ==
  ASSUME \A i \in 1..Len(toThread') : toThread'[i].type = "EXECUTION_ANSWER" =>
           \E r \in Requests : toThread'[i].request = r /\ Open(r)' < deliveries'[r]
  PROVE  AnswersCount'
<1>1. SUFFICES ASSUME NEW i \in 1..Len(toThread'), toThread'[i].type = "EXECUTION_ANSWER"
               PROVE  running'[toThread'[i].request] + Cardinality(Unheard(toThread[i].request)')
                        < deliveries'[toThread'[i].request]
  BY DEF AnswersCount, Open
<1>2. PICK r \in Requests : toThread'[i].request = r /\ Open(r)' < deliveries'[r]
  BY <1>1
<1>3. Unheard(toThread[i].request)' = Unheard(r)'
  BY <1>2 DEF Unheard
<1>4. QED BY <1>2, <1>3 DEF Open

LEMMA AnswersStillCount ==
  ASSUME TypeOK, AnswersCount, NothingNew,
         \A r \in Requests : Open(r) < deliveries[r] => Open(r)' < deliveries'[r]
  PROVE  AnswersCount'
<1>1. SUFFICES ASSUME NEW i \in 1..Len(toThread'), toThread'[i].type = "EXECUTION_ANSWER"
               PROVE  \E r \in Requests : toThread'[i].request = r /\ Open(r)' < deliveries'[r]
  BY AnswersAre
<1>2. PICK j \in 1..Len(toThread) : toThread'[i] = toThread[j]
  BY DEF NothingNew
<1>3. PICK r \in Requests : r = toThread[j].request
  BY <1>1, <1>2, Contents DEF TypeOK
<1>4. Open(r) < deliveries[r]
  BY <1>1, <1>2, <1>3 DEF AnswersCount
<1>5. QED BY <1>2, <1>3, <1>4

\* A thread that goes on living without a delivery or an answer.
LEMMA ThreadLives ==
  ASSUME ThreadInv, AnswerInv, thread.alive, UNCHANGED <<mainVars, execVars, deliveries, leases, lost>>,
         NEW new \in Seq(ToMain), toMain' = toMain \o new,
         \A i \in 1..Len(new) : new[i].type \notin {"EXECUTION_REQUEST", "CLOSED"},
         NothingNew, thread'.core = "exited" => leases = {}
  PROVE  AnswerInv'
<1>1. Quiet
  <2>1. UNCHANGED <<running, orphans, deliveries>>
    BY DEF execVars
  <2>2. \A i \in 1..Len(new) : new[i].type # "EXECUTION_REQUEST"
    OBVIOUS
  <2>3. QED BY <2>1, <2>2, QuietPosts DEF ThreadInv
<1>2. Counted' /\ Orphaned'
  BY <1>1, QuietStep DEF AnswerInv, Orphaned, mainVars, Quiet
<1>3. Held' /\ ExitedIdle'
  BY <1>1, QuietStep DEF AnswerInv, Held, ExitedIdle
<1>4. AnswersCount'
  BY <1>1, QuietStep, AnswersStillCount DEF AnswerInv, ThreadInv, Quiet
<1>5. LeftInOrder'
  <2>1. ~closed' /\ \A i \in 1..Len(toMain') : toMain'[i].type # "CLOSED"
    <3>1. toMain \in Seq(ToMain)
      BY DEF ThreadInv, TypeOK
    <3>2. QED BY <3>1, NotLeft DEF mainVars
  <2>2. QED BY <2>1 DEF LeftInOrder
<1>6. QED BY <1>2, <1>3, <1>4, <1>5 DEF AnswerInv

\* What the lives of threads need of Report and of a single message.
LEMMA ThreadReports ==
  ASSUME ThreadInv, AnswerInv, thread.alive, UNCHANGED <<mainVars, execVars, deliveries, leases, lost>>,
         NEW t \in Thread, NEW s \in ConnectionState, NEW more \in Seq(ToMain), Report(t, s, more),
         \A i \in 1..Len(more) : more[i].type \notin {"EXECUTION_REQUEST", "CLOSED"},
         NothingNew, t.core # "exited"
  PROVE  AnswerInv'
<1>1. CASE thread.state \in Over
  <2>1. thread' = t /\ <<>> \in Seq(ToMain) /\ toMain' = toMain \o <<>> /\ Len(<<>>) = 0
    BY <1>1 DEF Report, ThreadInv, TypeOK
  <2>2. \A i \in 1..Len(<<>>) : <<>>[i].type \notin {"EXECUTION_REQUEST", "CLOSED"}
    OBVIOUS
  <2>3. QED BY <2>1, <2>2, ThreadLives
<1>2. CASE thread.state \notin Over
  <2>1. thread' = [t EXCEPT !.state = s] /\ toMain' = toMain \o <<StateChange(s)>> \o more
    BY <1>2 DEF Report
  <2>2. thread'.core # "exited"
    BY <2>1 DEF Thread
  <2>3. <<StateChange(s)>> \in Seq(ToMain) /\ toMain \in Seq(ToMain)
    BY ToMainMessages DEF ThreadInv, TypeOK
  <2>4. /\ <<StateChange(s)>> \o more \in Seq(ToMain)
        /\ toMain' = toMain \o (<<StateChange(s)>> \o more)
    BY <2>1, <2>3
  <2>5. \A i \in 1..Len(<<StateChange(s)>> \o more) :
          (<<StateChange(s)>> \o more)[i].type \notin {"EXECUTION_REQUEST", "CLOSED"}
    BY ToMainMessages
  <2>6. QED BY <2>2, <2>4, <2>5, ThreadLives
<1>3. QED BY <1>1, <1>2

LEMMA ThreadPosts ==
  ASSUME ThreadInv, AnswerInv, thread.alive, UNCHANGED <<mainVars, execVars, deliveries, leases, lost>>,
         NEW m \in ToMain, toMain' = Append(toMain, m),
         m.type \notin {"EXECUTION_REQUEST", "CLOSED"},
         NothingNew, thread'.core = "exited" => leases = {}
  PROVE  AnswerInv'
<1>1. <<m>> \in Seq(ToMain) /\ toMain' = toMain \o <<m>>
  <2>1. toMain \in Seq(ToMain)
    BY DEF ThreadInv, TypeOK
  <2>2. QED BY <2>1
<1>2. \A i \in 1..Len(<<m>>) : <<m>>[i].type \notin {"EXECUTION_REQUEST", "CLOSED"}
  OBVIOUS
<1>3. QED BY <1>1, <1>2, ThreadLives

LEMMA ThreadSilent ==
  ASSUME ThreadInv, AnswerInv, thread.alive,
         UNCHANGED <<mainVars, execVars, deliveries, leases, lost, toMain>>,
         NothingNew, thread'.core = "exited" => leases = {}
  PROVE  AnswerInv'
<1>1. <<>> \in Seq(ToMain) /\ toMain' = toMain \o <<>> /\ Len(<<>>) = 0
  BY DEF ThreadInv, TypeOK
<1>2. \A i \in 1..Len(<<>>) : <<>>[i].type \notin {"EXECUTION_REQUEST", "CLOSED"}
  OBVIOUS
<1>3. QED BY <1>1, <1>2, ThreadLives

\* The thread ends: its last messages are in the channel.
LEMMA ThreadDies ==
  ASSUME ThreadInv, AnswerInv, thread.alive, UNCHANGED <<mainVars, execVars, deliveries, lost>>,
         NEW last \in Seq(ToMain), Dies(last),
         \A i \in 1..Len(last) : last[i].type # "EXECUTION_REQUEST",
         thread.core = "exited" \/ \A i \in 1..Len(last) : last[i].type # "CLOSED"
  PROVE  AnswerInv'
<1>1. Quiet
  BY QuietPosts DEF Dies, ThreadInv, execVars
<1>2. Counted' /\ Orphaned'
  BY <1>1, QuietStep DEF AnswerInv, Orphaned, mainVars, Quiet
<1>3. Held' /\ ExitedIdle' /\ AnswersCount'
  BY DEF Dies, NoThread, NewThread, Held, ExitedIdle, AnswersCount
<1>4. LeftInOrder'
  <2>1. CASE thread.core = "exited"
    <3>1. AllAnswered
      BY <2>1 DEF AnswerInv, ExitedIdle, Held, AllAnswered
    <3>2. QED BY <1>1, <3>1, QuietStep DEF LeftInOrder
  <2>2. CASE \A i \in 1..Len(last) : last[i].type # "CLOSED"
    <3>1. toMain \in Seq(ToMain)
      BY DEF ThreadInv, TypeOK
    <3>2. ~closed' /\ \A i \in 1..Len(toMain') : toMain'[i].type # "CLOSED"
      BY <2>2, <3>1, NotLeft DEF mainVars, Dies
    <3>3. QED BY <3>2 DEF LeftInOrder
  <2>3. QED BY <2>1, <2>2
<1>5. QED BY <1>2, <1>3, <1>4 DEF AnswerInv

LEMMA ThreadAnswers ==
  ASSUME ThreadInv, AnswerInv, InTheThread \/ Deliver
  PROVE  AnswerInv'
<1>1. TypeOK
  BY DEF ThreadInv
<1>2. ASSUME TakeInit
      PROVE  AnswerInv'
  <2>1. thread'.core # "exited"
    BY <1>1, <1>2 DEF TakeInit, TypeOK, Thread
  <2>2. NothingNew /\ thread.alive /\ UNCHANGED <<mainVars, execVars, deliveries, leases, lost, toMain>>
    BY <1>1, <1>2, NothingNewTaken DEF TakeInit, Take, boundVars
  <2>3. QED BY <2>1, <2>2, ThreadSilent
<1>3. ASSUME TakeConnect
      PROVE  AnswerInv'
  <2>1. NothingNew /\ thread.alive /\ UNCHANGED <<mainVars, execVars, deliveries, leases, lost>>
    BY <1>1, <1>3, NothingNewTaken DEF TakeConnect, Take, boundVars
  <2>2. CASE thread.core = "none" \/ thread.state = "CLOSED"
    <3>1. toMain' = Append(toMain, Signal("FATAL")) /\ thread' = thread
      BY <1>3, <2>2 DEF TakeConnect
    <3>2. thread'.core = "exited" => leases = {}
      BY <3>1 DEF AnswerInv, ExitedIdle
    <3>3. QED BY <2>1, <3>1, <3>2, ToMainMessages, ThreadPosts
  <2>3. CASE ~(thread.core = "none" \/ thread.state = "CLOSED")
    <3>1. Report([thread EXCEPT !.core = "starting"], "CONNECTING", <<>>)
      BY <1>3, <2>3 DEF TakeConnect
    <3>2. [thread EXCEPT !.core = "starting"] \in Thread /\ "CONNECTING" \in ConnectionState
      BY <1>1, CoreChange, Literals
    <3>3. [thread EXCEPT !.core = "starting"].core # "exited"
      BY <1>1 DEF TypeOK, Thread
    <3>4. <<>> \in Seq(ToMain) /\ \A i \in 1..Len(<<>>) : <<>>[i].type \notin {"EXECUTION_REQUEST", "CLOSED"}
      OBVIOUS
    <3>5. QED BY <2>1, <3>1, <3>2, <3>3, <3>4, ThreadReports
  <2>4. QED BY <2>2, <2>3
<1>4. ASSUME TakeClose
      PROVE  AnswerInv'
  <2>1. NothingNew /\ thread.alive /\ UNCHANGED <<mainVars, execVars, deliveries, leases, lost>>
    BY <1>1, <1>4, NothingNewTaken DEF TakeClose, Take, boundVars
  <2>2. thread'.core = thread.core
    BY <1>1, <1>4 DEF TakeClose, TypeOK, Thread
  <2>3. thread'.core = "exited" => leases = {}
    BY <2>2 DEF AnswerInv, ExitedIdle
  <2>4. toMain' = Append(toMain, StateChange("CLOSING"))
    BY <1>4 DEF TakeClose
  <2>5. QED BY <2>1, <2>3, <2>4, ToMainMessages, Literals, ThreadPosts
<1>5. ASSUME TakeAnswer
      PROVE  AnswerInv'
  <2>1. /\ NothingNew /\ thread.alive /\ UNCHANGED <<mainVars, execVars, deliveries, lost, toMain, thread>>
        /\ toThread # <<>>
    BY <1>1, <1>5, NothingNewTaken DEF TakeAnswer, Take, boundVars
  <2>2. Quiet
    BY <2>1 DEF Quiet, Unheard, execVars
  <2>3. PICK r \in Requests : r = Head(toThread).request
    BY <1>1, <1>5, TakeType, Contents DEF TakeAnswer
  <2>4. Open(r) < deliveries[r]
    <3>1. 1 \in 1..Len(toThread) /\ toThread[1].type = "EXECUTION_ANSWER" /\ toThread[1].request = r
      BY <1>1, <1>5, <2>1, <2>3 DEF TakeAnswer, Take, TypeOK
    <3>2. QED BY <3>1 DEF AnswerInv, AnswersCount
  <2>5. ~Unanswered(r)
    BY <1>1, <2>4, Numbers DEF Unanswered, Open
  <2>6. leases \ {r} \subseteq leases' /\ leases' \subseteq leases
    BY <1>5, <2>3 DEF TakeAnswer
  <2>7. Counted' /\ Orphaned'
    BY <2>1, <2>2, QuietStep DEF AnswerInv, Orphaned, mainVars, Quiet
  <2>8. Held'
    BY <2>1, <2>2, <2>5, <2>6, QuietStep DEF AnswerInv, Held
  <2>9. ExitedIdle'
    BY <2>1, <2>6 DEF AnswerInv, ExitedIdle
  <2>10. AnswersCount'
    BY <1>1, <2>1, <2>2, QuietStep, AnswersStillCount DEF AnswerInv, Quiet
  <2>11. LeftInOrder'
    BY <2>1, <2>2, QuietStep DEF AnswerInv, LeftInOrder, mainVars
  <2>12. QED BY <2>7, <2>8, <2>9, <2>10, <2>11 DEF AnswerInv
<1>6. ASSUME Deliver
      PROVE  AnswerInv'
  <2>1. PICK r \in Requests :
          /\ deliveries' = [deliveries EXCEPT ![r] = @ + 1]
          /\ leases' = leases \cup {r}
          /\ toMain' = Append(toMain, [type |-> "EXECUTION_REQUEST", request |-> r])
    BY <1>6 DEF Deliver
  <2>2. /\ thread.alive /\ thread.core = "up"
        /\ UNCHANGED <<mainVars, running, orphans, thread, toThread, lost>>
    BY <1>6 DEF Deliver, execVars
  <2>3. \A q \in Requests :
          Cardinality(Unheard(q))' = Cardinality(Unheard(q)) + (IF q = r THEN 1 ELSE 0)
    BY <1>1, <2>1, PostedDelivery
  <2>4. \A q \in Requests : deliveries'[q] = deliveries[q] + (IF q = r THEN 1 ELSE 0)
    BY <1>1, <2>1 DEF TypeOK
  <2>5. ASSUME NEW q \in Requests
        PROVE  /\ Open(q)' = Open(q) + (IF q = r THEN 1 ELSE 0)
               /\ q # r => (Unanswered(q)' <=> Unanswered(q))
               /\ Open(q) <= deliveries[q] => Open(q)' <= deliveries'[q]
               /\ Open(q) < deliveries[q] => Open(q)' < deliveries'[q]
    BY <1>1, <2>2, <2>3, <2>4, Numbers DEF Open, Unanswered, Busy
  <2>6. Counted' /\ Orphaned'
    BY <2>2, <2>5 DEF AnswerInv, Counted, Orphaned, mainVars
  <2>7. Held' /\ ExitedIdle'
    BY <2>1, <2>2, <2>5 DEF AnswerInv, Held, ExitedIdle
  <2>8. AnswersCount'
    <3>1. NothingNew
      BY <1>1, <2>2, NothingNewTaken
    <3>2. QED BY <1>1, <2>5, <3>1, AnswersStillCount DEF AnswerInv
  <2>9. LeftInOrder'
    <3>1. toMain \in Seq(ToMain)
      BY <1>1 DEF TypeOK
    <3>2. ~closed' /\ \A i \in 1..Len(toMain') : toMain'[i].type # "CLOSED"
      BY <2>1, <2>2, <3>1, NotLeft DEF mainVars
    <3>3. QED BY <3>2 DEF LeftInOrder
  <2>10. QED BY <2>6, <2>7, <2>8, <2>9 DEF AnswerInv
<1>7. ASSUME CoreReady
      PROVE  AnswerInv'
  <2>1. /\ NothingNew /\ thread.alive
        /\ UNCHANGED <<mainVars, execVars, deliveries, leases, lost>>
    BY <1>1, <1>7, NothingNewTaken DEF CoreReady, ThreadStep, InThread
  <2>2. /\ [thread EXCEPT !.core = "up", !.connected = TRUE] \in Thread
        /\ [thread EXCEPT !.core = "up", !.connected = TRUE].core # "exited"
    BY <1>1, Threads DEF TypeOK, Thread
  <2>3. <<Signal("CONNECTION_READY")>> \in Seq(ToMain)
    BY ToMainMessages
  <2>4. \A i \in 1..Len(<<Signal("CONNECTION_READY")>>) :
          <<Signal("CONNECTION_READY")>>[i].type \notin {"EXECUTION_REQUEST", "CLOSED"}
    BY ToMainMessages
  <2>5. QED BY <1>7, <2>1, <2>2, <2>3, <2>4, Literals, ThreadReports DEF CoreReady
<1>8. ASSUME CoreExits
      PROVE  AnswerInv'
  BY <1>1, <1>8, NothingNewTaken, ThreadSilent DEF CoreExits, ThreadStep, InThread
<1>9. ASSUME ThreadExits
      PROVE  AnswerInv'
  <2>1. /\ thread.alive /\ thread.core = "exited"
        /\ UNCHANGED <<mainVars, execVars, deliveries, lost>>
    BY <1>9 DEF ThreadExits, ThreadStep, InThread
  <2> DEFINE last == <<StateChange("CLOSED"), Signal("CLOSED"), Signal("exit")>>
  <2>2. /\ StateChange("CLOSED") \in ToMain /\ StateChange("CLOSED").type = "STATE_CHANGE"
        /\ Signal("CLOSED") \in ToMain /\ Signal("CLOSED").type = "CLOSED"
        /\ Signal("exit") \in ToMain /\ Signal("exit").type = "exit"
    BY ToMainMessages, Literals
  <2>3. last \in Seq(ToMain) /\ \A i \in 1..Len(last) : last[i].type # "EXECUTION_REQUEST"
    BY <2>2
  <2>4. Dies(last)
    BY <1>9 DEF ThreadExits
  <2> HIDE DEF last
  <2>5. QED BY <2>1, <2>3, <2>4, ThreadDies
<1>10. QED BY <1>2, <1>3, <1>4, <1>5, <1>6, <1>7, <1>8, <1>9 DEF InTheThread

LEMMA FaultAnswers ==
  ASSUME ThreadInv, AnswerInv, CoreDrops \/ CoreFails \/ LeaseLost \/ Crash
  PROVE  AnswerInv'
<1>1. TypeOK
  BY DEF ThreadInv
<1>2. ASSUME CoreDrops
      PROVE  AnswerInv'
  <2>1. /\ NothingNew /\ thread.alive
        /\ UNCHANGED <<mainVars, execVars, deliveries, leases, lost>>
    BY <1>1, <1>2, NothingNewTaken DEF CoreDrops, Fault, InThread
  <2>2. /\ [thread EXCEPT !.core = "down"] \in Thread
        /\ [thread EXCEPT !.core = "down"].core # "exited"
    BY <1>1, CoreChange, Literals DEF TypeOK, Thread
  <2>3. <<>> \in Seq(ToMain) /\ \A i \in 1..Len(<<>>) : <<>>[i].type \notin {"EXECUTION_REQUEST", "CLOSED"}
    OBVIOUS
  <2>4. QED BY <1>2, <2>1, <2>2, <2>3, Literals, ThreadReports DEF CoreDrops
<1>3. ASSUME CoreFails
      PROVE  AnswerInv'
  <2>1. /\ NothingNew /\ thread.alive
        /\ UNCHANGED <<mainVars, execVars, deliveries, leases, lost>>
        /\ thread'.core # "exited"
    BY <1>1, <1>3, NothingNewTaken DEF CoreFails, Fault, InThread, TypeOK, Thread
  <2>2. CASE thread.connected
    BY <1>3, <2>1, <2>2, ThreadSilent DEF CoreFails
  <2>3. CASE ~thread.connected
    BY <1>3, <2>1, <2>3, ToMainMessages, ThreadPosts DEF CoreFails
  <2>4. QED BY <2>2, <2>3
<1>4. ASSUME LeaseLost
      PROVE  AnswerInv'
  <2>1. PICK r \in leases : leases' = leases \ {r} /\ lost' = lost \cup {r}
    BY <1>4 DEF LeaseLost
  <2>2. UNCHANGED <<mainVars, execVars, deliveries, thread, toMain, toThread>>
    BY <1>4 DEF LeaseLost, Fault, InThread
  <2>3. Quiet /\ NothingNew
    BY <1>1, <2>2, NothingNewTaken DEF Quiet, Unheard, execVars
  <2>4. Counted' /\ Orphaned'
    BY <2>2, <2>3, QuietStep DEF AnswerInv, Orphaned, mainVars, Quiet
  <2>5. Held' /\ ExitedIdle'
    BY <2>1, <2>2, <2>3, QuietStep DEF AnswerInv, Held, ExitedIdle
  <2>6. AnswersCount'
    BY <1>1, <2>3, QuietStep, AnswersStillCount DEF AnswerInv, Quiet
  <2>7. LeftInOrder'
    BY <2>1, <2>2, <2>3, QuietStep DEF AnswerInv, LeftInOrder, mainVars
  <2>8. QED BY <2>4, <2>5, <2>6, <2>7 DEF AnswerInv
<1>5. ASSUME Crash
      PROVE  AnswerInv'
  <2>1. thread.alive /\ UNCHANGED <<mainVars, execVars, deliveries, lost>>
    BY <1>5 DEF Crash, Fault, InThread
  <2> DEFINE last == <<Signal("error"), Signal("exit")>>
  <2>2. /\ Signal("error") \in ToMain /\ Signal("error").type = "error"
        /\ Signal("exit") \in ToMain /\ Signal("exit").type = "exit"
    BY ToMainMessages
  <2>3. last \in Seq(ToMain)
        /\ \A i \in 1..Len(last) : last[i].type \notin {"EXECUTION_REQUEST", "CLOSED"}
    BY <2>2
  <2>4. Dies(last)
    BY <1>5 DEF Crash
  <2> HIDE DEF last
  <2>5. QED BY <2>1, <2>3, <2>4, ThreadDies
<1>6. QED BY <1>2, <1>3, <1>4, <1>5

LEMMA HeardMore ==
  ASSUME ThreadInv, NEW type, Receive(type), \E i \in 1..Len(toMain') : toMain'[i].type = "CLOSED"
  PROVE  \E i \in 1..Len(toMain) : toMain[i].type = "CLOSED"
<1>1. PICK i \in 1..Len(toMain') : toMain'[i].type = "CLOSED"
  OBVIOUS
<1>2. toMain \in Seq(ToMain) /\ toMain # <<>> /\ toMain' = Tail(toMain)
  BY DEF Receive, ThreadInv, TypeOK
<1>3. i + 1 \in 1..Len(toMain) /\ toMain'[i] = toMain[i + 1]
  BY <1>1, <1>2
<1>4. QED BY <1>1, <1>3

LEMMA UnheardNext ==
  ASSUME TypeOK, NEW type, Receive(type), NEW r
  PROVE  Cardinality(Unheard(r))' \in Nat
<1>1. toMain' \in Seq(ToMain)
  BY ReceiveType
<1>2. IsFiniteSet(1..Len(toMain'))
  BY <1>1, FS_Interval
<1>3. IsFiniteSet(Unheard(r)')
  BY <1>2, FS_Subset DEF Unheard
<1>4. QED BY <1>3, FS_CardinalityType

LEMMA MessageAnswers ==
  ASSUME ThreadInv, AnswerInv, OnMessage
  PROVE  AnswerInv'
<1>1. TypeOK
  BY DEF ThreadInv
<1>2. ASSUME NEW type, Receive(type), UNCHANGED <<running, orphans, worker>>,
             type # "EXECUTION_REQUEST", closed' => closed \/ type = "CLOSED"
      PROVE  AnswerInv'
  <2>1. UNCHANGED <<thread, leases, toThread, deliveries, lost>>
    BY <1>2 DEF Receive, threadVars, boundVars
  <2>2. Quiet
    <3>1. ASSUME NEW r \in Requests
          PROVE  Cardinality(Unheard(r))' = Cardinality(Unheard(r))
      <4>1. Cardinality(Unheard(r)) = Cardinality(Unheard(r))' + 0
        BY <1>1, <1>2, HeardNext
      <4>2. QED BY <1>1, <1>2, <4>1, UnheardNext
    <3>2. QED BY <1>2, <2>1, <3>1 DEF Quiet
  <2>3. Counted' /\ Orphaned'
    BY <1>2, <2>2, QuietStep DEF AnswerInv, Orphaned
  <2>4. Held' /\ ExitedIdle'
    BY <2>1, <2>2, QuietStep DEF AnswerInv, Held, ExitedIdle
  <2>5. AnswersCount'
    BY <1>1, <2>1, <2>2, QuietStep, NothingNewTaken, AnswersStillCount DEF AnswerInv, Quiet
  <2>6. LeftInOrder'
    <3>1. SUFFICES ASSUME closed' \/ \E i \in 1..Len(toMain') : toMain'[i].type = "CLOSED"
                   PROVE  AllAnswered'
      BY DEF LeftInOrder
    <3>2. type = "CLOSED" => \E i \in 1..Len(toMain) : toMain[i].type = "CLOSED"
      <4>1. toMain \in Seq(ToMain) /\ toMain # <<>> /\ Head(toMain).type = type
        BY <1>1, <1>2 DEF Receive, TypeOK
      <4>2. 1 \in 1..Len(toMain) /\ toMain[1].type = type
        BY <4>1
      <4>3. QED BY <4>2
    <3>3. closed \/ \E i \in 1..Len(toMain) : toMain[i].type = "CLOSED"
      BY <1>2, <3>1, <3>2, HeardMore
    <3>4. QED BY <2>1, <2>2, <3>3, QuietStep DEF AnswerInv, LeftInOrder
  <2>7. QED BY <2>3, <2>4, <2>5, <2>6 DEF AnswerInv
<1>3. ASSUME OnExecutionRequest
      PROVE  AnswerInv'
  <2>1. /\ Receive("EXECUTION_REQUEST")
        /\ UNCHANGED <<mainVars, orphans, thread, leases, toThread, deliveries, lost>>
    BY <1>3 DEF OnExecutionRequest, Receive, threadVars, boundVars
  <2>2. PICK q \in Requests : q = Head(toMain).request
    BY <1>1, <2>1, ReceiveType, Contents
  <2>3. \A r \in Requests :
          /\ running'[r] = running[r] + (IF r = q THEN 1 ELSE 0)
          /\ Cardinality(Unheard(r)) = Cardinality(Unheard(r))' + (IF r = q THEN 1 ELSE 0)
    BY <1>1, <1>3, <2>1, <2>2, HeardNext DEF OnExecutionRequest, TypeOK
  <2>4. ASSUME NEW r \in Requests
        PROVE  Cardinality(Unheard(r))' \in Nat
    BY <1>1, <2>1, UnheardNext
  <2>5. ASSUME NEW r \in Requests
        PROVE  Open(r)' = Open(r) /\ (Unanswered(r)' <=> Unanswered(r)) /\ orphans'[r] <= running'[r]
    <3>1. orphans[r] <= running[r]
      BY DEF AnswerInv, Counted
    <3>2. Open(r)' = Open(r)
      BY <1>1, <2>3, <2>4, Numbers DEF Open
    <3>3. Busy(r)' <=> Busy(r)
      BY <1>1, <2>1, <2>3, <2>4, <3>1, Numbers DEF Busy
    <3>4. QED BY <1>1, <2>1, <2>3, <3>1, <3>2, <3>3, Numbers DEF Unanswered
  <2>6. Counted'
    BY <2>1, <2>5 DEF AnswerInv, Counted
  <2>7. Orphaned'
    BY <2>1, Received DEF Orphaned, mainVars
  <2>8. Held' /\ ExitedIdle'
    BY <2>1, <2>5 DEF AnswerInv, Held, ExitedIdle
  <2>9. AnswersCount'
    BY <1>1, <2>1, <2>5, NothingNewTaken, AnswersStillCount DEF AnswerInv
  <2>10. LeftInOrder'
    <3>1. AllAnswered => AllAnswered'
      BY <2>1, <2>5 DEF AllAnswered
    <3>2. QED BY <2>1, <3>1, HeardMore DEF AnswerInv, LeftInOrder, mainVars
  <2>11. QED BY <2>6, <2>7, <2>8, <2>9, <2>10 DEF AnswerInv
<1>4. ASSUME OnExit
      PROVE  AnswerInv'
  <2>1. /\ Receive("exit") /\ running' = running /\ orphans' = running
        /\ UNCHANGED <<thread, leases, toThread, deliveries, lost>>
    BY <1>4 DEF OnExit, Receive, threadVars, boundVars
  <2>2. toMain' = <<>> /\ ~thread'.alive
    BY <2>1, Received
  <2>3. ASSUME NEW r \in Requests
        PROVE  Open(r)' = Open(r) /\ ~Busy(r)'
    <3>1. Cardinality(Unheard(r))' = Cardinality(Unheard(r))
      <4>1. Cardinality(Unheard(r)) = Cardinality(Unheard(r))' + 0
        BY <1>1, <2>1, HeardNext
      <4>2. QED BY <1>1, <2>1, <4>1, UnheardNext
    <3>2. Unheard(r)' = {}
      BY <2>2 DEF Unheard
    <3>3. Cardinality(Unheard(r)') = 0
      BY <3>2, FS_EmptySet
    <3>4. QED BY <1>1, <2>1, <3>1, <3>3, Numbers DEF Open, Busy
  <2>4. Counted'
    BY <1>1, <2>1, <2>3, Numbers DEF AnswerInv, Counted
  <2>5. Orphaned' /\ Held' /\ ExitedIdle'
    BY <2>1, <2>2 DEF AnswerInv, Orphaned, Held, ExitedIdle
  <2>6. AnswersCount'
    BY <1>1, <2>1, <2>3, NothingNewTaken, AnswersStillCount DEF AnswerInv
  <2>7. LeftInOrder'
    BY <2>3 DEF LeftInOrder, AllAnswered, Unanswered
  <2>8. QED BY <2>4, <2>5, <2>6, <2>7 DEF AnswerInv
<1>5. ASSUME OnStateChange
      PROVE  AnswerInv'
  BY <1>2, <1>5 DEF OnStateChange, execVars
<1>6. ASSUME OnReady
      PROVE  AnswerInv'
  BY <1>2, <1>6 DEF OnReady, execVars
<1>7. ASSUME OnFatal
      PROVE  AnswerInv'
  BY <1>2, <1>7 DEF OnFatal, execVars
<1>8. ASSUME OnClosed
      PROVE  AnswerInv'
  BY <1>2, <1>8 DEF OnClosed, execVars
<1>9. ASSUME OnError
      PROVE  AnswerInv'
  BY <1>2, <1>9 DEF OnError, execVars
<1>10. QED BY <1>3, <1>4, <1>5, <1>6, <1>7, <1>8, <1>9 DEF OnMessage

LEMMA MainAnswers ==
  ASSUME ThreadInv, AnswerInv, Connect \/ Close \/ HandlerEnds \/ BackoffEnds
  PROVE  AnswerInv'
<1>1. TypeOK
  BY DEF ThreadInv
<1>2. ASSUME UNCHANGED <<running, orphans, deliveries, toMain>>
      PROVE  Quiet
  BY <1>2 DEF Quiet, Unheard
<1>3. ASSUME CreateWorker, worker # "live", UNCHANGED <<closed, execVars, toMain, boundVars>>
      PROVE  AnswerInv'
  <2>1. Quiet
    BY <1>2, <1>3 DEF execVars, boundVars
  <2>2. Counted' /\ Orphaned'
    BY <1>3, <2>1, QuietStep DEF AnswerInv, Orphaned, CreateWorker
  <2>3. \A r \in Requests : ~Unanswered(r)
    <3>1. toMain = <<>> /\ running = orphans
      BY <1>3 DEF ThreadInv, Death, AnswerInv, Orphaned
    <3>2. \A r : Unheard(r) = {}
      BY <3>1 DEF Unheard
    <3>3. Cardinality({}) = 0
      BY FS_EmptySet
    <3>4. \A r \in Requests : running[r] \in Nat
      BY <1>1, Numbers
    <3>5. QED BY <3>1, <3>2, <3>3, <3>4 DEF Unanswered, Busy
  <2>4. Held' /\ ExitedIdle'
    BY <1>3, <2>1, <2>3, QuietStep DEF Held, ExitedIdle, CreateWorker
  <2>5. AnswersCount'
    BY <1>3, AnswersAre DEF CreateWorker, Signal
  <2>6. LeftInOrder'
    BY <1>3, <2>1, QuietStep DEF AnswerInv, LeftInOrder, boundVars
  <2>7. QED BY <2>2, <2>4, <2>5, <2>6 DEF AnswerInv
<1>4. ASSUME UNCHANGED <<worker, execVars, threadVars, toMain, deliveries, lost>>, AnswersCount',
             closed' = closed
      PROVE  AnswerInv'
  <2>1. Quiet
    BY <1>2, <1>4 DEF execVars
  <2>2. Counted' /\ Orphaned'
    BY <1>4, <2>1, QuietStep DEF AnswerInv, Orphaned, Quiet
  <2>3. Held' /\ ExitedIdle'
    BY <1>4, <2>1, QuietStep DEF AnswerInv, Held, ExitedIdle, threadVars
  <2>4. LeftInOrder'
    BY <1>4, <2>1, QuietStep DEF AnswerInv, LeftInOrder
  <2>5. QED BY <1>4, <2>2, <2>3, <2>4 DEF AnswerInv
<1>5. ASSUME Connect
      PROVE  AnswerInv'
  <2>1. worker # "live"
    BY <1>5 DEF Connect, ThreadInv, Started
  <2>2. QED BY <1>3, <1>5, <2>1 DEF Connect
<1>6. ASSUME NEW msg \in ToThread, SendToWorker(msg),
             msg.type = "EXECUTION_ANSWER" => Open(msg.request)' < deliveries'[msg.request],
             \A r \in Requests : Open(r) < deliveries[r] => Open(r)' < deliveries'[r]
      PROVE  AnswersCount'
  <2>1. CASE toThread' = toThread
    BY <1>1, <1>6, <2>1, NothingNewTaken, AnswersStillCount DEF AnswerInv
  <2>2. CASE toThread' = Append(toThread, msg)
    <3>1. SUFFICES ASSUME NEW i \in 1..Len(toThread'), toThread'[i].type = "EXECUTION_ANSWER"
                   PROVE  \E r \in Requests : toThread'[i].request = r /\ Open(r)' < deliveries'[r]
      BY AnswersAre
    <3>2. toThread \in Seq(ToThread) /\ Len(toThread) \in Nat
      BY <1>1 DEF TypeOK
    <3>3. /\ i \in 1..Len(toThread) => toThread'[i] = toThread[i]
          /\ i \notin 1..Len(toThread) => toThread'[i] = msg
      BY <2>2, <3>2
    <3>4. CASE i \in 1..Len(toThread)
      <4>1. PICK r \in Requests : r = toThread[i].request
        BY <3>1, <3>2, <3>3, <3>4, Contents
      <4>2. Open(r) < deliveries[r]
        BY <3>1, <3>3, <3>4, <4>1 DEF AnswerInv, AnswersCount
      <4>3. QED BY <1>6, <3>3, <3>4, <4>1, <4>2
    <3>5. CASE i \notin 1..Len(toThread)
      BY <1>6, <3>1, <3>3, <3>5, Contents
    <3>6. QED BY <3>4, <3>5
  <2>3. QED BY <1>6, <2>1, <2>2 DEF SendToWorker
<1>7. ASSUME Close
      PROVE  AnswerInv'
  <2>1. UNCHANGED <<worker, execVars, threadVars, toMain, deliveries, lost>>
    BY <1>7 DEF Close
  <2>2. closed' = closed
    BY <1>7 DEF Close, ThreadInv, Started, TypeOK
  <2>3. Quiet
    BY <1>2, <2>1 DEF execVars
  <2>4. AnswersCount'
    <3>1. CASE worker = "none"
      BY <1>1, <1>7, <2>3, <3>1, NothingNewTaken, QuietStep, AnswersStillCount
      DEF Close, Quiet, AnswerInv
    <3>2. CASE worker # "none"
      <4>1. SendToWorker(Signal("CLOSE"))
        BY <1>7, <3>2 DEF Close
      <4>2. Signal("CLOSE") \in ToThread /\ Signal("CLOSE").type # "EXECUTION_ANSWER"
        BY ToThreadMessages DEF Signal
      <4>3. \A r \in Requests : Open(r) < deliveries[r] => Open(r)' < deliveries'[r]
        BY <2>3, QuietStep DEF Quiet
      <4> HIDE DEF Signal
      <4>4. QED BY <1>6, <4>1, <4>2, <4>3
    <3>3. QED BY <3>1, <3>2
  <2>5. QED BY <1>4, <2>1, <2>2, <2>4
<1>8. ASSUME HandlerEnds
      PROVE  AnswerInv'
  <2>1. PICK q \in Requests :
          /\ running[q] > 0
          /\ running' = [running EXCEPT ![q] = @ - 1]
          /\ \/ orphans[q] < running[q] /\ UNCHANGED orphans
             \/ orphans[q] > 0 /\ orphans' = [orphans EXCEPT ![q] = @ - 1]
          /\ SendToWorker([type |-> "EXECUTION_ANSWER", request |-> q])
          /\ UNCHANGED <<mainVars, threadVars, toMain, boundVars>>
    BY <1>8 DEF HandlerEnds
  <2>2. /\ \A r : Unheard(r)' = Unheard(r)
        /\ UNCHANGED <<worker, closed, thread, leases, toMain, deliveries, lost>>
    BY <2>1 DEF Unheard, mainVars, threadVars, boundVars
  <2>3. ASSUME NEW r \in Requests
        PROVE  /\ running'[r] = running[r] - (IF r = q THEN 1 ELSE 0)
               /\ Open(r)' = Open(r) - (IF r = q THEN 1 ELSE 0)
               /\ orphans'[r] <= running'[r]
               /\ Open(r) <= deliveries[r]
               /\ Open(r) \in Nat
    <3>1. running'[r] = running[r] - (IF r = q THEN 1 ELSE 0)
      BY <1>1, <2>1 DEF TypeOK
    <3>2. orphans[r] <= running[r] /\ Open(r) <= deliveries[r]
      BY DEF AnswerInv, Counted
    <3>3. orphans'[r] <= running'[r]
      <4>1. CASE r = q
        <5>1. \/ orphans'[q] = orphans[q] /\ orphans[q] < running[q]
              \/ orphans'[q] = orphans[q] - 1
          BY <1>1, <2>1 DEF TypeOK
        <5>2. QED BY <1>1, <3>1, <3>2, <4>1, <5>1, Numbers
      <4>2. CASE r # q
        <5>1. orphans'[r] = orphans[r]
          BY <1>1, <2>1, <4>2 DEF TypeOK
        <5>2. QED BY <1>1, <3>1, <3>2, <4>2, <5>1, Numbers
      <4>3. QED BY <4>1, <4>2
    <3>4. QED BY <1>1, <2>2, <3>1, <3>2, <3>3, Numbers DEF Open
  <2>4. ASSUME NEW r \in Requests, Unanswered(r)'
        PROVE  Unanswered(r)
    <3>1. r # q
      BY <1>1, <2>2, <2>3, <2>4, Numbers DEF Unanswered
    <3>2. running'[r] = running[r] /\ orphans'[r] = orphans[r] /\ Open(r)' = Open(r)
      BY <1>1, <2>1, <2>3, <3>1, Numbers DEF TypeOK
    <3>3. QED BY <2>2, <2>4, <3>2 DEF Unanswered, Busy
  <2>5. Counted'
    BY <1>1, <2>2, <2>3, Numbers DEF Counted
  <2>6. Orphaned'
    BY <1>1, <2>1, <2>2 DEF AnswerInv, Orphaned, TypeOK
  <2>7. AnswersCount'
    <3> DEFINE m == [type |-> "EXECUTION_ANSWER", request |-> q]
    <3>1. m \in ToThread /\ m.type = "EXECUTION_ANSWER" /\ m.request = q
      BY ToThreadMessages
    <3>2. Open(q)' < deliveries'[q]
      BY <1>1, <2>2, <2>3, Numbers
    <3>3. \A r \in Requests : Open(r) < deliveries[r] => Open(r)' < deliveries'[r]
      BY <1>1, <2>2, <2>3, Numbers
    <3>4. SendToWorker(m)
      BY <2>1
    <3>5. Open(m.request)' = Open(q)' 
      BY <3>1
    <3> HIDE DEF m
    <3>6. QED BY <1>6, <3>1, <3>2, <3>3, <3>4, <3>5
  <2>8. Held' /\ ExitedIdle' /\ LeftInOrder'
    BY <2>2, <2>4 DEF AnswerInv, Held, ExitedIdle, LeftInOrder, AllAnswered
  <2>9. QED BY <2>5, <2>6, <2>7, <2>8 DEF AnswerInv
<1>9. ASSUME BackoffEnds
      PROVE  AnswerInv'
  <2>1. CASE state \in Over
    <3>1. UNCHANGED <<worker, threadVars, toThread, closed, execVars, toMain, boundVars>>
      BY <1>9, <2>1 DEF BackoffEnds
    <3>2. Quiet
      BY <1>2, <3>1 DEF execVars, boundVars
    <3>3. AnswersCount'
      BY <1>1, <3>1, <3>2, NothingNewTaken, QuietStep, AnswersStillCount DEF Quiet, AnswerInv
    <3>4. QED BY <1>4, <3>1, <3>3 DEF boundVars
  <2>2. CASE state \notin Over
    <3>1. worker # "live"
      BY <1>9 DEF BackoffEnds, ThreadInv, OneRespawn
    <3>2. QED BY <1>3, <1>9, <2>2, <3>1 DEF BackoffEnds
  <2>3. QED BY <2>1, <2>2
<1>10. QED BY <1>5, <1>7, <1>8, <1>9

LEMMA AnswersStep ==
  ASSUME ThreadInv, AnswerInv, [Next]_vars
  PROVE  AnswerInv'
<1>1. CASE UNCHANGED vars
  <2>1. UNCHANGED <<worker, closed, running, orphans, deliveries, lost, toMain, toThread, thread, leases>>
    BY <1>1 DEF vars, mainVars, execVars, threadVars, boundVars
  <2>2. Quiet
    BY <2>1 DEF Quiet, Unheard
  <2>3. AnswersCount'
    BY <2>1, <2>2, QuietStep, NothingNewTaken, AnswersStillCount DEF Quiet, AnswerInv, ThreadInv
  <2>4. QED BY <2>1, <2>2, <2>3, QuietStep
            DEF AnswerInv, Orphaned, Held, ExitedIdle, LeftInOrder
<1>2. QED BY <1>1, MainAnswers, MessageAnswers, ThreadAnswers, FaultAnswers DEF Next

LEMMA AnswersInit == Init => AnswerInv
<1> SUFFICES ASSUME Init PROVE AnswerInv
  OBVIOUS
<1>1. \A r : Unheard(r) = {}
  BY DEF Init, Unheard
<1>2. \A r \in Requests : running[r] = 0 /\ orphans[r] = 0 /\ deliveries[r] = 0
  BY DEF Init, None
<1>3. \A r \in Requests : Open(r) = 0 /\ ~Busy(r)
  BY <1>1, <1>2, FS_EmptySet DEF Open, Busy
<1>4. Counted
  BY <1>2, <1>3 DEF Counted
<1>5. QED BY <1>3, <1>4
          DEF Init, AnswerInv, Orphaned, AnswersCount, Held, ExitedIdle, LeftInOrder,
              AllAnswered, Unanswered, NoThread, NewThread

\* When close() has returned, user code still works only on requests of a thread that
\* crashed, on requests that have been answered, and on those the gateway took back.
THEOREM ThreadLeavesNothing == Spec => []ClosedAfterAnswers
<1>1. ThreadInv /\ AnswerInv => ClosedAfterAnswers
  <2> SUFFICES ASSUME ThreadInv, AnswerInv, closed, NEW r \in Requests \ lost,
                      running[r] > orphans[r]
               PROVE  deliveries[r] > running[r]
    BY DEF ClosedAfterAnswers
  <2>1. ~Unanswered(r)
    BY DEF AnswerInv, LeftInOrder, AllAnswered
  <2>2. Unheard(r) = {}
    BY DEF ThreadInv, Closed, Unheard
  <2>3. Open(r) = running[r]
    BY <2>2, Numbers, FS_EmptySet DEF Open, ThreadInv
  <2>4. QED BY <2>1, <2>3, Numbers DEF Unanswered, Busy, ThreadInv
<1>2. Init => ThreadInv /\ AnswerInv
  BY InvInit, AnswersInit
<1>3. ThreadInv /\ AnswerInv /\ [Next]_vars => (ThreadInv /\ AnswerInv)'
  BY InvStep, AnswersStep
<1>4. QED BY <1>1, <1>2, <1>3, PTL DEF Spec
=============================================================================
