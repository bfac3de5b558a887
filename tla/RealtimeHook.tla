---------------------------- MODULE RealtimeHook ----------------------------
(***************************************************************************)
(* useRealtime, the React hook of packages/inngest/src/react.ts.           *)
(*                                                                         *)
(* Every time one of its dependencies changes, the effect of the hook      *)
(* cancels the run it has started, tears the connection down and, unless   *)
(* the hook is paused, starts another run: a loop that fetches a token,    *)
(* subscribes, reads and reconnects.  A run that is cancelled while it     *)
(* awaits goes on until it looks at `cancelled`, so that several are under *)
(* way at once; what they share is subscriptionRef and readerRef, and the  *)
(* messages.  A subscription is what module Subscription promises: it is   *)
(* opened or refused, delivers messages in order and ends.                 *)
(***************************************************************************)
EXTENDS Naturals, Sequences, FiniteSets, SequencesExt

CONSTANTS
  Reconnect,     \* the option of this name
  HistoryLimit,  \* the option of this name
  Channels,      \* channels the component renders with
  MaxRuns,       \* bound: runs the effect starts
  MaxSubs,       \* bound: subscriptions opened
  MaxMessages,   \* bound: messages
  Faults,        \* SUBSET FaultKinds
  MaxFaults      \* bound: faults in a behaviour

FaultKinds == {"token", "refused", "ended"}

ASSUME HookFaults == Faults \subseteq FaultKinds
ASSUME HookBounds == /\ MaxRuns \in Nat /\ MaxSubs \in Nat /\ MaxMessages \in Nat
                     /\ MaxFaults \in Nat /\ HistoryLimit \in Nat /\ Reconnect \in BOOLEAN

VARIABLES
  mounted, channel, shouldRun, \* the component: is rendered, its channel, enabled and visible
  buffered,         \* bufferInterval > 0
  runs,             \* [1..MaxRuns -> Run]
  current,          \* the run the effect has started and not cleaned up, or 0
  subs,             \* [1..MaxSubs -> "none", "open", "cancelled" by its reader, "ended"]
  subscriptionRef,  \* a subscription, or 0
  readerRef,        \* the subscription whose reader it is, or 0
  closing,          \* subscriptions that the effect's own clean-up is to unsubscribe
  status,           \* connectionStatus
  runStatus,        \* runStatusRef
  messageBuffer,    \* messageBufferRef
  allMessages,      \* messages.all
  applied,          \* history: messages applied since the last reset
  messages, faults

viewVars == <<messageBuffer, allMessages, applied>>
refVars == <<subscriptionRef, readerRef, closing>>
propVars == <<mounted, channel, shouldRun, buffered>>
vars == <<propVars, runs, current, subs, refVars, status, runStatus, viewVars, messages, faults>>

Run == [at : {"none", "token", "subscribe", "read", "cleanup", "sleep", "done"},
        channel : Channels, cancelled : BOOLEAN,
        sub : 0..MaxSubs,     \* `stream`
        target : 0..MaxSubs,  \* `sub` of cleanupConnection
        stop : BOOLEAN]       \* the loop is left after the clean-up

Messages == [channel : Channels, n : 1..MaxMessages]

\* Nothing leaves its range, and only the run that is current is not cancelled.
TypeOK ==
  /\ mounted \in BOOLEAN /\ shouldRun \in BOOLEAN /\ buffered \in BOOLEAN
  /\ channel \in Channels
  /\ runs \in [1..MaxRuns -> Run]
  /\ current \in 0..MaxRuns
  /\ \A g \in 1..MaxRuns : runs[g].at # "none" /\ g # current => runs[g].cancelled
  /\ subs \in [1..MaxSubs -> {"none", "open", "cancelled", "ended"}]
  /\ subscriptionRef \in 0..MaxSubs /\ readerRef \in 0..MaxSubs
  /\ closing \subseteq 1..MaxSubs
  /\ status \in {"idle", "connecting", "open", "paused", "closed", "error"}
  /\ runStatus \in {"unknown", "running", "terminal"}
  /\ messageBuffer \in Seq(Messages) /\ allMessages \in Seq(Messages)
  /\ applied \in Seq(Messages)
  /\ messages \in 0..MaxMessages /\ faults \in 0..MaxFaults

NoRun(c) == [at |-> "none", channel |-> c, cancelled |-> FALSE, sub |-> 0, target |-> 0, stop |-> FALSE]

Init ==
  /\ mounted = FALSE /\ shouldRun \in BOOLEAN /\ buffered \in BOOLEAN
  /\ channel \in Channels
  /\ runs = [g \in 1..MaxRuns |-> NoRun(channel)] /\ current = 0
  /\ subs = [s \in 1..MaxSubs |-> "none"]
  /\ subscriptionRef = 0 /\ readerRef = 0 /\ closing = {}
  /\ status = "idle" /\ runStatus = "unknown"
  /\ messageBuffer = <<>> /\ allMessages = <<>> /\ applied = <<>>
  /\ messages = 0 /\ faults = 0

-----------------------------------------------------------------------------
(* The messages.                                                           *)

\* clampMessages.
Clamp(s) == IF Len(s) > HistoryLimit THEN SubSeq(s, Len(s) - HistoryLimit + 1, Len(s)) ELSE s

\* flushBufferedMessages.
Flush ==
  /\ messageBuffer' = <<>>
  /\ allMessages' = IF messageBuffer = <<>> THEN allMessages ELSE Clamp(allMessages \o messageBuffer)
  /\ UNCHANGED applied

\* What reset() and a new channel forget.
Forget ==
  /\ messageBuffer' = <<>> /\ allMessages' = <<>> /\ applied' = <<>>
  /\ runStatus' = "unknown"

\* applyMessage, for a message that is not about the run.
Apply(m) ==
  /\ applied' = Append(applied, m)
  /\ IF buffered
       THEN messageBuffer' = Append(messageBuffer, m) /\ UNCHANGED allMessages
       ELSE allMessages' = Clamp(Append(allMessages, m)) /\ UNCHANGED messageBuffer
  /\ runStatus' = IF runStatus = "unknown" THEN "running" ELSE runStatus

-----------------------------------------------------------------------------
(* The effect.                                                             *)

\* reader.cancel(): who reads the stream is told that it is done.
CancelReader(S, reader) ==
  [s \in 1..MaxSubs |-> IF s = reader /\ S[s] = "open" THEN "cancelled" ELSE S[s]]

\* The clean-up of the effect, up to the first await of cleanupConnection.
CleanUp ==
  /\ subs' = CancelReader(subs, readerRef)
  /\ closing' = closing \cup ({subscriptionRef} \ {0})
  /\ subscriptionRef' = 0 /\ readerRef' = 0

Cancelled == [g \in 1..MaxRuns |-> IF g = current THEN [runs[g] EXCEPT !.cancelled = TRUE] ELSE runs[g]]

\* Mutant: a new channel is seen before the buffer of the old one is flushed.
EffectFlushesLate(should, c) ==
  /\ IF current > 0
       THEN CleanUp
       ELSE UNCHANGED <<subs, refVars>>
  /\ IF current > 0 THEN Flush ELSE UNCHANGED viewVars
  /\ runStatus' = IF c # channel THEN "unknown" ELSE runStatus
  /\ IF should
       THEN \E g \in 1..MaxRuns :
              /\ runs[g].at = "none" /\ \A h \in 1..(g - 1) : runs[h].at # "none"
              /\ runs' = [Cancelled EXCEPT ![g] = [NoRun(c) EXCEPT !.at = "token"]]
              /\ current' = g /\ status' = "connecting"
       ELSE runs' = Cancelled /\ current' = 0 /\ status' = "paused"
  /\ shouldRun' = should /\ channel' = c
  /\ UNCHANGED <<buffered, messages, faults>>

\* The effect runs: the clean-up of the one before it, then its body.
Effect(should, c) ==
  /\ IF current > 0
       THEN CleanUp
       ELSE UNCHANGED <<subs, refVars>>
  /\ IF c # channel THEN Forget
     ELSE /\ UNCHANGED runStatus
          /\ IF current > 0 THEN Flush ELSE UNCHANGED viewVars
  /\ IF should
       THEN \E g \in 1..MaxRuns :
              /\ runs[g].at = "none" /\ \A h \in 1..(g - 1) : runs[h].at # "none"
              /\ runs' = [Cancelled EXCEPT ![g] = [NoRun(c) EXCEPT !.at = "token"]]
              /\ current' = g /\ status' = "connecting"
       ELSE runs' = Cancelled /\ current' = 0 /\ status' = "paused"
  /\ shouldRun' = should /\ channel' = c
  /\ UNCHANGED <<buffered, messages, faults>>

Mount == ~mounted /\ status = "idle" /\ mounted' = TRUE /\ Effect(shouldRun, channel)

\* `enabled` or the visibility of the page changes, or another dependency of the effect.
Rerender(should, c) ==
  /\ mounted
  /\ shouldRun \/ should \/ c # channel
  /\ Effect(should, c)
  /\ UNCHANGED mounted

Unmount ==
  /\ mounted
  /\ mounted' = FALSE
  /\ IF current > 0
       THEN CleanUp /\ Flush
       ELSE UNCHANGED <<subs, refVars, viewVars>>
  /\ runs' = Cancelled /\ current' = 0
  /\ status' = IF status = "open" THEN "closed" ELSE status
  /\ UNCHANGED <<channel, shouldRun, buffered, runStatus, messages, faults>>

\* cleanupConnection goes on: the subscription it has taken is unsubscribed.
Unsubscribes(s) ==
  /\ s \in closing
  /\ closing' = closing \ {s}
  /\ subs' = [subs EXCEPT ![s] = "ended"]
  /\ UNCHANGED <<propVars, runs, current, subscriptionRef, readerRef, status, runStatus,
                 viewVars, messages, faults>>

\* bufferInterval changes.
ChangeInterval ==
  /\ mounted
  /\ buffered' = ~buffered
  /\ IF buffered THEN Flush ELSE UNCHANGED viewVars
  /\ UNCHANGED <<mounted, channel, shouldRun, runs, current, subs, refVars, status, runStatus,
                 messages, faults>>

\* The interval of the buffer.
Tick ==
  /\ mounted /\ buffered /\ messageBuffer # <<>>
  /\ Flush
  /\ UNCHANGED <<propVars, runs, current, subs, refVars, status, runStatus, messages, faults>>

Reset ==
  /\ mounted
  /\ Forget
  /\ UNCHANGED <<propVars, runs, current, subs, refVars, status, messages, faults>>

-----------------------------------------------------------------------------
(* A run.                                                                  *)

\* Mutant: the refs are cleared before the clean-up reads them.
LeaveForgetting(g, stop, S, reader) ==
  /\ runs' = [runs EXCEPT ![g].at = "cleanup", ![g].stop = stop]
  /\ subs' = CancelReader(S, reader)
  /\ subscriptionRef' = 0 /\ readerRef' = 0

\* The `finally` of the loop: cleanupConnection up to its first await, which takes whatever
\* the refs hold.
Leave(g, stop, S, reader) ==
  /\ runs' = [runs EXCEPT ![g].at = "cleanup", ![g].target = subscriptionRef, ![g].stop = stop]
  /\ subs' = CancelReader(S, reader)
  /\ subscriptionRef' = 0 /\ readerRef' = 0

\* An attempt fails: the catch clause.
Fails(g) ==
  /\ status' = IF runs[g].cancelled THEN status ELSE "error"
  /\ Leave(g, runs[g].cancelled \/ ~Reconnect, subs, readerRef)
  /\ Flush
  /\ UNCHANGED <<propVars, current, closing, runStatus, messages>>

Fault(kind) == kind \in Faults /\ faults < MaxFaults /\ faults' = faults + 1

TokenFails(g) == runs[g].at = "token" /\ Fault("token") /\ Fails(g)
SubscribeFails(g) == runs[g].at = "subscribe" /\ Fault("refused") /\ Fails(g)

TokenResolves(g) ==
  /\ runs[g].at = "token"
  /\ IF runs[g].cancelled
       THEN Leave(g, TRUE, subs, readerRef) /\ Flush
       ELSE /\ runs' = [runs EXCEPT ![g].at = "subscribe"]
            /\ UNCHANGED <<subs, subscriptionRef, readerRef, viewVars>>
  /\ UNCHANGED <<propVars, current, closing, status, runStatus, messages, faults>>

\* Mutant: a run that was cancelled meanwhile leaves the new connection open.
SubscribesLate(g) ==
  /\ runs[g].at = "subscribe"
  /\ \E s \in 1..MaxSubs :
       /\ subs[s] = "none" /\ \A t \in 1..(s - 1) : subs[t] # "none"
       /\ IF runs[g].cancelled
            THEN /\ Leave(g, TRUE, [subs EXCEPT ![s] = "open"], readerRef) /\ Flush
                 /\ UNCHANGED <<status, runStatus>>
            ELSE /\ runs' = [runs EXCEPT ![g].at = "read", ![g].sub = s]
                 /\ subs' = [subs EXCEPT ![s] = "open"]
                 /\ subscriptionRef' = s /\ readerRef' = s
                 /\ status' = "open"
                 /\ runStatus' = IF runStatus = "unknown" THEN "running" ELSE runStatus
                 /\ UNCHANGED viewVars
  /\ UNCHANGED <<propVars, current, closing, messages, faults>>

\* subscribe() returns a stream; a run that has been cancelled closes it again.
Subscribes(g) ==
  /\ runs[g].at = "subscribe"
  /\ \E s \in 1..MaxSubs :
       /\ subs[s] = "none" /\ \A t \in 1..(s - 1) : subs[t] # "none"
       /\ IF runs[g].cancelled
            THEN /\ Leave(g, TRUE, [subs EXCEPT ![s] = "ended"], readerRef) /\ Flush
                 /\ UNCHANGED <<status, runStatus>>
            ELSE /\ runs' = [runs EXCEPT ![g].at = "read", ![g].sub = s]
                 /\ subs' = [subs EXCEPT ![s] = "open"]
                 /\ subscriptionRef' = s /\ readerRef' = s
                 /\ status' = "open"
                 /\ runStatus' = IF runStatus = "unknown" THEN "running" ELSE runStatus
                 /\ UNCHANGED viewVars
  /\ UNCHANGED <<propVars, current, closing, messages, faults>>

\* The reader has given up its lock: the ref keeps another run's reader only.
ReaderAfter(g) == IF readerRef = runs[g].sub THEN 0 ELSE readerRef

\* Mutant: the loop is left when the stream ends.
ReadsEndAndStops(g) ==
  /\ runs[g].at = "read" /\ subs[runs[g].sub] # "open"
  /\ status' = IF runs[g].cancelled THEN status ELSE "closed"
  /\ Leave(g, TRUE, subs, ReaderAfter(g))
  /\ Flush
  /\ UNCHANGED <<propVars, current, closing, runStatus, messages, faults>>

\* `done`.
ReadsEnd(g) ==
  /\ runs[g].at = "read" /\ subs[runs[g].sub] # "open"
  /\ status' = IF runs[g].cancelled THEN status ELSE "closed"
  /\ Leave(g, runs[g].cancelled \/ runStatus = "terminal" \/ ~Reconnect, subs, ReaderAfter(g))
  /\ Flush
  /\ UNCHANGED <<propVars, current, closing, runStatus, messages, faults>>

\* A message is read.
Receives(g) ==
  /\ runs[g].at = "read" /\ subs[runs[g].sub] = "open" /\ ~runs[g].cancelled
  /\ messages < MaxMessages /\ messages' = messages + 1

\* It is applied, or says that the function runs; the loop goes on.
Reads(g) ==
  /\ Receives(g)
  /\ \/ runStatus # "terminal" /\ Apply([channel |-> runs[g].channel, n |-> messages'])
     \/ runStatus' = "running" /\ UNCHANGED viewVars
  /\ UNCHANGED <<propVars, runs, current, subs, refVars, status, faults>>

\* It says that the function has come to its end, or is applied when an earlier one has
\* said so: unsubscribe and leave.
ReadsLast(g) ==
  /\ Receives(g)
  /\ \/ Flush
     \/ /\ runStatus = "terminal"
        /\ LET m == [channel |-> runs[g].channel, n |-> messages']
           IN /\ applied' = Append(applied, m) /\ messageBuffer' = <<>>
              /\ allMessages' = Clamp(allMessages \o Append(messageBuffer, m))
  /\ runStatus' = "terminal" /\ status' = "closed"
  /\ Leave(g, TRUE, [subs EXCEPT ![runs[g].sub] = "ended"], ReaderAfter(g))
  /\ UNCHANGED <<propVars, current, closing, faults>>

\* The clean-up of the run ends.
CleansUp(g) ==
  /\ runs[g].at = "cleanup"
  /\ subs' = [s \in 1..MaxSubs |-> IF s = runs[g].target THEN "ended" ELSE subs[s]]
  /\ runs' = [runs EXCEPT ![g].at = IF runs[g].stop \/ runs[g].cancelled \/ ~Reconnect THEN "done" ELSE "sleep",
                          ![g].target = 0, ![g].sub = 0]
  /\ UNCHANGED <<propVars, current, refVars, status, runStatus, viewVars, messages, faults>>

\* The delay before the next attempt ends.
Wakes(g) ==
  /\ runs[g].at = "sleep"
  /\ IF runs[g].cancelled
       THEN runs' = [runs EXCEPT ![g].at = "done"] /\ UNCHANGED status
       ELSE runs' = [runs EXCEPT ![g].at = "token"] /\ status' = "connecting"
  /\ UNCHANGED <<propVars, current, subs, refVars, runStatus, viewVars, messages, faults>>

\* The gateway ends a subscription.
SubscriptionEnds(s) ==
  /\ subs[s] = "open" /\ Fault("ended")
  /\ subs' = [subs EXCEPT ![s] = "ended"]
  /\ UNCHANGED <<propVars, runs, current, refVars, status, runStatus, viewVars, messages>>

\* What a run does by itself.
Proceeds(g) == TokenResolves(g) \/ Subscribes(g) \/ ReadsEnd(g) \/ CleansUp(g) \/ Wakes(g)

Next ==
  \/ Mount \/ Unmount \/ ChangeInterval \/ Tick \/ Reset
  \/ \E should \in BOOLEAN, c \in Channels : Rerender(should, c)
  \/ \E s \in 1..MaxSubs : Unsubscribes(s) \/ SubscriptionEnds(s)
  \/ \E g \in 1..MaxRuns : \/ Proceeds(g) \/ TokenFails(g) \/ SubscribeFails(g)
                           \/ Reads(g) \/ ReadsLast(g)

Spec == Init /\ [][Next]_vars

\* Promises settle and timers fire.
FairSpec ==
  /\ Spec
  /\ \A g \in 1..MaxRuns : WF_vars(Proceeds(g))
  /\ \A s \in 1..MaxSubs : WF_vars(Unsubscribes(s))

-----------------------------------------------------------------------------
(* What must hold.                                                         *)

\* messages.all is the tail of what was applied, in that order and without a gap, whatever
\* of it went through the buffer and whenever the buffer is flushed, emptied or switched off.
MessagesKept ==
  LET flushed == Len(applied) - Len(messageBuffer)
  IN  /\ flushed >= 0
      /\ allMessages = Clamp(SubSeq(applied, 1, flushed))
      /\ messageBuffer = SubSeq(applied, flushed + 1, Len(applied))

\* Nothing of another channel is shown: what a run of an earlier render has read or buffered is
\* neither applied nor flushed after the channel has changed.
OnlyThisChannel ==
  \A m \in ToSet(allMessages \o messageBuffer) : m.channel = channel

\* connectionStatus is told by the run that is current: no run that was cancelled overwrites it.
StatusTold ==
  /\ mounted => (status = "paused" <=> ~shouldRun)
  /\ status = "open" => current > 0 /\ runs[current].at = "read"

\* Every connection that is open belongs to someone who will close it: subscriptionRef, or a
\* clean-up that has taken it from there.
Owned ==
  \A s \in 1..MaxSubs : subs[s] \in {"open", "cancelled"} =>
    s = subscriptionRef \/ s \in closing \/ \E g \in 1..MaxRuns : runs[g].at = "cleanup" /\ runs[g].target = s

\* When the component is gone, so are its connections, the one included that a run was still
\* waiting for.
UnmountCloses ==
  ~mounted ~> \A s \in 1..MaxSubs : subs[s] \notin {"open", "cancelled"}

\* A hook that stays enabled and visible ends up connected and stays so, whatever failed or was
\* cancelled before, unless the function has come to its end.  With Reconnect only.
StaysOpen ==
  <>[](mounted /\ shouldRun) /\ [](runStatus # "terminal") => <>[](status = "open")

\* react.runtime.test.ts:347, "pauses while hidden and resumes when visible again", with the
\* options of that test: reconnect is off, and nothing fails.
ResumesWhenVisible == Faults = {} => StaysOpen

=============================================================================
