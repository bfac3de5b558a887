------------------------- MODULE RealtimeHookProofs -------------------------
(***************************************************************************)
(* What RealtimeHook promises whatever the channels, options, faults and   *)
(* bounds: its types, that what is shown belongs to the channel shown, and *)
(* that every connection has somebody who will close it.                   *)
(***************************************************************************)
EXTENDS RealtimeHook, TLAPS

ViewTypes ==
  messageBuffer \in Seq(Messages) /\ allMessages \in Seq(Messages) /\ applied \in Seq(Messages)

Only(s) == \A i \in 1..Len(s) : s[i].channel = channel

\* The run that is current has the channel rendered last.
CurrentRun ==
  current > 0 => /\ runs[current].at # "none" /\ ~runs[current].cancelled
                 /\ runs[current].channel = channel

\* Only the current run sets the refs, and whoever leaves clears them.
RefsAreCurrent == subscriptionRef > 0 => current > 0 /\ runs[current].at = "read"

HookInv == TypeOK /\ CurrentRun /\ RefsAreCurrent /\ Owned /\ OnlyThisChannel

-----------------------------------------------------------------------------
(* The messages.                                                           *)

LEMMA ShownOnly ==
  ASSUME ViewTypes
  PROVE  OnlyThisChannel <=> Only(allMessages) /\ Only(messageBuffer)
<1>1. Len(allMessages \o messageBuffer) = Len(allMessages) + Len(messageBuffer)
  BY DEF ViewTypes
<1>2. \A i \in 1..Len(allMessages) : (allMessages \o messageBuffer)[i] = allMessages[i]
  BY DEF ViewTypes
<1>3. \A i \in 1..Len(messageBuffer) :
        (allMessages \o messageBuffer)[Len(allMessages) + i] = messageBuffer[i]
  BY DEF ViewTypes
<1>4. Len(allMessages) \in Nat /\ Len(messageBuffer) \in Nat
  BY DEF ViewTypes
<1>5. OnlyThisChannel
        <=> \A i \in 1..(Len(allMessages) + Len(messageBuffer)) :
              (allMessages \o messageBuffer)[i].channel = channel
  BY <1>1 DEF OnlyThisChannel, ToSet
<1>6. ASSUME Only(allMessages), Only(messageBuffer),
             NEW i \in 1..(Len(allMessages) + Len(messageBuffer))
      PROVE  (allMessages \o messageBuffer)[i].channel = channel
  <2>1. CASE i <= Len(allMessages)
    BY <1>2, <1>4, <1>6, <2>1 DEF Only
  <2>2. CASE i > Len(allMessages)
    <3>1. i - Len(allMessages) \in 1..Len(messageBuffer)
      BY <1>4, <2>2
    <3>2. i = Len(allMessages) + (i - Len(allMessages))
      BY <1>4
    <3>3. QED BY <1>3, <1>6, <3>1, <3>2 DEF Only
  <2>3. QED BY <1>4, <2>1, <2>2
<1>7. ASSUME \A i \in 1..(Len(allMessages) + Len(messageBuffer)) :
               (allMessages \o messageBuffer)[i].channel = channel
      PROVE  Only(allMessages) /\ Only(messageBuffer)
  <2>1. \A i \in 1..Len(allMessages) : i \in 1..(Len(allMessages) + Len(messageBuffer))
    BY <1>4
  <2>2. \A i \in 1..Len(messageBuffer) :
          Len(allMessages) + i \in 1..(Len(allMessages) + Len(messageBuffer))
    BY <1>4
  <2>3. QED BY <1>2, <1>3, <1>7, <2>1, <2>2 DEF Only
<1>8. QED BY <1>5, <1>6, <1>7

\* Clamping keeps a sequence's type and shows nothing else.
LEMMA ClampKeeps ==
  ASSUME NEW s \in Seq(Messages)
  PROVE  /\ Clamp(s) \in Seq(Messages)
         /\ \A i \in 1..Len(Clamp(s)) : \E j \in 1..Len(s) : Clamp(s)[i] = s[j]
<1>1. Len(s) \in Nat /\ HistoryLimit \in Nat
  BY HookBounds
<1>2. CASE Len(s) > HistoryLimit
  <2> DEFINE from == Len(s) - HistoryLimit + 1
  <2>1. from \in 1..(Len(s) + 1) /\ from \in Nat
    BY <1>1, <1>2
  <2>2. Clamp(s) = SubSeq(s, from, Len(s))
    BY <1>2 DEF Clamp
  <2>3. SubSeq(s, from, Len(s)) \in Seq(Messages)
    BY <1>1, <2>1
  <2>4. Len(SubSeq(s, from, Len(s))) = HistoryLimit
    BY <1>1, <1>2, <2>1
  <2>5. \A i \in 1..HistoryLimit : SubSeq(s, from, Len(s))[i] = s[from + i - 1]
    BY <1>1, <1>2, <2>1
  <2>6. \A i \in 1..HistoryLimit : from + i - 1 \in 1..Len(s)
    BY <1>1, <1>2
  <2>7. QED BY <2>2, <2>3, <2>4, <2>5, <2>6
<1>3. CASE ~(Len(s) > HistoryLimit)
  BY <1>3 DEF Clamp
<1>4. QED BY <1>2, <1>3

\* A concatenation of what may be shown may be shown.
LEMMA JoinKeeps ==
  ASSUME NEW s \in Seq(Messages), NEW t \in Seq(Messages), Only(s), Only(t)
  PROVE  /\ s \o t \in Seq(Messages) /\ Only(s \o t)
         /\ Clamp(s \o t) \in Seq(Messages) /\ Only(Clamp(s \o t))
<1>1. s \o t \in Seq(Messages) /\ Len(s \o t) = Len(s) + Len(t)
  OBVIOUS
<1>2. Len(s) \in Nat /\ Len(t) \in Nat
  OBVIOUS
<1>3. ASSUME NEW i \in 1..Len(s \o t)
      PROVE  (s \o t)[i].channel = channel
  <2>1. CASE i <= Len(s)
    <3>1. (s \o t)[i] = s[i] /\ i \in 1..Len(s)
      BY <1>2, <2>1
    <3>2. QED BY <3>1 DEF Only
  <2>2. CASE i > Len(s)
    <3>1. i - Len(s) \in 1..Len(t)
      BY <1>1, <1>2, <2>2
    <3>2. (s \o t)[i] = t[i - Len(s)]
      BY <1>1, <1>2, <2>2
    <3>3. QED BY <3>1, <3>2 DEF Only
  <2>3. QED BY <1>1, <1>2, <2>1, <2>2
<1>4. Only(s \o t)
  BY <1>3 DEF Only
<1>5. Clamp(s \o t) \in Seq(Messages)
  BY <1>1, ClampKeeps
<1>6. \A i \in 1..Len(Clamp(s \o t)) : \E j \in 1..Len(s \o t) : Clamp(s \o t)[i] = (s \o t)[j]
  BY <1>1, ClampKeeps
<1>7. Only(Clamp(s \o t))
  BY <1>3, <1>6 DEF Only
<1>8. QED BY <1>1, <1>4, <1>5, <1>7

LEMMA AppendKeeps ==
  ASSUME NEW s \in Seq(Messages), Only(s), NEW m \in Messages, m.channel = channel
  PROVE  /\ Append(s, m) \in Seq(Messages) /\ Only(Append(s, m))
         /\ Clamp(Append(s, m)) \in Seq(Messages) /\ Only(Clamp(Append(s, m)))
<1>1. Append(s, m) \in Seq(Messages) /\ Len(Append(s, m)) = Len(s) + 1 /\ Len(s) \in Nat
  OBVIOUS
<1>2. \A i \in 1..Len(Append(s, m)) : Append(s, m)[i] = IF i <= Len(s) THEN s[i] ELSE m
  OBVIOUS
<1>3. \A i \in 1..Len(Append(s, m)) : Append(s, m)[i].channel = channel
  BY <1>1, <1>2 DEF Only
<1>4. \A i \in 1..Len(Clamp(Append(s, m))) :
        \E j \in 1..Len(Append(s, m)) : Clamp(Append(s, m))[i] = Append(s, m)[j]
  BY <1>1, ClampKeeps
<1>5. Only(Append(s, m)) /\ Only(Clamp(Append(s, m)))
  BY <1>3, <1>4 DEF Only
<1>6. QED BY <1>1, <1>5, ClampKeeps

Shown == ViewTypes /\ OnlyThisChannel

LEMMA ShownStays ==
  ASSUME Shown, UNCHANGED <<viewVars, channel>>
  PROVE  Shown'
  BY DEF Shown, ViewTypes, OnlyThisChannel, viewVars

LEMMA EmptyShows ==
  ASSUME messageBuffer' = <<>>, allMessages' = <<>>, applied' = <<>>
  PROVE  Shown'
<1>1. ViewTypes'
  BY DEF ViewTypes
<1>2. Only(allMessages)' /\ Only(messageBuffer)'
  BY DEF Only
<1>3. QED BY <1>1, <1>2, ShownOnly, PTL DEF Shown

LEMMA FlushShows ==
  ASSUME Shown, Flush, UNCHANGED channel
  PROVE  Shown'
<1>1. Only(allMessages) /\ Only(messageBuffer)
  BY ShownOnly DEF Shown
<1>2. messageBuffer' = <<>> /\ applied' = applied
  BY DEF Flush
<1>3. allMessages' \in Seq(Messages) /\ Only(allMessages')
  BY <1>1, JoinKeeps DEF Flush, Shown, ViewTypes
<1>4. ViewTypes' /\ Only(allMessages)' /\ Only(messageBuffer)'
  BY <1>2, <1>3 DEF Shown, ViewTypes, Only
<1>5. QED BY <1>4, ShownOnly, PTL DEF Shown

LEMMA ApplyShows ==
  ASSUME Shown, NEW m \in Messages, m.channel = channel, Apply(m), UNCHANGED channel
  PROVE  Shown'
<1>1. Only(allMessages) /\ Only(messageBuffer)
  BY ShownOnly DEF Shown
<1>2. applied' \in Seq(Messages)
  BY DEF Apply, Shown, ViewTypes
<1>3. /\ messageBuffer' \in Seq(Messages) /\ Only(messageBuffer')
      /\ allMessages' \in Seq(Messages) /\ Only(allMessages')
  BY <1>1, AppendKeeps DEF Apply, Shown, ViewTypes
<1>4. ViewTypes' /\ Only(allMessages)' /\ Only(messageBuffer)'
  BY <1>2, <1>3 DEF ViewTypes, Only
<1>5. QED BY <1>4, ShownOnly, PTL DEF Shown

\* The message that is applied after the function has come to its end.
LEMMA LastShows ==
  ASSUME Shown, NEW m \in Messages, m.channel = channel, UNCHANGED channel,
         applied' = Append(applied, m), messageBuffer' = <<>>,
         allMessages' = Clamp(allMessages \o Append(messageBuffer, m))
  PROVE  Shown'
<1>1. Only(allMessages) /\ Only(messageBuffer)
  BY ShownOnly DEF Shown
<1>2. Append(messageBuffer, m) \in Seq(Messages) /\ Only(Append(messageBuffer, m))
  BY <1>1, AppendKeeps DEF Shown, ViewTypes
<1>3. allMessages' \in Seq(Messages) /\ Only(allMessages')
  BY <1>1, <1>2, JoinKeeps DEF Shown, ViewTypes
<1>4. ViewTypes' /\ Only(allMessages)' /\ Only(messageBuffer)'
  BY <1>3 DEF Shown, ViewTypes, Only
<1>5. QED BY <1>4, ShownOnly, PTL DEF Shown

-----------------------------------------------------------------------------
(* The effect.                                                             *)

\* What is cancelled stays what it was.
LEMMA CancelledKeeps ==
  ASSUME TypeOK
  PROVE  /\ Cancelled \in [1..MaxRuns -> Run]
         /\ \A g \in 1..MaxRuns : /\ Cancelled[g].at = runs[g].at
                                  /\ Cancelled[g].target = runs[g].target
                                  /\ Cancelled[g].at # "none" => Cancelled[g].cancelled
<1>1. \A g \in 1..MaxRuns : runs[g] \in Run
  BY DEF TypeOK
<1>2. \A g \in 1..MaxRuns : [runs[g] EXCEPT !.cancelled = TRUE] \in Run
  BY <1>1 DEF Run
<1>3. \A g \in 1..MaxRuns :
        Cancelled[g] = IF g = current THEN [runs[g] EXCEPT !.cancelled = TRUE] ELSE runs[g]
  BY DEF Cancelled
<1>4. Cancelled \in [1..MaxRuns -> Run]
  BY <1>1, <1>2 DEF Cancelled
<1>5. ASSUME NEW g \in 1..MaxRuns
      PROVE  /\ Cancelled[g].at = runs[g].at /\ Cancelled[g].target = runs[g].target
             /\ Cancelled[g].at # "none" => Cancelled[g].cancelled
  <2>1. CASE g = current
    BY <1>1, <1>3, <2>1 DEF Run
  <2>2. CASE g # current
    BY <1>3, <2>2 DEF TypeOK
  <2>3. QED BY <2>1, <2>2
<1>6. QED BY <1>4, <1>5

\* The clean-up of the effect takes the connection along.
LEMMA CleanUpKeeps ==
  ASSUME HookInv, CleanUp \/ (current = 0 /\ UNCHANGED <<subs, refVars>>)
  PROVE  /\ subs' \in [1..MaxSubs -> {"none", "open", "cancelled", "ended"}]
         /\ subscriptionRef' = 0 /\ readerRef' \in 0..MaxSubs /\ closing' \subseteq 1..MaxSubs
         /\ \A s \in 1..MaxSubs : subs'[s] \in {"open", "cancelled"} =>
              s \in closing' \/ \E g \in 1..MaxRuns : runs[g].at = "cleanup" /\ runs[g].target = s
<1>1. TypeOK /\ Owned /\ RefsAreCurrent
  BY DEF HookInv
<1>2. CASE CleanUp
  BY <1>1, <1>2, HookBounds DEF CleanUp, CancelReader, TypeOK, Owned
<1>3. CASE current = 0 /\ UNCHANGED <<subs, refVars>>
  BY <1>1, <1>3, HookBounds DEF refVars, TypeOK, Owned, RefsAreCurrent
<1>4. QED BY <1>2, <1>3

LEMMA NoRunType ==
  ASSUME NEW c \in Channels
  PROVE  [NoRun(c) EXCEPT !.at = "token"] \in Run
<1>1. 0 \in 0..MaxSubs
  BY HookBounds
<1>2. NoRun(c) \in Run
  BY <1>1 DEF NoRun, Run
<1>3. QED BY <1>2 DEF Run

LEMMA EffectKeeps ==
  ASSUME HookInv, NEW should \in BOOLEAN, NEW c \in Channels, Effect(should, c), mounted' \in BOOLEAN
  PROVE  HookInv'
<1>1. TypeOK /\ Shown
  BY DEF HookInv, Shown, TypeOK, ViewTypes
<1>2. channel' = c /\ shouldRun' = should /\ UNCHANGED <<buffered, messages, faults>>
  BY DEF Effect
<1>3. Shown'
  <2>1. CASE c # channel
    BY <2>1, EmptyShows DEF Effect, Forget
  <2>2. CASE c = channel
    BY <1>1, <1>2, <2>2, FlushShows, ShownStays DEF Effect
  <2>3. QED BY <2>1, <2>2
<1>4. CleanUp \/ (current = 0 /\ UNCHANGED <<subs, refVars>>)
  BY <1>1 DEF Effect, TypeOK
<1>5. /\ subs' \in [1..MaxSubs -> {"none", "open", "cancelled", "ended"}]
      /\ subscriptionRef' = 0 /\ readerRef' \in 0..MaxSubs /\ closing' \subseteq 1..MaxSubs
      /\ \A s \in 1..MaxSubs : subs'[s] \in {"open", "cancelled"} =>
           s \in closing' \/ \E g \in 1..MaxRuns : runs[g].at = "cleanup" /\ runs[g].target = s
  BY <1>4, CleanUpKeeps
<1>6. /\ Cancelled \in [1..MaxRuns -> Run]
      /\ \A g \in 1..MaxRuns : /\ Cancelled[g].at = runs[g].at
                               /\ Cancelled[g].target = runs[g].target
                               /\ Cancelled[g].at # "none" => Cancelled[g].cancelled
  BY <1>1, CancelledKeeps
<1>7. runStatus' \in {"unknown", "running", "terminal"}
  BY <1>1 DEF Effect, Forget, TypeOK
<1>8. CASE ~should
  <2>1. runs' = Cancelled /\ current' = 0 /\ status' = "paused"
    BY <1>8 DEF Effect
  <2>2. TypeOK'
    <3>1. runs' \in [1..MaxRuns -> Run] /\ current' \in 0..MaxRuns /\ subscriptionRef' \in 0..MaxSubs
      BY <1>5, <1>6, <2>1, HookBounds
    <3>2. \A g \in 1..MaxRuns : runs'[g].at # "none" /\ g # current' => runs'[g].cancelled
      <4>1. ASSUME NEW g \in 1..MaxRuns PROVE runs'[g].at # "none" => runs'[g].cancelled
        <5>1. runs'[g] = Cancelled[g]
          BY <2>1
        <5>2. QED BY <1>6, <5>1
      <4>2. QED BY <4>1
    <3>3. QED BY <1>1, <1>2, <1>3, <1>5, <1>7, <2>1, <3>1, <3>2 DEF TypeOK, Shown, ViewTypes
  <2>3. Owned'
    <3>1. ASSUME NEW g \in 1..MaxRuns
          PROVE  runs'[g].at = runs[g].at /\ runs'[g].target = runs[g].target
      <4>1. runs'[g] = Cancelled[g]
        BY <2>1
      <4>2. Cancelled[g].at = runs[g].at /\ Cancelled[g].target = runs[g].target
        BY <1>6
      <4>3. QED BY <4>1, <4>2
    <3>2. QED BY <1>5, <3>1 DEF Owned
  <2>4. QED BY <1>3, <1>5, <2>1, <2>2, <2>3 DEF HookInv, CurrentRun, RefsAreCurrent, Shown
<1>9. CASE should
  <2>1. PICK g \in 1..MaxRuns :
          /\ runs[g].at = "none"
          /\ runs' = [Cancelled EXCEPT ![g] = [NoRun(c) EXCEPT !.at = "token"]]
          /\ current' = g /\ status' = "connecting"
    BY <1>9 DEF Effect
  <2>2. runs' \in [1..MaxRuns -> Run]
    BY <1>6, <2>1, NoRunType
  <2>3. /\ runs'[g].at = "token" /\ ~runs'[g].cancelled /\ runs'[g].channel = c
        /\ \A h \in 1..MaxRuns : h # g => runs'[h] = Cancelled[h]
    BY <1>6, <2>1 DEF NoRun
  <2>4. TypeOK'
    <3>1. current' \in 0..MaxRuns /\ subscriptionRef' \in 0..MaxSubs
      BY <1>5, <2>1, HookBounds
    <3>2. \A h \in 1..MaxRuns : runs'[h].at # "none" /\ h # current' => runs'[h].cancelled
      <4>1. ASSUME NEW h \in 1..MaxRuns, h # g PROVE runs'[h].at # "none" => runs'[h].cancelled
        <5>1. runs'[h] = Cancelled[h]
          BY <2>3, <4>1
        <5>2. QED BY <1>6, <5>1
      <4>2. QED BY <2>1, <4>1
    <3>3. QED BY <1>1, <1>2, <1>3, <1>5, <1>7, <2>1, <2>2, <3>1, <3>2 DEF TypeOK, Shown, ViewTypes
  <2>5. Owned'
    <3>1. ASSUME NEW h \in 1..MaxRuns, runs[h].at = "cleanup"
          PROVE  runs'[h].at = "cleanup" /\ runs'[h].target = runs[h].target
      <4>1. h # g
        BY <2>1, <3>1
      <4>2. runs'[h] = Cancelled[h]
        BY <2>3, <4>1
      <4>3. QED BY <1>6, <3>1, <4>2
    <3>2. QED BY <1>5, <3>1 DEF Owned
  <2>6. QED BY <1>2, <1>3, <1>5, <2>1, <2>3, <2>4, <2>5 DEF HookInv, CurrentRun, RefsAreCurrent, Shown
<1>10. QED BY <1>8, <1>9

\* What the component does to the messages, and a clean-up that goes on.
LEMMA ViewStepsKeep ==
  ASSUME HookInv, ChangeInterval \/ Tick \/ Reset \/ \E s \in 1..MaxSubs : Unsubscribes(s)
  PROVE  HookInv'
<1>1. TypeOK /\ Shown /\ CurrentRun /\ RefsAreCurrent /\ Owned
  BY DEF HookInv, Shown, TypeOK, ViewTypes
<1>2. UNCHANGED <<mounted, channel, shouldRun, runs, current, subscriptionRef, readerRef, status, messages, faults>>
  BY DEF ChangeInterval, Tick, Reset, Unsubscribes, propVars, refVars
<1>3. CurrentRun' /\ RefsAreCurrent'
  BY <1>1, <1>2 DEF CurrentRun, RefsAreCurrent
<1>4. CASE ChangeInterval \/ Tick \/ Reset
  <2>1. Shown'
    BY <1>1, <1>2, <1>4, EmptyShows, FlushShows, ShownStays DEF ChangeInterval, Tick, Reset, Forget
  <2>2. UNCHANGED <<subs, closing>> /\ buffered' \in BOOLEAN /\ runStatus' \in {"unknown", "running", "terminal"}
    BY <1>1, <1>4 DEF ChangeInterval, Tick, Reset, Forget, TypeOK, refVars, propVars
  <2>3. TypeOK'
    BY <1>1, <1>2, <2>1, <2>2 DEF TypeOK, Shown, ViewTypes
  <2>4. Owned'
    BY <1>1, <1>2, <2>2 DEF Owned
  <2>5. QED BY <1>3, <2>1, <2>3, <2>4 DEF HookInv, Shown
<1>5. CASE \E s \in 1..MaxSubs : Unsubscribes(s)
  <2>1. PICK s \in 1..MaxSubs : Unsubscribes(s)
    BY <1>5
  <2>2. Shown'
    BY <1>1, <1>2, <2>1, ShownStays DEF Unsubscribes
  <2>3. /\ closing' = closing \ {s} /\ subs' = [subs EXCEPT ![s] = "ended"]
        /\ UNCHANGED <<buffered, runStatus>>
    BY <2>1 DEF Unsubscribes, propVars
  <2>4. TypeOK'
    BY <1>1, <1>2, <2>2, <2>3 DEF TypeOK, Shown, ViewTypes
  <2>5. Owned'
    <3>1. ASSUME NEW t \in 1..MaxSubs, subs'[t] \in {"open", "cancelled"}
          PROVE  t # s /\ subs[t] \in {"open", "cancelled"}
      BY <1>1, <2>3, <3>1 DEF TypeOK
    <3>2. QED BY <1>1, <1>2, <2>3, <3>1 DEF Owned
  <2>6. QED BY <1>3, <2>2, <2>4, <2>5 DEF HookInv, Shown
<1>6. QED BY <1>4, <1>5

LEMMA UnmountKeeps ==
  ASSUME HookInv, Unmount
  PROVE  HookInv'
<1>1. TypeOK /\ Shown
  BY DEF HookInv, Shown, TypeOK, ViewTypes
<1>2. /\ mounted' = FALSE /\ runs' = Cancelled /\ current' = 0
      /\ status' \in {"closed", status}
      /\ UNCHANGED <<channel, shouldRun, buffered, runStatus, messages, faults>>
  BY DEF Unmount
<1>3. Shown'
  BY <1>1, <1>2, FlushShows, ShownStays DEF Unmount
<1>4. CleanUp \/ (current = 0 /\ UNCHANGED <<subs, refVars>>)
  BY <1>1 DEF Unmount, TypeOK
<1>5. /\ subs' \in [1..MaxSubs -> {"none", "open", "cancelled", "ended"}]
      /\ subscriptionRef' = 0 /\ readerRef' \in 0..MaxSubs /\ closing' \subseteq 1..MaxSubs
      /\ \A s \in 1..MaxSubs : subs'[s] \in {"open", "cancelled"} =>
           s \in closing' \/ \E g \in 1..MaxRuns : runs[g].at = "cleanup" /\ runs[g].target = s
  BY <1>4, CleanUpKeeps
<1>6. runs' \in [1..MaxRuns -> Run] /\ current' \in 0..MaxRuns /\ subscriptionRef' \in 0..MaxSubs
  BY <1>1, <1>2, <1>5, CancelledKeeps, HookBounds
<1>7. ASSUME NEW g \in 1..MaxRuns
      PROVE  /\ runs'[g].at = runs[g].at /\ runs'[g].target = runs[g].target
             /\ runs'[g].at # "none" => runs'[g].cancelled
  <2>1. runs'[g] = Cancelled[g]
    BY <1>2
  <2>2. QED BY <1>1, <2>1, CancelledKeeps
<1>8. TypeOK'
  BY <1>1, <1>2, <1>3, <1>5, <1>6, <1>7 DEF TypeOK, Shown, ViewTypes
<1>9. Owned'
  BY <1>5, <1>7 DEF Owned
<1>10. QED BY <1>2, <1>3, <1>5, <1>8, <1>9 DEF HookInv, CurrentRun, RefsAreCurrent, Shown

-----------------------------------------------------------------------------
(* A run.                                                                  *)

SubStates == {"none", "open", "cancelled", "ended"}

\* A run that leaves takes the connection of the refs along.
LEMMA LeaveKeeps ==
  ASSUME HookInv, NEW g \in 1..MaxRuns, runs[g].at \in {"token", "subscribe", "read"},
         NEW stop \in BOOLEAN, NEW S \in [1..MaxSubs -> SubStates], NEW reader \in 0..MaxSubs,
         \A s \in 1..MaxSubs : S[s] \in {"open", "cancelled"} => subs[s] \in {"open", "cancelled"},
         Leave(g, stop, S, reader), UNCHANGED <<channel, current, closing>>
  PROVE  /\ runs' \in [1..MaxRuns -> Run]
         /\ \A h \in 1..MaxRuns : runs'[h].at # "none" /\ h # current' => runs'[h].cancelled
         /\ subs' \in [1..MaxSubs -> SubStates]
         /\ subscriptionRef' \in 0..MaxSubs /\ readerRef' \in 0..MaxSubs
         /\ CurrentRun' /\ RefsAreCurrent' /\ Owned'
<1>1. TypeOK /\ CurrentRun /\ Owned
  BY DEF HookInv
<1>2. /\ runs' = [runs EXCEPT ![g].at = "cleanup", ![g].target = subscriptionRef, ![g].stop = stop]
      /\ subs' = CancelReader(S, reader)
      /\ subscriptionRef' = 0 /\ readerRef' = 0
  BY DEF Leave
<1>3. runs[g] \in Run /\ subscriptionRef \in 0..MaxSubs
  BY <1>1 DEF TypeOK
<1>4. /\ runs'[g].at = "cleanup" /\ runs'[g].target = subscriptionRef
      /\ runs'[g].cancelled = runs[g].cancelled /\ runs'[g].channel = runs[g].channel
      /\ runs'[g] \in Run
  BY <1>1, <1>2, <1>3 DEF TypeOK, Run
<1>5. \A h \in 1..MaxRuns : h # g => runs'[h] = runs[h]
  BY <1>1, <1>2 DEF TypeOK
<1>6. runs' \in [1..MaxRuns -> Run]
  <2>1. \A h \in 1..MaxRuns : runs'[h] \in Run
    BY <1>1, <1>4, <1>5 DEF TypeOK
  <2>2. runs' = [h \in 1..MaxRuns |-> runs'[h]]
    BY <1>1, <1>2 DEF TypeOK
  <2>3. QED BY <2>1, <2>2
<1>7. \A h \in 1..MaxRuns : runs'[h].at # "none" /\ h # current' => runs'[h].cancelled
  BY <1>1, <1>4, <1>5 DEF TypeOK
<1>8. subs' \in [1..MaxSubs -> SubStates]
  BY <1>2 DEF CancelReader, SubStates
<1>9. subscriptionRef' \in 0..MaxSubs /\ readerRef' \in 0..MaxSubs
  BY <1>2, HookBounds
<1>10. CurrentRun' /\ RefsAreCurrent'
  BY <1>1, <1>2, <1>4, <1>5 DEF CurrentRun, RefsAreCurrent, TypeOK
<1>11. Owned'
  <2>1. ASSUME NEW s \in 1..MaxSubs, subs'[s] \in {"open", "cancelled"}
        PROVE  s \in closing' \/ \E h \in 1..MaxRuns : runs'[h].at = "cleanup" /\ runs'[h].target = s
    <3>1. subs[s] \in {"open", "cancelled"}
      BY <1>2, <2>1 DEF CancelReader
    <3>2. CASE s = subscriptionRef
      BY <1>4, <3>2
    <3>3. CASE s \in closing
      BY <3>3
    <3>4. ASSUME NEW h \in 1..MaxRuns, runs[h].at = "cleanup", runs[h].target = s
          PROVE  runs'[h].at = "cleanup" /\ runs'[h].target = s
      BY <1>5, <3>4
    <3>5. QED BY <1>1, <3>1, <3>2, <3>3, <3>4 DEF Owned
  <2>2. QED BY <2>1 DEF Owned
<1>12. QED BY <1>6, <1>7, <1>8, <1>9, <1>10, <1>11

\* The types of what is left when a run's connection has been seen to.
LEMMA TypesFrom ==
  ASSUME TypeOK, Shown',
         runs' \in [1..MaxRuns -> Run],
         \A h \in 1..MaxRuns : runs'[h].at # "none" /\ h # current' => runs'[h].cancelled,
         subs' \in [1..MaxSubs -> SubStates],
         subscriptionRef' \in 0..MaxSubs, readerRef' \in 0..MaxSubs,
         UNCHANGED <<propVars, current, closing>>,
         status' \in {"connecting", "open", "closed", "error", status},
         runStatus' \in {"unknown", "running", "terminal"},
         messages' \in 0..MaxMessages, faults' \in 0..MaxFaults
  PROVE  TypeOK'
  BY DEF TypeOK, Shown, ViewTypes, SubStates, propVars

LEMMA FaultBound ==
  ASSUME TypeOK, NEW kind, Fault(kind)
  PROVE  faults' \in 0..MaxFaults
  BY HookBounds DEF Fault, TypeOK

\* An attempt fails, or the stream is done, or the run sees that it has been cancelled.
LEMMA LeavesKeep ==
  ASSUME HookInv, NEW g \in 1..MaxRuns,
         TokenFails(g) \/ SubscribeFails(g) \/ ReadsEnd(g)
  PROVE  HookInv'
<1>1. TypeOK /\ Shown
  BY DEF HookInv, Shown, TypeOK, ViewTypes
<1>2. runs[g] \in Run /\ subs \in [1..MaxSubs -> SubStates] /\ readerRef \in 0..MaxSubs
  BY <1>1 DEF TypeOK, SubStates
<1>3. PICK stop \in BOOLEAN, reader \in 0..MaxSubs : Leave(g, stop, subs, reader)
  <2>1. ReaderAfter(g) \in 0..MaxSubs
    BY <1>2, HookBounds DEF ReaderAfter
  <2>2. (runs[g].cancelled \/ ~Reconnect) \in BOOLEAN
    OBVIOUS
  <2>3. (runs[g].cancelled \/ runStatus = "terminal" \/ ~Reconnect) \in BOOLEAN
    OBVIOUS
  <2>4. QED BY <1>2, <2>1, <2>2, <2>3 DEF TokenFails, SubscribeFails, Fails, ReadsEnd
<1>4. /\ runs[g].at \in {"token", "subscribe", "read"}
      /\ Flush /\ UNCHANGED <<propVars, current, closing, runStatus, messages>>
      /\ status' \in {"error", "closed", status}
  BY DEF TokenFails, SubscribeFails, Fails, ReadsEnd
<1>5. faults' \in 0..MaxFaults
  BY <1>1, FaultBound DEF TokenFails, SubscribeFails, ReadsEnd, TypeOK
<1>6. UNCHANGED <<channel, current, closing>>
  BY <1>4 DEF propVars
<1>7. Shown'
  BY <1>1, <1>4, <1>6, FlushShows
<1>8. /\ runs' \in [1..MaxRuns -> Run]
      /\ \A h \in 1..MaxRuns : runs'[h].at # "none" /\ h # current' => runs'[h].cancelled
      /\ subs' \in [1..MaxSubs -> SubStates]
      /\ subscriptionRef' \in 0..MaxSubs /\ readerRef' \in 0..MaxSubs
      /\ CurrentRun' /\ RefsAreCurrent' /\ Owned'
  BY <1>2, <1>3, <1>4, <1>6, LeaveKeeps
<1>9. TypeOK'
  <2>1. runStatus' \in {"unknown", "running", "terminal"} /\ messages' \in 0..MaxMessages
    BY <1>1, <1>4 DEF TypeOK
  <2>2. QED BY <1>1, <1>4, <1>5, <1>7, <1>8, <2>1, TypesFrom
<1>10. QED BY <1>7, <1>8, <1>9 DEF HookInv, Shown

\* A run goes from one await to the next with the same connection.
LEMMA MoveKeeps ==
  ASSUME HookInv, NEW g \in 1..MaxRuns, NEW a \in {"token", "subscribe", "done"},
         runs' = [runs EXCEPT ![g].at = a], runs[g].at \in {"token", "sleep"},
         UNCHANGED <<propVars, current, subs, refVars, runStatus, viewVars, messages, faults>>,
         status' \in {"connecting", status}
  PROVE  HookInv'
<1>1. TypeOK /\ Shown /\ CurrentRun /\ RefsAreCurrent /\ Owned
  BY DEF HookInv, Shown, TypeOK, ViewTypes
<1>2. runs[g] \in Run
  BY <1>1 DEF TypeOK
<1>3. /\ runs'[g].at = a /\ runs'[g].cancelled = runs[g].cancelled
      /\ runs'[g].channel = runs[g].channel /\ runs'[g] \in Run
      /\ \A h \in 1..MaxRuns : h # g => runs'[h] = runs[h]
  BY <1>1, <1>2 DEF TypeOK, Run
<1>4. runs' \in [1..MaxRuns -> Run]
  <2>1. \A h \in 1..MaxRuns : runs'[h] \in Run
    BY <1>1, <1>3 DEF TypeOK
  <2>2. runs' = [h \in 1..MaxRuns |-> runs'[h]]
    BY <1>1 DEF TypeOK
  <2>3. QED BY <2>1, <2>2
<1>5. UNCHANGED <<channel, current, closing, subs, subscriptionRef, readerRef, runStatus, messages, faults>>
  BY DEF propVars, refVars
<1>6. \A h \in 1..MaxRuns : runs'[h].at # "none" /\ h # current' => runs'[h].cancelled
  BY <1>1, <1>3, <1>5 DEF TypeOK
<1>7. CurrentRun' /\ RefsAreCurrent'
  BY <1>1, <1>3, <1>5 DEF CurrentRun, RefsAreCurrent, TypeOK
<1>8. Owned'
  <2>1. ASSUME NEW h \in 1..MaxRuns, runs[h].at = "cleanup"
        PROVE  runs'[h] = runs[h]
    BY <1>3, <2>1
  <2>2. QED BY <1>1, <1>5, <2>1 DEF Owned
<1>9. Shown'
  BY <1>1, <1>5, ShownStays
<1>10. TypeOK'
  <2>1. /\ subs' \in [1..MaxSubs -> SubStates]
        /\ subscriptionRef' \in 0..MaxSubs /\ readerRef' \in 0..MaxSubs
        /\ runStatus' \in {"unknown", "running", "terminal"}
        /\ messages' \in 0..MaxMessages /\ faults' \in 0..MaxFaults
    BY <1>1, <1>5 DEF TypeOK, SubStates
  <2>2. QED BY <1>1, <1>4, <1>5, <1>6, <1>9, <2>1, TypesFrom
<1>11. QED BY <1>7, <1>8, <1>9, <1>10 DEF HookInv, Shown

LEMMA TokenResolvesKeeps ==
  ASSUME HookInv, NEW g \in 1..MaxRuns, TokenResolves(g)
  PROVE  HookInv'
<1>1. TypeOK /\ Shown
  BY DEF HookInv, Shown, TypeOK, ViewTypes
<1>2. CASE runs[g].cancelled
  <2>1. /\ runs[g].at = "token" /\ Leave(g, TRUE, subs, readerRef) /\ Flush
        /\ UNCHANGED <<propVars, current, closing, status, runStatus, messages, faults>>
    BY <1>2 DEF TokenResolves
  <2>2. subs \in [1..MaxSubs -> SubStates] /\ readerRef \in 0..MaxSubs
    BY <1>1 DEF TypeOK, SubStates
  <2>3. UNCHANGED <<channel, current, closing>>
    BY <2>1 DEF propVars
  <2>4. Shown'
    BY <1>1, <2>1, <2>3, FlushShows
  <2>5. /\ runs' \in [1..MaxRuns -> Run]
        /\ \A h \in 1..MaxRuns : runs'[h].at # "none" /\ h # current' => runs'[h].cancelled
        /\ subs' \in [1..MaxSubs -> SubStates]
        /\ subscriptionRef' \in 0..MaxSubs /\ readerRef' \in 0..MaxSubs
        /\ CurrentRun' /\ RefsAreCurrent' /\ Owned'
    BY <2>1, <2>2, <2>3, LeaveKeeps
  <2>6. TypeOK'
    <3>1. /\ runStatus' \in {"unknown", "running", "terminal"}
          /\ messages' \in 0..MaxMessages /\ faults' \in 0..MaxFaults
      BY <1>1, <2>1 DEF TypeOK
    <3>2. QED BY <1>1, <2>1, <2>4, <2>5, <3>1, TypesFrom
  <2>7. QED BY <2>4, <2>5, <2>6 DEF HookInv, Shown
<1>3. CASE ~runs[g].cancelled
  BY <1>3, MoveKeeps DEF TokenResolves, refVars
<1>4. QED BY <1>2, <1>3

LEMMA WakesKeeps ==
  ASSUME HookInv, NEW g \in 1..MaxRuns, Wakes(g)
  PROVE  HookInv'
  BY MoveKeeps DEF Wakes

\* A new connection belongs to the refs, which were free.
LEMMA SubscribesKeeps ==
  ASSUME HookInv, NEW g \in 1..MaxRuns, Subscribes(g)
  PROVE  HookInv'
<1>1. TypeOK /\ Shown /\ CurrentRun /\ RefsAreCurrent /\ Owned
  BY DEF HookInv, Shown, TypeOK, ViewTypes
<1>2. runs[g].at = "subscribe" /\ runs[g] \in Run
      /\ UNCHANGED <<propVars, current, closing, messages, faults>>
  BY <1>1 DEF Subscribes, TypeOK
<1>3. UNCHANGED <<mounted, channel, shouldRun, buffered, current, closing, messages, faults>>
  BY <1>2 DEF propVars
<1>4. messages' \in 0..MaxMessages /\ faults' \in 0..MaxFaults
  BY <1>1, <1>3 DEF TypeOK
<1>5. CASE runs[g].cancelled
  <2>1. PICK s \in 1..MaxSubs :
          Leave(g, TRUE, [subs EXCEPT ![s] = "ended"], readerRef) /\ Flush /\ UNCHANGED <<status, runStatus>>
    BY <1>5 DEF Subscribes
  <2>2. /\ [subs EXCEPT ![s] = "ended"] \in [1..MaxSubs -> SubStates]
        /\ \A t \in 1..MaxSubs : [subs EXCEPT ![s] = "ended"][t] \in {"open", "cancelled"}
                              => subs[t] \in {"open", "cancelled"}
        /\ readerRef \in 0..MaxSubs
    BY <1>1 DEF TypeOK, SubStates
  <2>3. Shown'
    BY <1>1, <1>3, <2>1, FlushShows
  <2>4. /\ runs' \in [1..MaxRuns -> Run]
        /\ \A h \in 1..MaxRuns : runs'[h].at # "none" /\ h # current' => runs'[h].cancelled
        /\ subs' \in [1..MaxSubs -> SubStates]
        /\ subscriptionRef' \in 0..MaxSubs /\ readerRef' \in 0..MaxSubs
        /\ CurrentRun' /\ RefsAreCurrent' /\ Owned'
    BY <1>2, <1>3, <2>1, <2>2, LeaveKeeps
  <2>5. runStatus' \in {"unknown", "running", "terminal"}
    BY <1>1, <2>1 DEF TypeOK
  <2>6. TypeOK'
    BY <1>1, <1>2, <1>4, <2>1, <2>3, <2>4, <2>5, TypesFrom
  <2>7. QED BY <2>3, <2>4, <2>6 DEF HookInv, Shown
<1>6. CASE ~runs[g].cancelled
  <2>1. PICK s \in 1..MaxSubs :
          /\ subs[s] = "none"
          /\ runs' = [runs EXCEPT ![g].at = "read", ![g].sub = s]
          /\ subs' = [subs EXCEPT ![s] = "open"]
          /\ subscriptionRef' = s /\ readerRef' = s /\ status' = "open"
          /\ runStatus' = IF runStatus = "unknown" THEN "running" ELSE runStatus
          /\ UNCHANGED viewVars
    BY <1>6 DEF Subscribes
  <2>2. g = current /\ current > 0
    BY <1>1, <1>2, <1>6 DEF TypeOK
  <2>3. subscriptionRef = 0
    BY <1>1, <1>2, <2>2 DEF RefsAreCurrent, TypeOK
  <2>4. /\ runs'[g].at = "read" /\ ~runs'[g].cancelled
        /\ runs'[g].channel = runs[g].channel /\ runs'[g] \in Run
        /\ \A h \in 1..MaxRuns : h # g => runs'[h] = runs[h]
    <3>1. runs'[g] = [runs[g] EXCEPT !.at = "read", !.sub = s]
      BY <1>1, <2>1 DEF TypeOK
    <3>2. s \in 0..MaxSubs
      BY HookBounds
    <3>3. runs'[g] \in Run
      BY <1>2, <3>1, <3>2 DEF Run
    <3>4. /\ runs'[g].at = "read" /\ ~runs'[g].cancelled
          /\ runs'[g].channel = runs[g].channel
      BY <1>2, <1>6, <3>1 DEF Run
    <3>5. \A h \in 1..MaxRuns : h # g => runs'[h] = runs[h]
      BY <1>1, <2>1 DEF TypeOK
    <3>6. QED BY <3>3, <3>4, <3>5
  <2>5. runs' \in [1..MaxRuns -> Run]
    <3>1. \A h \in 1..MaxRuns : runs'[h] \in Run
      BY <1>1, <2>4 DEF TypeOK
    <3>2. runs' = [h \in 1..MaxRuns |-> runs'[h]]
      BY <1>1, <2>1 DEF TypeOK
    <3>3. QED BY <3>1, <3>2
  <2>6. \A h \in 1..MaxRuns : runs'[h].at # "none" /\ h # current' => runs'[h].cancelled
    BY <1>1, <1>3, <2>2, <2>4 DEF TypeOK
  <2>7. subs' \in [1..MaxSubs -> SubStates] /\ subscriptionRef' \in 0..MaxSubs /\ readerRef' \in 0..MaxSubs
        /\ runStatus' \in {"unknown", "running", "terminal"}
    BY <1>1, <2>1, HookBounds DEF TypeOK, SubStates
  <2>8. CurrentRun' /\ RefsAreCurrent'
    BY <1>1, <1>3, <2>2, <2>4 DEF CurrentRun, RefsAreCurrent
  <2>9. Owned'
    <3>1. ASSUME NEW t \in 1..MaxSubs, t # s, subs'[t] \in {"open", "cancelled"}
          PROVE  t \in closing' \/ \E h \in 1..MaxRuns : runs'[h].at = "cleanup" /\ runs'[h].target = t
      <4>1. subs[t] \in {"open", "cancelled"}
        BY <1>1, <2>1, <3>1 DEF TypeOK
      <4>2. t \in closing \/ \E h \in 1..MaxRuns : runs[h].at = "cleanup" /\ runs[h].target = t
        BY <1>1, <2>3, <4>1 DEF Owned
      <4>3. ASSUME NEW h \in 1..MaxRuns, runs[h].at = "cleanup", runs[h].target = t
            PROVE  runs'[h].at = "cleanup" /\ runs'[h].target = t
        BY <1>2, <2>4, <4>3
      <4>4. QED BY <1>3, <4>2, <4>3
    <3>2. QED BY <2>1, <3>1 DEF Owned
  <2>10. Shown'
    BY <1>1, <1>3, <2>1, ShownStays
  <2>11. TypeOK'
    BY <1>1, <1>2, <1>4, <2>1, <2>5, <2>6, <2>7, <2>10, TypesFrom
  <2>12. QED BY <2>8, <2>9, <2>10, <2>11 DEF HookInv, Shown
<1>7. QED BY <1>5, <1>6

LEMMA ReadsKeeps ==
  ASSUME HookInv, NEW g \in 1..MaxRuns, Reads(g)
  PROVE  HookInv'
<1>1. TypeOK /\ Shown /\ CurrentRun /\ RefsAreCurrent /\ Owned
  BY DEF HookInv, Shown, TypeOK, ViewTypes
<1>2. UNCHANGED <<mounted, channel, shouldRun, buffered, runs, current, subs, subscriptionRef, readerRef,
                  closing, status, faults>>
  BY DEF Reads, propVars, refVars
<1>3. runs[g].channel = channel /\ channel \in Channels
  BY <1>1 DEF Reads, Receives, TypeOK, CurrentRun
<1>4. messages' \in 1..MaxMessages
  BY <1>1, HookBounds DEF Reads, Receives, TypeOK
<1>5. [channel |-> runs[g].channel, n |-> messages'] \in Messages
  BY <1>3, <1>4 DEF Messages
<1>6. Shown' /\ runStatus' \in {"unknown", "running", "terminal"}
  <2>1. CASE Apply([channel |-> runs[g].channel, n |-> messages'])
    <3>1. Shown'
      BY <1>1, <1>2, <1>3, <1>5, <2>1, ApplyShows
    <3>2. QED BY <1>1, <2>1, <3>1 DEF Apply, TypeOK
  <2>2. CASE runStatus' = "running" /\ UNCHANGED viewVars
    BY <1>1, <1>2, <2>2, ShownStays
  <2>3. QED BY <2>1, <2>2 DEF Reads
<1>7. TypeOK'
  BY <1>1, <1>2, <1>4, <1>6 DEF TypeOK, Shown, ViewTypes
<1>8. CurrentRun' /\ RefsAreCurrent' /\ Owned'
  BY <1>1, <1>2 DEF CurrentRun, RefsAreCurrent, Owned
<1>9. QED BY <1>6, <1>7, <1>8 DEF HookInv, Shown

LEMMA ReadsLastKeeps ==
  ASSUME HookInv, NEW g \in 1..MaxRuns, ReadsLast(g)
  PROVE  HookInv'
<1>1. TypeOK /\ Shown /\ CurrentRun
  BY DEF HookInv, Shown, TypeOK, ViewTypes
<1>2. /\ runs[g].at = "read" /\ UNCHANGED <<propVars, current, closing, faults>>
      /\ runStatus' = "terminal" /\ status' = "closed"
      /\ Leave(g, TRUE, [subs EXCEPT ![runs[g].sub] = "ended"], ReaderAfter(g))
  BY DEF ReadsLast, Receives
<1>3. UNCHANGED <<channel, current, closing>>
  BY <1>2 DEF propVars
<1>4. runs[g].channel = channel /\ channel \in Channels /\ runs[g] \in Run
  BY <1>1 DEF ReadsLast, Receives, TypeOK, CurrentRun
<1>5. messages' \in 1..MaxMessages
  BY <1>1, HookBounds DEF ReadsLast, Receives, TypeOK
<1>6. Shown'
  <2>1. CASE Flush
    BY <1>1, <1>3, <2>1, FlushShows
  <2>2. CASE LET m == [channel |-> runs[g].channel, n |-> messages']
             IN /\ applied' = Append(applied, m) /\ messageBuffer' = <<>>
                /\ allMessages' = Clamp(allMessages \o Append(messageBuffer, m))
    <3>1. [channel |-> runs[g].channel, n |-> messages'] \in Messages
      BY <1>4, <1>5 DEF Messages
    <3>2. QED BY <1>1, <1>3, <1>4, <2>2, <3>1, LastShows
  <2>3. QED BY <2>1, <2>2 DEF ReadsLast
<1>7. /\ [subs EXCEPT ![runs[g].sub] = "ended"] \in [1..MaxSubs -> SubStates]
      /\ \A t \in 1..MaxSubs : [subs EXCEPT ![runs[g].sub] = "ended"][t] \in {"open", "cancelled"}
                            => subs[t] \in {"open", "cancelled"}
      /\ ReaderAfter(g) \in 0..MaxSubs
  <2>1. ReaderAfter(g) \in 0..MaxSubs
    BY <1>1, HookBounds DEF TypeOK, ReaderAfter
  <2>2. [subs EXCEPT ![runs[g].sub] = "ended"] \in [1..MaxSubs -> SubStates]
    BY <1>1 DEF TypeOK, SubStates
  <2>3. ASSUME NEW t \in 1..MaxSubs
        PROVE  [subs EXCEPT ![runs[g].sub] = "ended"][t] = IF t = runs[g].sub THEN "ended" ELSE subs[t]
    BY <1>1 DEF TypeOK
  <2>4. QED BY <2>1, <2>2, <2>3
<1>8. /\ runs' \in [1..MaxRuns -> Run]
      /\ \A h \in 1..MaxRuns : runs'[h].at # "none" /\ h # current' => runs'[h].cancelled
      /\ subs' \in [1..MaxSubs -> SubStates]
      /\ subscriptionRef' \in 0..MaxSubs /\ readerRef' \in 0..MaxSubs
      /\ CurrentRun' /\ RefsAreCurrent' /\ Owned'
  BY <1>2, <1>3, <1>7, LeaveKeeps
<1>9. TypeOK'
  <2>1. messages' \in 0..MaxMessages /\ faults' \in 0..MaxFaults
    BY <1>1, <1>2, <1>5 DEF TypeOK
  <2>2. QED BY <1>1, <1>2, <1>6, <1>8, <2>1, TypesFrom
<1>10. QED BY <1>6, <1>8, <1>9 DEF HookInv, Shown

LEMMA CleansUpKeeps ==
  ASSUME HookInv, NEW g \in 1..MaxRuns, CleansUp(g)
  PROVE  HookInv'
<1>1. TypeOK /\ Shown /\ CurrentRun /\ RefsAreCurrent /\ Owned
  BY DEF HookInv, Shown, TypeOK, ViewTypes
<1>2. PICK a \in {"done", "sleep"} : runs' = [runs EXCEPT ![g].at = a, ![g].target = 0, ![g].sub = 0]
  BY DEF CleansUp
<1>3. /\ runs[g].at = "cleanup" /\ runs[g] \in Run
      /\ UNCHANGED <<propVars, current, refVars, status, runStatus, viewVars, messages, faults>>
  BY <1>1 DEF CleansUp, TypeOK
<1>4. UNCHANGED <<channel, current, closing, subscriptionRef, readerRef, status, runStatus, messages, faults>>
  BY <1>3 DEF propVars, refVars
<1>5. /\ runs'[g].at = a /\ runs'[g].cancelled = runs[g].cancelled
      /\ runs'[g].channel = runs[g].channel /\ runs'[g] \in Run
      /\ \A h \in 1..MaxRuns : h # g => runs'[h] = runs[h]
  <2>1. runs'[g] = [runs[g] EXCEPT !.at = a, !.target = 0, !.sub = 0]
    BY <1>1, <1>2 DEF TypeOK
  <2>2. 0 \in 0..MaxSubs
    BY HookBounds
  <2>3. runs'[g] \in Run
    BY <1>3, <2>1, <2>2 DEF Run
  <2>4. runs'[g].at = a /\ runs'[g].cancelled = runs[g].cancelled /\ runs'[g].channel = runs[g].channel
    BY <1>3, <2>1 DEF Run
  <2>5. \A h \in 1..MaxRuns : h # g => runs'[h] = runs[h]
    BY <1>1, <1>2 DEF TypeOK
  <2>6. QED BY <2>3, <2>4, <2>5
<1>6. runs' \in [1..MaxRuns -> Run]
  <2>1. \A h \in 1..MaxRuns : runs'[h] \in Run
    BY <1>1, <1>5 DEF TypeOK
  <2>2. runs' = [h \in 1..MaxRuns |-> runs'[h]]
    BY <1>1, <1>2 DEF TypeOK
  <2>3. QED BY <2>1, <2>2
<1>7. \A h \in 1..MaxRuns : runs'[h].at # "none" /\ h # current' => runs'[h].cancelled
  BY <1>1, <1>3, <1>4, <1>5 DEF TypeOK
<1>8. CurrentRun' /\ RefsAreCurrent'
  BY <1>1, <1>3, <1>4, <1>5 DEF CurrentRun, RefsAreCurrent, TypeOK
<1>9. subs' = [s \in 1..MaxSubs |-> IF s = runs[g].target THEN "ended" ELSE subs[s]]
  BY DEF CleansUp
<1>10. subs' \in [1..MaxSubs -> SubStates]
  BY <1>1, <1>9 DEF TypeOK, SubStates
<1>11. Owned'
  <2>1. ASSUME NEW s \in 1..MaxSubs, subs'[s] \in {"open", "cancelled"}
        PROVE  s # runs[g].target /\ subs[s] \in {"open", "cancelled"}
    BY <1>9, <2>1
  <2>2. ASSUME NEW s \in 1..MaxSubs, s # runs[g].target,
               NEW h \in 1..MaxRuns, runs[h].at = "cleanup", runs[h].target = s
        PROVE  runs'[h] = runs[h]
    BY <1>5, <2>2
  <2>3. QED BY <1>1, <1>4, <2>1, <2>2 DEF Owned
<1>12. Shown'
  BY <1>1, <1>3, <1>4, ShownStays
<1>13. TypeOK'
  <2>1. /\ subscriptionRef' \in 0..MaxSubs /\ readerRef' \in 0..MaxSubs
        /\ runStatus' \in {"unknown", "running", "terminal"}
        /\ messages' \in 0..MaxMessages /\ faults' \in 0..MaxFaults
    BY <1>1, <1>4 DEF TypeOK
  <2>2. QED BY <1>1, <1>3, <1>4, <1>6, <1>7, <1>10, <1>12, <2>1, TypesFrom
<1>14. QED BY <1>8, <1>11, <1>12, <1>13 DEF HookInv, Shown

LEMMA SubscriptionEndsKeeps ==
  ASSUME HookInv, NEW s \in 1..MaxSubs, SubscriptionEnds(s)
  PROVE  HookInv'
<1>1. TypeOK /\ Shown /\ CurrentRun /\ RefsAreCurrent /\ Owned
  BY DEF HookInv, Shown, TypeOK, ViewTypes
<1>2. /\ subs' = [subs EXCEPT ![s] = "ended"]
      /\ UNCHANGED <<propVars, runs, current, refVars, status, runStatus, viewVars, messages>>
  BY DEF SubscriptionEnds
<1>3. UNCHANGED <<channel, current, closing, subscriptionRef, readerRef, runs, status, runStatus, messages>>
  BY <1>2 DEF propVars, refVars
<1>4. CurrentRun' /\ RefsAreCurrent'
  BY <1>1, <1>3 DEF CurrentRun, RefsAreCurrent
<1>5. Owned'
  <2>1. ASSUME NEW t \in 1..MaxSubs, subs'[t] \in {"open", "cancelled"}
        PROVE  subs[t] \in {"open", "cancelled"}
    BY <1>1, <1>2, <2>1 DEF TypeOK
  <2>2. QED BY <1>1, <1>3, <2>1 DEF Owned
<1>6. Shown'
  BY <1>1, <1>2, <1>3, ShownStays
<1>7. TypeOK'
  <2>1. faults' \in 0..MaxFaults
    BY <1>1, FaultBound DEF SubscriptionEnds
  <2>2. /\ subs' \in [1..MaxSubs -> SubStates] /\ runs' \in [1..MaxRuns -> Run]
        /\ \A h \in 1..MaxRuns : runs'[h].at # "none" /\ h # current' => runs'[h].cancelled
        /\ subscriptionRef' \in 0..MaxSubs /\ readerRef' \in 0..MaxSubs
        /\ runStatus' \in {"unknown", "running", "terminal"} /\ messages' \in 0..MaxMessages
    BY <1>1, <1>2, <1>3 DEF TypeOK, SubStates
  <2>3. QED BY <1>1, <1>2, <1>3, <1>6, <2>1, <2>2, TypesFrom
<1>8. QED BY <1>4, <1>5, <1>6, <1>7 DEF HookInv, Shown

-----------------------------------------------------------------------------

LEMMA HookInvariant == Spec => []HookInv
<1>1. Init => HookInv
  <2>1. ASSUME Init PROVE HookInv
    <3>1. NoRun(channel) \in Run
      <4>1. 0 \in 0..MaxSubs
        BY HookBounds
      <4>2. QED BY <2>1, <4>1 DEF Init, NoRun, Run
    <3>2. \A g \in 1..MaxRuns : runs[g].at = "none"
      BY <2>1 DEF Init, NoRun
    <3>3. runs \in [1..MaxRuns -> Run] /\ ViewTypes
      BY <2>1, <3>1 DEF Init, ViewTypes
    <3>4. /\ current \in 0..MaxRuns /\ subscriptionRef \in 0..MaxSubs /\ readerRef \in 0..MaxSubs
          /\ messages \in 0..MaxMessages /\ faults \in 0..MaxFaults
      BY <2>1, HookBounds DEF Init
    <3>5. TypeOK
      BY <2>1, <3>2, <3>3, <3>4 DEF Init, TypeOK, ViewTypes
    <3>6. Only(allMessages) /\ Only(messageBuffer)
      BY <2>1 DEF Init, Only
    <3>7. CurrentRun /\ RefsAreCurrent /\ Owned
      BY <2>1 DEF Init, CurrentRun, RefsAreCurrent, Owned
    <3>8. QED BY <3>3, <3>5, <3>6, <3>7, ShownOnly DEF HookInv
  <2>2. QED BY <2>1
<1>2. HookInv /\ [Next]_vars => HookInv'
  <2>1. ASSUME HookInv, Mount PROVE HookInv'
    <3>1. shouldRun \in BOOLEAN /\ channel \in Channels
      BY <2>1 DEF HookInv, TypeOK
    <3>2. Effect(shouldRun, channel) /\ mounted' \in BOOLEAN
      BY <2>1 DEF Mount
    <3>3. PICK should \in BOOLEAN, c \in Channels : Effect(should, c)
      BY <3>1, <3>2
    <3>4. QED BY <2>1, <3>2, <3>3, EffectKeeps
  <2>2. ASSUME HookInv, NEW should \in BOOLEAN, NEW c \in Channels, Rerender(should, c) PROVE HookInv'
    BY <2>2, EffectKeeps DEF Rerender, HookInv, TypeOK
  <2>3. ASSUME HookInv, NEW g \in 1..MaxRuns,
               Proceeds(g) \/ TokenFails(g) \/ SubscribeFails(g) \/ Reads(g) \/ ReadsLast(g)
        PROVE  HookInv'
    BY <2>3, TokenResolvesKeeps, SubscribesKeeps, LeavesKeep, CleansUpKeeps, WakesKeeps,
       ReadsKeeps, ReadsLastKeeps DEF Proceeds
  <2>4. ASSUME HookInv, UNCHANGED vars PROVE HookInv'
    BY <2>4
    DEF vars, HookInv, TypeOK, CurrentRun, RefsAreCurrent, Owned, OnlyThisChannel, propVars, refVars, viewVars
  <2>5. QED
    BY <2>1, <2>2, <2>3, <2>4, ViewStepsKeep, UnmountKeeps, SubscriptionEndsKeeps DEF Next
<1>3. QED BY <1>1, <1>2, PTL DEF Spec

-----------------------------------------------------------------------------

\* The hook's state, its runs and its connections stay within their types, and a run that is
\* not the current one has been cancelled, whatever is rendered and whatever fails (react.ts).
THEOREM HookTypeCorrect == Spec => []TypeOK
  BY HookInvariant, PTL DEF HookInv

\* Nothing of another channel is shown, however runs of earlier renders, buffered messages and
\* re-renders interleave (the effect of react.ts:360 and applyMessage).
THEOREM HookShowsItsChannel == Spec => []OnlyThisChannel
  BY HookInvariant, PTL DEF HookInv

\* Every open connection belongs to the refs or to a clean-up that has taken it from there,
\* for any number of overlapping runs (cleanupConnection of react.ts).
THEOREM HookOwnsItsConnections == Spec => []Owned
  BY HookInvariant, PTL DEF HookInv

=============================================================================
