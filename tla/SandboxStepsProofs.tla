------------------------- MODULE SandboxStepsProofs -------------------------
(***************************************************************************)
(* What SandboxSteps promises whatever the faults and bounds: its types,   *)
(* that nothing is done twice, and that a plain error is true.             *)
(***************************************************************************)
EXTENDS SandboxSteps, TLAPS

\* Only the loop of waitUntilSandboxRunning polls, and only what must not be repeated has
\* an effect.
Places ==
  /\ polling => Action \in {"create", "waitUntilRunning"}
  /\ at # "idle" => Busy
  /\ touched => Action \in NonRepeatable

\* Nothing has been done of what lies ahead; a step that will be sent (again) has been done
\* by requests whose worker has died or whose answer had no envelope; a list that finds nothing
\* is right.
Ahead ==
  /\ Action \in {"create", "waitUntilRunning"} => \A x \in NonRepeatable : effects[x] = 0
  /\ Action \in {"process.start", "process.list"} => effects["process.signal"] = 0
  /\ Action \in NonRepeatable /\ (at = "answered" => answer.error = "retryable")
       => effects[Action] <= crashes + opaque
  /\ at = "answered" /\ Action = "process.list" /\ answer.error = "none" /\ ~answer.found
       => effects["process.start"] = 0

\* A step that has had an effect has its answer, which does not deny it.
Honest ==
  touched /\ ~hidden => at = "answered" /\ answer.error \in {"none", "ambiguous", "invalid"}

SandboxInv == TypeOK /\ Places /\ Ahead /\ Honest /\ AtMostOnce /\ PlainErrorsAreTrue

-----------------------------------------------------------------------------
(* User code.                                                              *)

\* Whatever a step comes back with, user code has a next action.
LEMMA AfterType ==
  ASSUME NEW a \in Actions, NEW r, job \in {"exec", "process.start"}
  PROVE  After(a, r) \in Actions \cup {"end"}
  BY DEF After, Actions, SafeRepeat, NonRepeatable

LEMMA ActionType ==
  ASSUME TypeOK
  PROVE  Action \in Actions \cup {"end"}
<1>1. CASE memo = <<>>
  BY <1>1 DEF Action, Actions, SafeRepeat
<1>2. CASE memo # <<>>
  <2>1. memo[Len(memo)] \in Memo
    BY <1>2 DEF TypeOK
  <2>2. QED BY <1>2, <2>1, AfterType DEF Action, Memo, TypeOK
<1>3. QED BY <1>1, <1>2

\* Recording a result moves user code on from the current action.
LEMMA RecordMoves ==
  ASSUME TypeOK, NEW r \in Answer, Record(r), Action \in Actions, UNCHANGED job
  PROVE  /\ memo' \in Seq(Memo)
         /\ Len(memo') = Len(memo) + 1
         /\ Action' = After(Action, r)
         /\ \A i \in 1..Len(memo) : memo'[i] = memo[i]
         /\ memo'[Len(memo')] = [action |-> Action, answer |-> r, touched |-> touched,
                                    hidden |-> hidden]
<1> DEFINE new == [action |-> Action, answer |-> r, touched |-> touched,
                                    hidden |-> hidden]
<1>1. new \in Memo
  BY DEF Memo, TypeOK
<1>2. memo' = Append(memo, new)
  BY DEF Record
<1>3. /\ memo' \in Seq(Memo) /\ Len(memo') = Len(memo) + 1 /\ memo'[Len(memo')] = new
      /\ \A i \in 1..Len(memo) : memo'[i] = memo[i]
  BY <1>1, <1>2 DEF TypeOK
<1>4. memo' # <<>>
  BY <1>3 DEF TypeOK
<1>5. Action' = After(new.action, new.answer)
  BY <1>3, <1>4 DEF Action, After
<1>6. QED BY <1>3, <1>5

\* Settling takes the attempt's answer back to user code, or sends the step again.
Settleable(r) ==
  /\ r \in Answer
  /\ r.error = "retryable" /\ Action \in NonRepeatable => effects[Action] <= crashes + opaque
  /\ touched /\ ~hidden => r.error \in {"none", "ambiguous", "invalid"}
  /\ Action = "process.list" /\ r.error = "none" /\ ~r.found => effects["process.start"] = 0

LEMMA RecordKeeps ==
  ASSUME SandboxInv, Busy, NEW r, Settleable(r), Record(r), at' = "idle", polling' = FALSE,
         UNCHANGED <<userVars, status, effects, faults, crashes, opaque>>
  PROVE  Places' /\ Ahead' /\ Honest' /\ AtMostOnce' /\ PlainErrorsAreTrue'
<1>1. Action \in Actions
  BY ActionType DEF SandboxInv, Busy
<1>2. /\ memo' \in Seq(Memo)
      /\ Len(memo') = Len(memo) + 1
      /\ Action' = After(Action, r)
      /\ \A i \in 1..Len(memo) : memo'[i] = memo[i]
      /\ memo'[Len(memo')] = [action |-> Action, answer |-> r, touched |-> touched,
                                    hidden |-> hidden]
  BY <1>1, RecordMoves DEF SandboxInv, Settleable, userVars
<1>3. touched' = FALSE /\ hidden' = FALSE
  BY DEF Record
<1>4. Places' /\ Honest' /\ AtMostOnce'
  BY <1>3 DEF Places, Honest, SandboxInv, AtMostOnce
<1>5. Ahead'
  <2>1. job \in {"exec", "process.start"}
    BY DEF SandboxInv, TypeOK
  <2>2. ASSUME Action' \in {"create", "waitUntilRunning"}
        PROVE  \A x \in NonRepeatable : effects[x] = 0
    <3>1. Action = "create"
      BY <1>1, <1>2, <2>1, <2>2 DEF After, Actions, SafeRepeat, NonRepeatable
    <3>2. QED BY <3>1 DEF SandboxInv, Ahead
  <2>3. ASSUME Action' \in {"process.start", "process.list"}
        PROVE  effects["process.signal"] = 0
    <3>1. Action \in {"create", "waitUntilRunning", "process.start", "process.list"}
      BY <1>1, <1>2, <2>1, <2>3 DEF After, Actions, SafeRepeat, NonRepeatable
    <3>2. QED BY <3>1 DEF SandboxInv, Ahead, NonRepeatable
  <2>4. ASSUME Action' \in NonRepeatable
        PROVE  effects[Action'] <= crashes + opaque
    <3>1. crashes \in Nat /\ opaque \in Nat
      BY DEF SandboxInv, TypeOK
    <3>2. CASE Action \in {"create", "waitUntilRunning"}
      BY <2>4, <3>1, <3>2 DEF SandboxInv, Ahead
    <3>3. CASE Action \in {"process.start", "process.list"} /\ Action' = "process.signal"
      BY <3>1, <3>3 DEF SandboxInv, Ahead
    <3>4. CASE Action = "process.list" /\ Action' = "process.start"
      BY <1>2, <3>1, <3>4 DEF Settleable, After
    <3>5. QED
      BY <1>1, <1>2, <2>1, <2>4, <3>2, <3>3, <3>4 DEF After, Actions, SafeRepeat, NonRepeatable
  <2>5. QED BY <2>2, <2>3, <2>4 DEF Ahead
<1>6. PlainErrorsAreTrue'
  BY <1>2 DEF PlainErrorsAreTrue, SandboxInv, Settleable, TypeOK
<1>7. QED BY <1>4, <1>5, <1>6

LEMMA AnswerTypes ==
  /\ Fine \in Answer
  /\ \A e \in Errors : Err(e) \in Answer
  /\ \A s \in Statuses : Resource(s) \in Answer
  BY DEF Fine, Err, Resource, Answer, Errors

LEMMA SettleTypes ==
  ASSUME SandboxInv, Busy, NEW r, Settleable(r), Settle(r)
  PROVE  TypeOK'
<1>1. /\ at' = "idle" /\ polling' = FALSE /\ ref' = "none" /\ expired' = FALSE /\ answer' = Fine
      /\ UNCHANGED <<userVars, status, effects, faults, crashes, opaque>>
  BY DEF Settle
<1>2. /\ memo' \in Seq(Memo) /\ Len(memo') <= MaxSteps
      /\ attempt' \in 0..(MaxAttempts - 1)
      /\ touched' \in BOOLEAN /\ hidden' \in BOOLEAN
  <2>1. CASE Record(r)
    <3>1. memo' \in Seq(Memo) /\ Len(memo') = Len(memo) + 1
      BY <1>1, <2>1, ActionType, RecordMoves DEF SandboxInv, Settleable, userVars, Busy
    <3>2. attempt' = 0 /\ touched' = FALSE /\ hidden' = FALSE
      BY <2>1 DEF Record
    <3>3. Len(memo) \in Nat /\ Len(memo) < MaxSteps /\ Len(memo') <= MaxSteps
      BY <3>1, SandboxBounds DEF SandboxInv, TypeOK, Busy
    <3>4. attempt' \in 0..(MaxAttempts - 1)
      BY <3>2, SandboxBounds
    <3>5. touched' \in BOOLEAN /\ hidden' \in BOOLEAN
      BY <3>2
    <3>6. QED BY <3>1, <3>3, <3>4, <3>5
  <2>2. CASE attempt + 1 < MaxAttempts /\ attempt' = attempt + 1 /\ UNCHANGED <<memo, touched, hidden>>
    BY <2>2, SandboxBounds DEF SandboxInv, TypeOK
  <2>3. QED BY <2>1, <2>2 DEF Settle
<1>3. QED BY <1>1, <1>2, AnswerTypes DEF SandboxInv, TypeOK, userVars, failVars

LEMMA SettleKeeps ==
  ASSUME SandboxInv, Busy, NEW r, Settleable(r), Settle(r)
  PROVE  SandboxInv'
<1>1. TypeOK'
  BY SettleTypes
<1>2. CASE Record(r)
  BY <1>1, <1>2, RecordKeeps DEF Settle, SandboxInv
<1>3. CASE r.error = "retryable" /\ UNCHANGED <<memo, touched, hidden>>
  <2>1. Action' = Action
    BY <1>3 DEF Action, After, Settle, userVars
  <2>2. QED
    BY <1>1, <1>3, <2>1
    DEF SandboxInv, Settle, Settleable, Places, Ahead, Honest, AtMostOnce, PlainErrorsAreTrue
<1>4. QED BY <1>2, <1>3 DEF Settle

-----------------------------------------------------------------------------
(* The loop of waitUntilSandboxRunning.                                    *)

LEMMA ActionStays ==
  ASSUME UNCHANGED <<userVars, memo>>
  PROVE  Action' = Action /\ (Busy <=> Busy')
  BY DEF Action, After, Busy, userVars

\* An action that may be repeated settles with anything but an empty list.
LEMMA SafeSettles ==
  ASSUME SandboxInv, NEW r \in Answer, Action \in {"create", "waitUntilRunning"}
  PROVE  Settleable(r)
  BY DEF Settleable, SandboxInv, Places, NonRepeatable

LEMMA LoopKeeps ==
  ASSUME SandboxInv, Busy, Action \in {"create", "waitUntilRunning"},
         NEW s \in Statuses \cup {"none"}, Loop(s)
  PROVE  SandboxInv'
<1>1. CASE s = "RUNNING" /\ Settle(Resource(s))
  BY <1>1, AnswerTypes, SafeSettles, SettleKeeps DEF Statuses
<1>2. CASE Settle(Err("plain"))
  BY <1>2, AnswerTypes, SafeSettles, SettleKeeps DEF Errors
<1>3. CASE /\ at' = IF polling THEN "asleep" ELSE "sent"
           /\ polling' = TRUE /\ ref' = s /\ answer' = Fine
           /\ UNCHANGED <<userVars, memo, attempt, expired, apiVars, faults, failVars>>
  <2>1. Action' = Action /\ Busy'
    BY <1>3, ActionStays
  <2>2. TypeOK'
    BY <1>3, AnswerTypes DEF SandboxInv, TypeOK, userVars, apiVars, failVars
  <2>3. ~touched
    BY DEF SandboxInv, Places, NonRepeatable
  <2>4. QED
    BY <1>3, <2>1, <2>2, <2>3
    DEF SandboxInv, Places, Ahead, Honest, AtMostOnce, PlainErrorsAreTrue, apiVars, failVars, NonRepeatable
<1>4. QED BY <1>1, <1>2, <1>3 DEF Loop

-----------------------------------------------------------------------------
(* Requests.                                                               *)

\* What the API does: at most one effect, of the action sent, which its answer does not
\* deny; a list that finds nothing is right.
LEMMA DoesEffects ==
  ASSUME SandboxInv, at = "sent", NEW x \in Answer, Does(x)
  PROVE  /\ status' \in Statuses \cup {"none"}
         /\ \/ UNCHANGED <<effects, touched>>
            \/ /\ Action \in NonRepeatable /\ x = Fine /\ touched' = TRUE
               /\ effects' = [effects EXCEPT ![Action] = @ + 1]
         /\ x.error \in {"none", "plain"}
         /\ Action = "process.list" /\ ~x.found => effects["process.start"] = 0
<1>1. Places /\ TypeOK /\ (polling => Request = "get") /\ (~polling => Request = Action)
  BY DEF SandboxInv, Request
<1>2. status' \in Statuses \cup {"none"}
  BY <1>1 DEF Does, Statuses, Starting, TypeOK, apiVars
<1>3. \/ UNCHANGED <<effects, touched>>
      \/ /\ Action \in NonRepeatable /\ x = Fine /\ touched' = TRUE
         /\ effects' = [effects EXCEPT ![Action] = @ + 1]
  BY <1>1 DEF Does, NonRepeatable, apiVars
<1>4. x.error \in {"none", "plain"}
  BY DEF Does, Fine, Resource, Err
<1>5. ASSUME Action = "process.list", ~x.found
      PROVE  effects["process.start"] = 0
  <2>1. Request = "process.list"
    BY <1>1, <1>5 DEF Places
  <2>2. ~(effects["process.start"] > 0)
    BY <1>5, <2>1 DEF Does, Fine, NonRepeatable
  <2>3. effects["process.start"] \in Nat
    BY <1>1 DEF TypeOK, NonRepeatable
  <2>4. QED BY <2>2, <2>3
<1>6. QED BY <1>2, <1>3, <1>4, <1>5

\* An answer is the API's own, or admits what it does not know.
Answerable(y) ==
  \/ UNCHANGED apiVars /\ y.error # "none"
  \/ \E x \in Answer :
       /\ Does(x)
       /\ y = x \/ y.error \in {"ambiguous", "invalid"} \/ y = TransportFailure

LEMMA AnswersKeeps ==
  ASSUME SandboxInv, at = "sent", NEW y \in Answer, Answerable(y), Answers(y),
         UNCHANGED <<userVars, memo, attempt, polling, ref, expired, failVars>>,
         faults' \in 0..MaxFaults
  PROVE  SandboxInv'
<1>1. Action' = Action /\ Busy' /\ Busy
  BY ActionStays DEF SandboxInv, Places
<1>2. at' = "answered" /\ answer' = y
  BY DEF Answers
<1>3. TypeOK /\ Places /\ Ahead /\ Honest /\ AtMostOnce /\ PlainErrorsAreTrue
  BY DEF SandboxInv
<1>4. CASE UNCHANGED apiVars /\ y.error # "none"
  <2>1. TypeOK'
    BY <1>2, <1>3, <1>4 DEF TypeOK, userVars, apiVars, failVars
  <2>2. Places' /\ Ahead' /\ Honest' /\ AtMostOnce' /\ PlainErrorsAreTrue'
    BY <1>1, <1>2, <1>3, <1>4
    DEF Places, Ahead, Honest, AtMostOnce, PlainErrorsAreTrue, apiVars, failVars, NonRepeatable
  <2>3. QED BY <2>1, <2>2 DEF SandboxInv
<1>5. ASSUME NEW x \in Answer, Does(x),
             y = x \/ y.error \in {"ambiguous", "invalid"} \/ y = TransportFailure
      PROVE  SandboxInv'
  <2>1. /\ status' \in Statuses \cup {"none"}
        /\ x.error \in {"none", "plain"}
        /\ Action = "process.list" /\ ~x.found => effects["process.start"] = 0
    BY <1>5, DoesEffects
  <2>2. y.error = "none" => y = x
    BY <1>5 DEF TransportFailure, Err, Fine
  <2>3. crashes \in Nat /\ opaque \in Nat /\ effects \in [NonRepeatable -> Nat]
    BY <1>3 DEF TypeOK
  <2>4. CASE UNCHANGED <<effects, touched>>
    <3>1. TypeOK'
      BY <1>2, <1>3, <2>1, <2>4 DEF TypeOK, userVars, failVars
    <3>2. Places' /\ Ahead' /\ Honest' /\ AtMostOnce' /\ PlainErrorsAreTrue'
      BY <1>1, <1>2, <1>3, <2>1, <2>2, <2>4
      DEF Places, Ahead, Honest, AtMostOnce, PlainErrorsAreTrue, failVars, NonRepeatable
    <3>3. QED BY <3>1, <3>2 DEF SandboxInv
  <2>5. CASE /\ Action \in NonRepeatable /\ x = Fine /\ touched' = TRUE
             /\ effects' = [effects EXCEPT ![Action] = @ + 1]
    <3>1. effects' \in [NonRepeatable -> Nat]
      BY <2>3, <2>5
    <3>2. y.error \in {"none", "ambiguous", "invalid"}
      BY <1>5, <2>5 DEF Fine, TransportFailure, Err, SafeRepeat, NonRepeatable
    <3>3. TypeOK'
      BY <1>2, <1>3, <2>1, <2>5, <3>1 DEF TypeOK, userVars, failVars
    <3>4. effects[Action] <= crashes + opaque
      BY <1>3, <2>5 DEF Ahead
    <3>5. \A z \in NonRepeatable : effects'[z] <= 1 + crashes + opaque
      BY <1>3, <2>3, <2>5, <3>4 DEF AtMostOnce
    <3>6. Ahead'
      BY <1>1, <1>2, <1>3, <2>3, <2>5, <3>2 DEF Ahead, failVars, NonRepeatable
    <3>7. Places' /\ Honest' /\ AtMostOnce' /\ PlainErrorsAreTrue'
      BY <1>1, <1>2, <1>3, <2>5, <3>2, <3>5
      DEF Places, Honest, AtMostOnce, PlainErrorsAreTrue, failVars, NonRepeatable
    <3>8. QED BY <3>3, <3>6, <3>7 DEF SandboxInv
  <2>6. QED BY <1>5, <2>4, <2>5, DoesEffects
<1>6. QED BY <1>4, <1>5 DEF Answerable

\* An answer without the API's envelope claims nothing that the history does not allow for.
LEMMA OpaqueKeeps ==
  ASSUME SandboxInv, Opaque
  PROVE  SandboxInv'
<1>1. at = "sent" /\ Action' = Action /\ Busy' /\ Busy
  BY ActionStays DEF SandboxInv, Places, Opaque
<1>2. TypeOK /\ Places /\ Ahead /\ Honest /\ AtMostOnce /\ PlainErrorsAreTrue
  BY DEF SandboxInv
<1>3. /\ faults' \in 0..MaxFaults
      /\ UNCHANGED <<userVars, memo, attempt, polling, ref, expired, crashes>>
  BY <1>2, SandboxBounds DEF Opaque, Fault, TypeOK
<1>4. PICK error \in {"plain", "retryable"} :
        /\ at' = "answered" /\ answer' = Err(error)
        /\ opaque' = IF error = "retryable" /\ effects' # effects THEN opaque + 1 ELSE opaque
  BY DEF Opaque, Answers
<1>5. answer' \in Answer /\ answer'.error = error
  BY <1>4, AnswerTypes DEF Errors, Err, Fine
<1>6. hidden' = (hidden \/ effects' # effects)
  BY DEF Opaque
<1>7. crashes \in Nat /\ opaque \in Nat /\ effects \in [NonRepeatable -> Nat]
  BY <1>2 DEF TypeOK
<1>8. /\ status' \in Statuses \cup {"none"}
      /\ \/ UNCHANGED <<effects, touched>>
         \/ /\ Action \in NonRepeatable /\ touched' = TRUE
            /\ effects' = [effects EXCEPT ![Action] = @ + 1]
  BY <1>1, <1>2, DoesEffects DEF Opaque, apiVars, TypeOK
<1>9. CASE UNCHANGED <<effects, touched>>
  <2>1. opaque' = opaque /\ hidden' = hidden
    BY <1>2, <1>4, <1>6, <1>9 DEF TypeOK
  <2>2. TypeOK'
    BY <1>2, <1>3, <1>4, <1>5, <1>8, <1>9, <2>1 DEF TypeOK, userVars
  <2>3. Places' /\ Ahead' /\ Honest' /\ AtMostOnce' /\ PlainErrorsAreTrue'
    BY <1>1, <1>2, <1>3, <1>4, <1>5, <1>9, <2>1
    DEF Places, Ahead, Honest, AtMostOnce, PlainErrorsAreTrue, NonRepeatable
  <2>4. QED BY <2>2, <2>3 DEF SandboxInv
<1>10. CASE /\ Action \in NonRepeatable /\ touched' = TRUE
            /\ effects' = [effects EXCEPT ![Action] = @ + 1]
  <2>1. effects' \in [NonRepeatable -> Nat] /\ effects' # effects
    BY <1>7, <1>10
  <2>2. /\ hidden' = TRUE /\ opaque' \in Nat /\ opaque' >= opaque
        /\ error = "retryable" => opaque' = opaque + 1
    <3>1. hidden' = TRUE
      BY <1>2, <1>6, <2>1, Zenon DEF TypeOK
    <3>2. QED BY <1>4, <1>7, <2>1, <3>1
  <2>3. TypeOK'
    BY <1>2, <1>3, <1>4, <1>5, <1>8, <1>10, <2>1, <2>2 DEF TypeOK, userVars
  <2>4. effects[Action] <= crashes + opaque
    BY <1>1, <1>2, <1>10 DEF Ahead
  <2>5. AtMostOnce'
    <3>1. ASSUME NEW z \in NonRepeatable
          PROVE  effects'[z] <= 1 + crashes + opaque
      BY <1>2, <1>7, <1>10, <2>4, <3>1 DEF AtMostOnce
    <3>2. QED BY <1>3, <1>7, <2>1, <2>2, <3>1 DEF AtMostOnce
  <2>6. Ahead'
    <3>1. answer'.error = "retryable" => effects'[Action] <= crashes + opaque'
      BY <1>5, <1>7, <1>10, <2>2, <2>4
    <3>2. \A z \in NonRepeatable : z # Action => effects'[z] = effects[z]
      BY <1>7, <1>10
    <3>3. QED
      BY <1>1, <1>2, <1>3, <1>4, <1>5, <1>10, <3>1, <3>2 DEF Ahead, NonRepeatable
  <2>7. Places' /\ Honest' /\ PlainErrorsAreTrue'
    BY <1>1, <1>2, <1>3, <1>4, <1>10, <2>2 DEF Places, Honest, PlainErrorsAreTrue
  <2>8. QED BY <2>3, <2>5, <2>6, <2>7 DEF SandboxInv
<1>11. QED BY <1>8, <1>9, <1>10

-----------------------------------------------------------------------------
(* Every step.                                                             *)

LEMMA StepKeeps ==
  ASSUME SandboxInv, Step
  PROVE  SandboxInv'
<1>1. TypeOK /\ Places /\ Ahead /\ Honest
  BY DEF SandboxInv
<1>2. CASE Begin
  <2>1. CASE Action = "waitUntilRunning"
    <3>1. Loop(Target) /\ Busy
      BY <1>2, <2>1 DEF Begin
    <3>2. memo # <<>>
      BY <2>1 DEF Action
    <3>3. Target \in Statuses \cup {"none"}
      <4>1. memo[Len(memo)] \in Memo
        BY <1>1, <3>2 DEF TypeOK
      <4>2. QED BY <4>1 DEF Target, Memo, Answer
    <3>4. QED BY <2>1, <3>1, <3>3, LoopKeeps
  <2>2. CASE Action # "waitUntilRunning"
    <3>1. /\ at = "idle" /\ Busy /\ at' = "sent"
          /\ UNCHANGED <<userVars, memo, attempt, polling, ref, expired, answer, apiVars,
                         faults, failVars>>
      BY <1>2, <2>2 DEF Begin
    <3>2. Action' = Action /\ Busy'
      BY <3>1, ActionStays
    <3>3. TypeOK'
      BY <1>1, <3>1 DEF TypeOK, userVars, apiVars, failVars
    <3>4. QED
      BY <1>1, <3>1, <3>2, <3>3
      DEF SandboxInv, Places, Ahead, Honest, AtMostOnce, PlainErrorsAreTrue, apiVars, failVars
  <2>3. QED BY <2>1, <2>2
<1>3. CASE Wakes
  <2>1. at = "asleep" /\ Busy /\ Action \in {"create", "waitUntilRunning"}
    BY <1>1, <1>3 DEF Wakes, Places, TypeOK
  <2>2. CASE Settle(Err("plain"))
    BY <2>1, <2>2, AnswerTypes, SafeSettles, SettleKeeps DEF Errors
  <2>3. CASE /\ at' = "sent"
             /\ UNCHANGED <<userVars, memo, attempt, polling, ref, expired, answer, apiVars, faults, failVars>>
    <3>1. Action' = Action /\ Busy'
      BY <2>1, <2>3, ActionStays
    <3>2. TypeOK'
      BY <1>1, <2>3 DEF TypeOK, userVars, apiVars, failVars
    <3>3. QED
      BY <1>1, <2>1, <2>3, <3>1, <3>2
      DEF SandboxInv, Places, Ahead, Honest, AtMostOnce, PlainErrorsAreTrue, apiVars, failVars, NonRepeatable
  <2>4. QED BY <1>3, <2>2, <2>3 DEF Wakes
<1>4. CASE Polled
  <2>1. Busy /\ Action \in {"create", "waitUntilRunning"} /\ answer \in Answer
    BY <1>1, <1>4 DEF Polled, Places, TypeOK
  <2>2. ref \in Statuses \cup {"none"} /\ answer.status \in Statuses \cup {"none"}
    BY <1>1, <2>1 DEF TypeOK, Answer
  <2>3. QED
    BY <1>4, <2>1, <2>2, LoopKeeps, SafeSettles, SettleKeeps DEF Polled
<1>5. CASE Created
  <2>1. Busy /\ Action = "create" /\ answer \in Answer /\ Loop(answer.status)
    BY <1>1, <1>5 DEF Created, Places, TypeOK
  <2>2. answer.status \in Statuses \cup {"none"}
    BY <2>1 DEF Answer
  <2>3. QED BY <2>1, <2>2, LoopKeeps
<1>6. CASE Returned
  <2>1. Busy /\ answer \in Answer /\ at = "answered" /\ Settle(answer)
    BY <1>1, <1>6 DEF Returned, Places, TypeOK
  <2>2. Settleable(answer)
    BY <1>1, <2>1 DEF Settleable, Ahead, Honest
  <2>3. QED BY <2>1, <2>2, SettleKeeps
<1>7. QED BY <1>2, <1>3, <1>4, <1>5, <1>6 DEF Step

\* Every way a request ends is an answer of the API, or admits what it does not know.
LEMMA RequestKeeps ==
  ASSUME SandboxInv, Serve \/ Lost \/ Unanswered \/ Refuse \/ Unsure \/ Invalid
  PROVE  SandboxInv'
<1>1. \A kind : Fault(kind) => faults' \in 0..MaxFaults
  BY SandboxBounds DEF Fault, SandboxInv, TypeOK
<1>2. faults \in 0..MaxFaults
  BY DEF SandboxInv, TypeOK
<1>3. TransportFailure \in Answer /\ TransportFailure.error # "none"
  BY DEF TransportFailure, Err, Fine, Answer, Errors
<1>4. CASE Serve
  <2>1. PICK x \in Answer : Does(x) /\ Answers(x)
    BY <1>4 DEF Serve
  <2>2. Answerable(x)
    BY <2>1 DEF Answerable
  <2>3. QED BY <1>2, <1>4, <2>1, <2>2, AnswersKeeps DEF Serve
<1>5. CASE Lost
  BY <1>1, <1>3, <1>5, AnswersKeeps DEF Lost, Answerable
<1>6. CASE Unanswered
  <2>1. Answerable(TransportFailure)
    BY <1>6 DEF Unanswered, Answerable
  <2>2. QED BY <1>1, <1>3, <1>6, <2>1, AnswersKeeps DEF Unanswered
<1>7. CASE Refuse
  <2>1. Err("retryable") \in Answer /\ Answerable(Err("retryable"))
    BY <1>7, AnswerTypes DEF Refuse, Answerable, Errors, Err, Fine
  <2>2. QED BY <1>1, <1>7, <2>1, AnswersKeeps DEF Refuse
<1>8. CASE Unsure
  <2>1. Err("ambiguous") \in Answer /\ Err("ambiguous").error = "ambiguous"
    BY AnswerTypes DEF Errors, Err, Fine
  <2>2. Answerable(Err("ambiguous"))
    BY <1>8, <2>1 DEF Unsure, Answerable
  <2>3. QED BY <1>1, <1>8, <2>1, <2>2, AnswersKeeps DEF Unsure
<1>9. CASE Invalid
  <2>1. Err("invalid") \in Answer /\ Err("invalid").error = "invalid"
    BY AnswerTypes DEF Errors, Err, Fine
  <2>2. Answerable(Err("invalid"))
    BY <1>9, <2>1 DEF Invalid, Answerable
  <2>3. QED BY <1>1, <1>9, <2>1, <2>2, AnswersKeeps DEF Invalid
<1>10. QED BY <1>4, <1>5, <1>6, <1>7, <1>8, <1>9

\* What happens by itself: the deadline, the sandbox, a worker that dies.
LEMMA OtherKeeps ==
  ASSUME SandboxInv, Expires \/ Moves \/ Crash
  PROVE  SandboxInv'
<1>1. TypeOK /\ Places /\ Ahead /\ Honest /\ AtMostOnce /\ PlainErrorsAreTrue
  BY DEF SandboxInv
<1>2. CASE Expires
  <2>1. Action' = Action /\ Busy' = Busy
    BY <1>2 DEF Expires, Action, After, Busy, userVars
  <2>2. QED
    BY <1>1, <1>2, <2>1
    DEF Expires, SandboxInv, TypeOK, Places, Ahead, Honest, AtMostOnce, PlainErrorsAreTrue,
        userVars, apiVars, failVars
<1>3. CASE Moves
  <2>1. Action' = Action /\ Busy' = Busy
    BY <1>3 DEF Moves, Action, After, Busy, userVars
  <2>2. faults' \in 0..MaxFaults /\ status' \in Statuses \cup {"none"}
    BY <1>1, <1>3, SandboxBounds DEF Moves, Fault, TypeOK, Statuses, Starting
  <2>3. TypeOK'
    BY <1>1, <1>3, <2>2 DEF Moves, TypeOK, userVars, stepVars, failVars
  <2>4. QED
    BY <1>1, <1>3, <2>1, <2>3
    DEF Moves, SandboxInv, Places, Ahead, Honest, AtMostOnce, PlainErrorsAreTrue, stepVars,
        failVars
<1>4. CASE Crash
  <2>1. Action' = Action /\ Busy' = Busy
    BY <1>4 DEF Crash, Action, After, Busy, userVars
  <2>2. crashes' = crashes + 1 /\ opaque' = opaque /\ faults' = faults + 1 /\ faults' \in 0..MaxFaults
    BY <1>1, <1>4, SandboxBounds DEF Crash, Fault, TypeOK
  <2>3. crashes \in Nat /\ opaque \in Nat /\ effects \in [NonRepeatable -> Nat]
    BY <1>1 DEF TypeOK
  <2>4. \A x \in NonRepeatable : effects[x] <= crashes' + opaque'
    BY <1>1, <2>2, <2>3 DEF AtMostOnce
  <2>5. TypeOK'
    <3>1. crashes' \in Nat /\ hidden' \in BOOLEAN /\ opaque' = opaque
      BY <1>1, <1>4, <2>2, <2>3 DEF Crash, TypeOK
    <3>2. answer' \in Answer /\ at' = "idle" /\ polling' = FALSE /\ ref' = "none" /\ expired' = FALSE
      BY <1>4, AnswerTypes DEF Crash
    <3>3. UNCHANGED <<job, timeout, memo, attempt, status, effects, touched>>
      BY <1>4 DEF Crash, userVars, apiVars, failVars
    <3>4. QED BY <1>1, <2>2, <3>1, <3>2, <3>3 DEF TypeOK
  <2>6. Places' /\ Honest' /\ AtMostOnce' /\ PlainErrorsAreTrue'
    <3>1. touched' => hidden'
      BY <1>4 DEF Crash, apiVars
    <3>2. \A x \in NonRepeatable : effects'[x] <= 1 + crashes' + opaque'
      BY <1>4, <2>2, <2>3, <2>4 DEF Crash, apiVars
    <3>3. QED
      BY <1>1, <1>4, <2>1, <3>1, <3>2
      DEF Crash, Places, Honest, AtMostOnce, PlainErrorsAreTrue, apiVars
  <2>7. Ahead'
    BY <1>1, <1>4, <2>1, <2>2, <2>4 DEF Crash, Ahead, apiVars
  <2>8. QED BY <2>5, <2>6, <2>7 DEF SandboxInv
<1>5. QED BY <1>2, <1>3, <1>4

LEMMA SandboxInvariant == Spec => []SandboxInv
<1>1. Init => SandboxInv
  <2>1. ASSUME Init PROVE SandboxInv
    <3>1. Action = "create"
      BY <2>1 DEF Init, Action
    <3>2. TypeOK
      <4>1. memo \in Seq(Memo) /\ Len(memo) <= MaxSteps
        BY <2>1, SandboxBounds DEF Init
      <4>2. attempt \in 0..(MaxAttempts - 1) /\ faults \in 0..MaxFaults
            /\ crashes \in Nat /\ opaque \in Nat
        BY <2>1, SandboxBounds DEF Init
      <4>3. effects \in [NonRepeatable -> Nat]
        BY <2>1 DEF Init
      <4>4. QED BY <2>1, <4>1, <4>2, <4>3, AnswerTypes DEF Init, TypeOK
    <3>3. Places /\ Ahead /\ Honest /\ AtMostOnce /\ PlainErrorsAreTrue
      BY <2>1, <3>1
      DEF Init, Places, Ahead, Honest, AtMostOnce, PlainErrorsAreTrue, NonRepeatable
    <3>4. QED BY <3>2, <3>3 DEF SandboxInv
  <2>2. QED BY <2>1
<1>2. SandboxInv /\ [Next]_vars => SandboxInv'
  <2>1. ASSUME SandboxInv, Next PROVE SandboxInv'
    BY <2>1, StepKeeps, RequestKeeps, OpaqueKeeps, OtherKeeps DEF Next
  <2>2. ASSUME SandboxInv, UNCHANGED vars PROVE SandboxInv'
    <3>1. Action' = Action /\ Busy' = Busy
      BY <2>2 DEF vars, Action, After, Busy, userVars
    <3>2. QED
      BY <2>2, <3>1
      DEF vars, SandboxInv, TypeOK, Places, Ahead, Honest, AtMostOnce, PlainErrorsAreTrue,
          userVars, stepVars, apiVars, failVars
  <2>3. QED BY <2>1, <2>2
<1>3. QED BY <1>1, <1>2, PTL DEF Spec

-----------------------------------------------------------------------------

\* The function, its step, its sandbox and the answers stay within their types, whatever the
\* faults (components/sandbox/client.ts, durable.ts).
THEOREM SandboxTypeCorrect == Spec => []TypeOK
  BY SandboxInvariant, PTL DEF SandboxInv

\* exec, process.start and process.signal are done once for every step of the function,
\* whatever requests and answers are lost, and once more only for a worker that died, or for
\* an answer without the API's envelope that was retryable though the action was done
\* (safeRepeatActions, transportFailure and throwResponseError of client.ts).
THEOREM SandboxActsOnce == Spec => []AtMostOnce
  BY SandboxInvariant, PTL DEF SandboxInv

\* An error that is neither ambiguous nor about the form of an answer means that nothing was
\* done, in every step whose worker has not died, nor had an answer without envelope, after it
\* was (errorFromItem and transportFailure of client.ts).
THEOREM SandboxErrorsAreTrue == Spec => []PlainErrorsAreTrue
  BY SandboxInvariant, PTL DEF SandboxInv

=============================================================================
