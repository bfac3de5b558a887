------------------------------- MODULE StepIds -------------------------------
(***************************************************************************)
(* Which id a call of a step tool gets, and whose result it receives: the  *)
(* step handler of components/execution/engine.ts (stepHandler,            *)
(* applyMiddlewareToStep, resolveStepIdCollision, reportNextTick) with the *)
(* middleware of components/middleware/manager.ts around a step.           *)
(*                                                                         *)
(* User code may give several calls the same id.  The engine numbers them  *)
(* in the order they are made, and memoizes results by the resulting id,   *)
(* so each request of a run must find the calls in the same order.  A      *)
(* middleware may rename a step (transformStepInput) and make a step of    *)
(* its own before the step it wraps (wrapStep).                            *)
(*                                                                         *)
(* User code is a constant, as in module Execution; it and the middleware  *)
(* are prompt: between two steps they await nothing but microtasks.        *)
(***************************************************************************)
EXTENDS Naturals, Sequences, FiniteSets, SequencesExt

CONSTANTS
  Program,    \* the calls, in the order user code makes those it reaches together
  NoCall,
  CallAfter,  \* [Calls -> SUBSET SUBSET Calls]: {} for the calls a middleware makes
  Id,         \* [Calls -> Ids]: the id the call is made with
  Renamed,    \* [Calls -> Ids]: what transformStepInput makes of that id
  Prepended,  \* [Calls -> Calls \cup {NoCall}]: the call wrapStep makes before next()
  Waits,      \* the calls without a function to run: sleep, waitForEvent, invoke, ...
  Modes,      \* values of `checkpointing`
  MaxFaults   \* bound: requests that fail or come late

Calls == {Program[i] : i \in DOMAIN Program}

\* An id is a sequence: "a" is <<"a">>, and "a:1" is <<"a", 1>>, whether the user
\* wrote it or it is "a" with an index (STEP_INDEXING_SUFFIX).
NoId == <<>>
Indexed(base, i) == Append(base, i)
Bases == {Id[k] : k \in Calls} \cup {Renamed[k] : k \in Calls}

ASSUME ProgramAssumption == /\ Program \in Seq(Calls)
                            /\ NoCall \notin Calls
                            /\ CallAfter \in [Calls -> SUBSET SUBSET Calls]
                            /\ Waits \subseteq Calls
                            /\ Prepended \in [Calls -> Calls \cup {NoCall}]
ASSUME IdAssumption == /\ DOMAIN Id = Calls /\ DOMAIN Renamed = Calls
                       /\ \A b \in Bases : b = [i \in 1 .. Len(b) |-> b[i]] /\ Len(b) \in Nat \ {0}
ASSUME BoundsAssumption == Modes \subseteq BOOLEAN /\ MaxFaults \in Nat

VARIABLES
  checkpointing, \* the function has not opted out of it
  done,       \* server: results in the order they were made, with the call whose body made them
  planned,    \* server: steps it has been told of, with the call that told
  jobs,       \* server: requests it owes
  ended,      \* server: the run has ended
  faults,
  req,        \* the request being served, or Idle
  remaining,  \* remainingStepCompletionOrder
  known,      \* keys of state.stepState
  expected,   \* expectedNextStepIndexes; 0: none
  registered, \* state.steps: calls in the order of steps.set, the last of an id counts
  stage,      \* how far each call has come
  stepId,     \* its id
  applying,   \* calls in applyMiddlewareToStep
  found,      \* foundStepsToReport
  ticking,    \* foundStepsReportPromise is pending
  report,     \* steps of a steps-found checkpoint the core loop has not taken
  got         \* the call whose body made the value a call's promise settled with

serverVars == <<done, planned, jobs, ended>>
claimVars == <<expected, registered, stepId, applying>>
requestVars == <<req, remaining, known, claimVars, stage, found, ticking, report, got>>
vars == <<checkpointing, serverVars, faults, requestVars>>

Stages == {"uncalled", "applying", "wrapping", "found", "unwrapping", "settled"}
Idle == [on |-> FALSE, step |-> NoId, len |-> 0, die |-> FALSE]
Job(step, len, die) == [on |-> TRUE, step |-> step, len |-> len, die |-> die]

-----------------------------------------------------------------------------
(* Server and requests.  A request carries a prefix of the results, not    *)
(* always all of them: it may overlap with others.                         *)

IdsOf(results) == {results[i].id : i \in DOMAIN results}
PlannedIds == {p.id : p \in planned}
MadeBy(results, id) == (CHOOSE r \in ToSet(results) : r.id = id).by

\* The server sends a discovery request after each result, and disables immediate
\* execution while other steps are under way.
Discovery(results) == Job(NoId, Len(results), PlannedIds \ IdsOf(results) # {})

\* The last discovery request stands for all that are owed.
Owe(owed) ==
  jobs' = owed \cup {j \in jobs : j.step = NoId => \A k \in owed : k.step # NoId}

Fresh(order) ==
  /\ remaining' = order /\ known' = ToSet(order)
  /\ expected' = [b \in Bases |-> 0]
  /\ registered' = <<>> /\ applying' = <<>> /\ found' = {} /\ report' = {}
  /\ stage' = [k \in Calls |-> "uncalled"] /\ stepId' = [k \in Calls |-> NoId]
  /\ got' = [k \in Calls |-> NoCall] /\ ticking' = FALSE

StartRequest ==
  /\ ~req.on /\ ~ended
  /\ \E j \in jobs : \E n \in j.len .. Len(done) :
       LET order == [i \in 1 .. n |-> done[i].id]
       IN /\ j.step \notin ToSet(order)
          /\ req' = j /\ jobs' = jobs \ {j}
          /\ Fresh(order)
  /\ UNCHANGED <<checkpointing, done, planned, ended, faults>>

\* A discovery request of an earlier result comes late, or twice.
LateRequest ==
  /\ ~req.on /\ ~ended /\ faults < MaxFaults
  /\ faults' = faults + 1
  /\ \E n \in 0 .. Len(done) - 1, die \in BOOLEAN :
       /\ req' = Job(NoId, n, die)
       /\ Fresh([i \in 1 .. n |-> done[i].id])
  /\ UNCHANGED <<checkpointing, serverVars>>

EndRequest(owed) == req' = Idle /\ Owe(owed) /\ Fresh(<<>>)

RequestFails ==
  /\ req.on /\ faults < MaxFaults
  /\ faults' = faults + 1
  /\ EndRequest({req})
  /\ UNCHANGED <<checkpointing, done, planned, ended>>

\* A sleep is over, an event has come, an invoked function has returned.  A request
\* under way does not see it: between two requests is soon enough.
WaitEnds ==
  /\ ~req.on /\ ~ended
  /\ \E p \in planned :
       /\ p.by \in Waits /\ p.id \notin IdsOf(done)
       /\ done' = Append(done, p)
       /\ Owe({Discovery(done')})
  /\ UNCHANGED <<checkpointing, planned, ended, faults, requestVars>>

-----------------------------------------------------------------------------
(* Ids: resolveStepIdCollision.                                            *)

Taken(id) == \E i \in DOMAIN registered : stepId[registered[i]] = id
NextIndex(base) == IF expected[base] = 0 THEN 1 ELSE expected[base]

\* Mutant: the index itself is not checked against the steps there are.
FirstIndex(base) == NextIndex(base)

FreeIndex(base) ==
  CHOOSE i \in NextIndex(base) .. NextIndex(base) + Len(registered) :
    /\ ~Taken(Indexed(base, i))
    /\ \A j \in NextIndex(base) .. i - 1 : Taken(Indexed(base, j))

Numbered(base) == [id |-> Indexed(base, FreeIndex(base)), next |-> FreeIndex(base) + 1]

\* Mutant: a call that is still being prepared is overlooked.
ClaimRegistered(base) == IF ~Taken(base) THEN [id |-> base, next |-> 1] ELSE Numbered(base)

Claim(base) ==
  IF ~Taken(base) /\ expected[base] = 0 THEN [id |-> base, next |-> 1] ELSE Numbered(base)

-----------------------------------------------------------------------------
(* User code and middleware.                                               *)

Settled == {k \in Calls : stage[k] = "settled"}
InWrap(k) == \E w \in Calls : Prepended[w] = k /\ stage[w] \in {"wrapping", "unwrapping"}
Ready(k) ==
  /\ stage[k] = "uncalled"
  /\ InWrap(k) \/ \E A \in CallAfter[k] : A \subseteq Settled
UserWaits == \A k \in Calls : ~Ready(k)

\* The tool calls the step handler, which claims an id before it awaits anything.
CallStep ==
  /\ req.on
  /\ \E i \in DOMAIN Program :
       LET k == Program[i]
       IN /\ Ready(k) /\ \A j \in 1 .. i - 1 : ~Ready(Program[j])
          /\ stepId' = [stepId EXCEPT ![k] = Claim(Id[k]).id]
          /\ expected' = [expected EXCEPT ![Id[k]] = Claim(Id[k]).next]
          /\ stage' = [stage EXCEPT ![k] = "applying"]
          /\ applying' = Append(applying, k)
  /\ UNCHANGED <<checkpointing, serverVars, faults, req, remaining, known, registered, found, ticking,
                 report, got>>

\* pushStepToReport: the map is keyed by id.
Pushed(k, id) == {c \in found : stepId[c] # id} \cup {k}

\* Mutant: a step is found before its middleware has called next().
WrapsNever(k, memoized) == FALSE

\* wrapStep of a step that is new and has a function runs at once, and the step is
\* found when it calls next(); any other step is found as it is.
Wraps(k, memoized) == ~memoized /\ k \notin Waits /\ Prepended[k] # NoCall

ApplyMiddleware ==
  /\ req.on /\ UserWaits /\ applying # <<>>
  /\ LET k == Head(applying)
         claim == IF Renamed[k] = Id[k] THEN [id |-> stepId[k], next |-> expected[Id[k]]]
                                        ELSE Claim(Renamed[k])
         wraps == Wraps(k, claim.id \in known)
     IN /\ stepId' = [stepId EXCEPT ![k] = claim.id]
        /\ expected' = [expected EXCEPT ![Renamed[k]] = claim.next]
        /\ registered' = Append(registered, k)
        /\ applying' = Tail(applying)
        /\ stage' = [stage EXCEPT ![k] = IF wraps THEN "wrapping" ELSE "found"]
        /\ found' = IF wraps THEN found ELSE Pushed(k, claim.id)
        /\ ticking' = (ticking \/ ~wraps)
  /\ UNCHANGED <<checkpointing, serverVars, faults, req, remaining, known, report, got>>

\* The promise of a call settles; the middleware that awaits it goes on to next(),
\* which finds the wrapped step or settles it too.
Settle(k, results) ==
  LET wrapping == {w \in Calls : Prepended[w] = k /\ stage[w] = "wrapping"}
      settling == {k} \cup {w \in Calls : Prepended[w] = k /\ stage[w] = "unwrapping"}
  IN /\ stage' = [c \in Calls |-> IF c \in settling THEN "settled"
                                  ELSE IF c \in wrapping THEN "found" ELSE stage[c]]
     /\ got' = [c \in Calls |-> IF c \in settling THEN MadeBy(results, stepId[c]) ELSE got[c]]
     /\ found' = {c \in found : \A w \in wrapping : stepId[c] # stepId[w]} \cup wrapping

-----------------------------------------------------------------------------
(* Reporting: reportNextTick.                                              *)

Prepared == req.on /\ UserWaits /\ applying = <<>>
Handleable ==
  {i \in DOMAIN remaining : \E k \in found : stage[k] = "found" /\ stepId[k] = remaining[i]}

\* Mutant: the first step found is handled first.
HandleFirstFound ==
  /\ Prepared /\ ticking
  /\ \E n \in DOMAIN registered, i \in Handleable :
       LET k == registered[n]
           Handled(m) == \E j \in Handleable : /\ registered[m] \in found /\ stage[registered[m]] = "found"
                                              /\ stepId[registered[m]] = remaining[j]
       IN /\ Handled(n) /\ stepId[k] = remaining[i] /\ \A m \in 1 .. n - 1 : ~Handled(m)
          /\ remaining' = RemoveAt(remaining, i)
          /\ IF Prepended[k] # NoCall
               THEN stage' = [stage EXCEPT ![k] = "unwrapping"] /\ UNCHANGED <<found, got>>
               ELSE Settle(k, done)
  /\ UNCHANGED <<checkpointing, serverVars, faults, req, known, claimVars, ticking, report>>

\* One memoized step a tick: of those found, the one the server lists first.  Its
\* wrapStep runs now, so that what it prepends is called only here.
HandleMemoized ==
  /\ Prepared /\ ticking
  /\ \E i \in Handleable :
       /\ \A j \in Handleable : i <= j
       /\ remaining' = RemoveAt(remaining, i)
       /\ \E k \in found :
            /\ stage[k] = "found" /\ stepId[k] = remaining[i]
            /\ IF Prepended[k] # NoCall
                 THEN stage' = [stage EXCEPT ![k] = "unwrapping"] /\ UNCHANGED <<found, got>>
                 ELSE Settle(k, done)
  /\ UNCHANGED <<checkpointing, serverVars, faults, req, known, claimVars, ticking, report>>

ReportFound ==
  /\ Prepared /\ ticking /\ Handleable = {}
  /\ ticking' = FALSE
  /\ report' = report \cup found /\ found' = {}
  /\ UNCHANGED <<checkpointing, serverVars, faults, req, remaining, known, claimVars, stage, got>>

-----------------------------------------------------------------------------
(* The core loop.                                                          *)

NewSteps == {k \in report : stepId[k] \notin known}
EarlyStep == ~req.die /\ Cardinality(NewSteps) = 1 /\ NewSteps \cap Waits = {}
Live == checkpointing /\ req.step = NoId /\ ~req.die
Recorded(k) == Append(done, [id |-> stepId[k], by |-> k])

\* The requested step runs, or a step runs early, and its result is the answer; the
\* server keeps the first result of an id.
StepRan ==
  /\ req.on
  /\ \E k \in report \ Waits :
       /\ IF req.step # NoId THEN stepId[k] = req.step ELSE EarlyStep /\ k \in NewSteps
       /\ Live => stepId[k] \in IdsOf(done)
       /\ done' = IF stepId[k] \in IdsOf(done) THEN done ELSE Recorded(k)
       /\ EndRequest({Discovery(done')})
  /\ UNCHANGED <<checkpointing, planned, ended, faults>>

\* Checkpointing: the result is recorded and the request goes on with it.  It is the
\* last step registered with that id that resumes.
StepResumes ==
  /\ req.on /\ Live /\ EarlyStep
  /\ \E k \in NewSteps :
       /\ stepId[k] \notin IdsOf(done)
       /\ done' = Recorded(k)
       /\ known' = known \cup {stepId[k]}
       /\ \E n \in DOMAIN registered :
            /\ stepId[registered[n]] = stepId[k]
            /\ \A m \in DOMAIN registered : m > n => stepId[registered[m]] # stepId[k]
            /\ Settle(registered[n], done')
  /\ ticking' = (found' # {})
  /\ report' = {}
  /\ UNCHANGED <<checkpointing, planned, jobs, ended, faults, req, remaining, claimVars>>

\* maybeReturnNewSteps: the new steps are the answer.
StepsPlanned ==
  /\ req.on /\ req.step = NoId /\ NewSteps # {} /\ ~EarlyStep
  /\ LET new == {k \in NewSteps : stepId[k] \notin PlannedIds \cup IdsOf(done)}
     IN /\ planned' = planned \cup {[id |-> stepId[k], by |-> k] : k \in new}
        /\ EndRequest({Job(stepId[k], Len(done), FALSE) : k \in new \ Waits})
  /\ UNCHANGED <<checkpointing, done, ended, faults>>

\* Nothing in the report is for this request.
NothingToDo ==
  /\ req.on /\ report # {}
  /\ IF req.step # NoId THEN \A k \in report \ Waits : stepId[k] # req.step ELSE NewSteps = {}
  /\ report' = {}
  /\ UNCHANGED <<checkpointing, serverVars, faults, req, remaining, known, claimVars, stage, found,
                 ticking, got>>

\* A requested step that is not found in time is answered as such; it always is found
\* here, or the run would stop and RunCompletes fail.

FunctionReturns ==
  /\ req.on /\ req.step = NoId /\ \A k \in Calls : CallAfter[k] # {} => stage[k] = "settled"
  /\ ended' = TRUE
  /\ req' = Idle /\ jobs' = {} /\ Fresh(<<>>)
  /\ UNCHANGED <<checkpointing, done, planned, faults>>

-----------------------------------------------------------------------------
Init ==
  /\ checkpointing \in Modes
  /\ done = <<>> /\ planned = {} /\ jobs = {Job(NoId, 0, FALSE)} /\ ended = FALSE /\ faults = 0
  /\ req = Idle /\ remaining = <<>> /\ known = {} /\ expected = [b \in Bases |-> 0]
  /\ registered = <<>> /\ applying = <<>> /\ found = {} /\ report = {} /\ ticking = FALSE
  /\ stage = [k \in Calls |-> "uncalled"] /\ stepId = [k \in Calls |-> NoId]
  /\ got = [k \in Calls |-> NoCall]

SdkStep ==
  \/ CallStep \/ ApplyMiddleware \/ HandleMemoized \/ ReportFound
  \/ StepRan \/ StepResumes \/ StepsPlanned \/ NothingToDo \/ FunctionReturns

Next == StartRequest \/ LateRequest \/ WaitEnds \/ RequestFails \/ SdkStep

Spec == Init /\ [][Next]_vars

\* JavaScript's queues are served, the server sends what it owes and ends the waits.
FairSpec == Spec /\ WF_vars(SdkStep) /\ WF_vars(StartRequest) /\ WF_vars(WaitEnds)

-----------------------------------------------------------------------------
(* What step ids are for.                                                  *)

\* A call only ever receives the result its own body has made, in whichever request,
\* and no body makes two: calls that share an id are told apart in the same way by
\* every request (resolveStepIdCollision, the completion order of reportNextTick).
OwnResult ==
  /\ \A k \in Calls : got[k] \in {k, NoCall}
  /\ \A i, j \in DOMAIN done : done[i].by = done[j].by => i = j

\* Two calls of a request never have the same id: the second would take the first's
\* place in state.steps, and the first would never settle.
OneIdPerCall ==
  \A k, l \in Calls : stage[k] # "uncalled" /\ stage[l] # "uncalled" /\ stepId[k] = stepId[l] => k = l

\* What a middleware does before next() is done before the step it wraps has run.
PrependedFirst ==
  \A i \in DOMAIN done :
    LET k == done[i].by
    IN k \notin Waits /\ Prepended[k] # NoCall => \E j \in 1 .. i - 1 : done[j].by = Prepended[k]

\* The run ends: every call of user code settles in the end.
RunCompletes == <>ended
=============================================================================
