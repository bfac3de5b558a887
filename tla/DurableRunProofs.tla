-------------------------- MODULE DurableRunProofs --------------------------
(***************************************************************************)
(* Proofs about module DurableRun, for all values of its constants.        *)
(***************************************************************************)
EXTENDS DurableRun, FiniteSetTheorems, SequenceTheorems, TLAPS

\* The conjuncts of the type invariant that the core loop's helpers establish.
CoreOK ==
  /\ pc \in Pc
  /\ lazy \subseteq Defers
  /\ timers \subseteq {"runtime", "interval", "notfound"}
  /\ response \in Response

\* Batches: the empty one, and what each update of one yields.
LEMMA EmptyBatchType == EmptyBatch \in Batch
<1>1. <<>> \in Seq(Result)
  OBVIOUS
<1>2. QED
  BY <1>1 DEF EmptyBatch, Batch, EndKind

LEMMA BatchTypes ==
  ASSUME NEW ran \in Seq(Result), NEW plan \in SUBSET Steps, NEW defers \in SUBSET Defers,
         NEW end \in EndKind
  PROVE  /\ [EmptyBatch EXCEPT !.ran = ran] \in Batch
         /\ [EmptyBatch EXCEPT !.end = end] \in Batch
         /\ [EmptyBatch EXCEPT !.defers = defers] \in Batch
         /\ [EmptyBatch EXCEPT !.ran = ran, !.defers = defers] \in Batch
         /\ [EmptyBatch EXCEPT !.plan = plan, !.defers = defers] \in Batch
         /\ [EmptyBatch EXCEPT !.end = end, !.defers = defers] \in Batch
         /\ [EmptyBatch EXCEPT !.defers = defers, !.end = end] \in Batch
         /\ [EmptyBatch EXCEPT !.ran = ran, !.defers = defers, !.end = end] \in Batch
  BY EmptyBatchType DEF Batch

LEMMA OneResult == \A result \in Result : <<result>> \in Seq(Result)
  OBVIOUS

LEMMA PcAtType ==
  ASSUME NEW at \in Location \ {"exec"}
  PROVE  PcAt(at) \in Pc
  BY DEF PcAt, Pc, Location, Continuation, ResultKind

\* Returning a well-typed response keeps the core loop well typed.
LEMMA ReturnType ==
  ASSUME NEW type \in ResponseType, NEW batch \in Batch, NEW retriable \in BOOLEAN,
         Return(type, batch, retriable)
  PROVE  /\ pc' \in Pc
         /\ timers' \subseteq {"runtime", "interval", "notfound"}
         /\ response' \in Response
  BY PcAtType DEF Return, Response, Location

\* Taking a checkpoint off the queue leaves a queue of checkpoints.
LEMMA TakeCheckpointType ==
  ASSUME TypeOK, NEW type, TakeCheckpoint(type)
  PROVE  queue' \in Seq(Checkpoint) /\ Head(queue) \in Checkpoint
  BY DEF TypeOK, TakeCheckpoint

LEMMA StepRanType ==
  ASSUME NEW result \in Result, StepRan(result)
  PROVE  /\ pc' \in Pc
         /\ timers' \subseteq {"runtime", "interval", "notfound"}
         /\ response' \in Response
<1>1. [EmptyBatch EXCEPT !.ran = <<result>>] \in Batch
  BY OneResult, BatchTypes DEF EndKind
<1>2. QED
  BY <1>1, ReturnType DEF StepRan, ResponseType

LEMMA MaybeReturnNewStepsType ==
  ASSUME TypeOK, NEW steps \in SUBSET Steps, MaybeReturnNewSteps(steps)
  PROVE  CoreOK'
<1>1. [EmptyBatch EXCEPT !.plan = PlannedSteps(steps), !.defers = lazy] \in Batch
  BY BatchTypes, EmptyBatchType DEF Batch, PlannedSteps, NewSteps, TypeOK
<1>2. CASE PlannedSteps(steps) \cup lazy = {}
  BY <1>2, PcAtType DEF Location, MaybeReturnNewSteps, TypeOK, CoreOK
<1>3. CASE PlannedSteps(steps) \cup lazy # {}
  BY <1>1, <1>3, ReturnType DEF MaybeReturnNewSteps, ResponseType, CoreOK
<1>4. QED
  BY <1>2, <1>3

LEMMA RejectType ==
  ASSUME NEW final \in BOOLEAN, NEW defers \in SUBSET Defers, Reject(final, defers)
  PROVE  /\ pc' \in Pc
         /\ timers' \subseteq {"runtime", "interval", "notfound"}
         /\ response' \in Response
<1> DEFINE batch == [EmptyBatch EXCEPT !.defers = defers, !.end = IF final THEN "failed" ELSE "error"]
<1>1. batch \in Batch
  BY EmptyBatchType DEF EndKind, Batch
<1>2. CASE final
  BY <1>1, <1>2, ReturnType DEF Reject, ResponseType
<1>3. CASE ~final
  BY <1>1, <1>3, ReturnType DEF Reject, ResponseType
<1>4. QED
  BY <1>2, <1>3

LEMMA StartCheckpointType ==
  ASSUME TypeOK, NEW continuation \in Pc, StartCheckpoint(continuation)
  PROVE  CoreOK'
<1>1. [continuation EXCEPT !.at = "checkpoint", !.defers = lazy] \in Pc
  BY DEF Pc, Location, TypeOK
<1>2. QED
  BY <1>1 DEF StartCheckpoint, TypeOK, CoreOK

LEMMA StartStepType ==
  ASSUME TypeOK, NEW s \in Steps, StartStep(s)
  PROVE  CoreOK'
<1>1. [PcAt("exec") EXCEPT !.step = s] \in Pc
  BY DEF PcAt, Pc, Location, Continuation, ResultKind
<1>2. QED
  BY <1>1 DEF StartStep, TypeOK, CoreOK

-----------------------------------------------------------------------------
(* Each operation of the engine preserves its type invariant.              *)

LEMMA SetCheckpointType ==
  ASSUME TypeOK, NEW c \in Checkpoint, SetCheckpoint(c)
  PROVE  queue' \in Seq(Checkpoint)
  BY DEF TypeOK, SetCheckpoint

LEMMA CheckpointOfType == \A type \in CheckpointType : CheckpointOf(type) \in Checkpoint
  BY DEF CheckpointOf, Checkpoint

LEMMA UserCallsType == ASSUME TypeOK, UserCalls PROVE TypeOK'
<1>1. PICK C \in SUBSET ReadyCalls :
        /\ found' = found \cup (C \cap Steps)
        /\ toReport' = toReport \cup (C \cap Steps)
        /\ ticking' = (ticking \/ C \cap Steps # {})
        /\ lazy' = lazy \cup ((C \cap Defers) \ priorDefers)
        /\ seenDefers' = seenDefers \cup (C \cap Defers)
  BY DEF UserCalls
<1>2. ticking' \in BOOLEAN
  BY <1>1 DEF TypeOK
<1>3. QED
  BY <1>1, <1>2 DEF UserCalls, TypeOK, requestVars

LEMMA FunctionReturnsType == ASSUME TypeOK, FunctionReturns PROVE TypeOK'
<1>1. queue' \in Seq(Checkpoint)
  BY SetCheckpointType, CheckpointOfType DEF FunctionReturns, CheckpointType
<1>2. QED
  BY <1>1 DEF FunctionReturns, TypeOK, requestVars, shipVars

LEMMA FunctionThrowsType == ASSUME TypeOK, FunctionThrows PROVE TypeOK'
<1>1. \A f \in BOOLEAN : [CheckpointOf("function-rejected") EXCEPT !.final = f] \in Checkpoint
  BY CheckpointOfType DEF Checkpoint, CheckpointType
<1>2. queue' \in Seq(Checkpoint)
  BY <1>1, SetCheckpointType DEF FunctionThrows
<1>3. QED
  BY <1>2 DEF FunctionThrows, TypeOK, requestVars, shipVars

LEMMA HandleMemoizedType == ASSUME TypeOK, HandleMemoized PROVE TypeOK'
<1>1. PICK i \in Handleable : resolved' = Append(resolved, order[i])
  BY DEF HandleMemoized
<1>2. order[i] \in Steps
  BY DEF Handleable, TypeOK
<1>3. resolved' \in Seq(Steps)
  BY <1>1, <1>2 DEF TypeOK
<1>4. QED
  BY <1>3 DEF HandleMemoized, TypeOK, requestVars, shipVars

LEMMA ReportFoundType == ASSUME TypeOK, ReportFound PROVE TypeOK'
<1>1. [CheckpointOf("steps-found") EXCEPT !.steps = toReport] \in Checkpoint
  BY CheckpointOfType DEF Checkpoint, CheckpointType, TypeOK
<1>2. queue' \in Seq(Checkpoint)
  BY <1>1 DEF ReportFound, TypeOK
<1>3. QED
  BY <1>2 DEF ReportFound, TypeOK, requestVars, shipVars

LEMMA TimerFiresType == ASSUME TypeOK, TimerFires PROVE TypeOK'
<1>1. PICK t \in timers : /\ timers' = timers \ {t}
                          /\ SetCheckpoint(CheckpointOf(TimerCheckpoint[t]))
  BY DEF TimerFires
<1>2. TimerCheckpoint[t] \in CheckpointType
  BY DEF TimerCheckpoint, CheckpointType, TypeOK
<1>3. queue' \in Seq(Checkpoint)
  BY <1>1, <1>2, SetCheckpointType, CheckpointOfType
<1>4. QED
  BY <1>1, <1>3 DEF TimerFires, TypeOK, requestVars, userVars, shipVars

\* Immediate execution picks a step of the roll-up.
LEMMA EarlyStepType ==
  ASSUME NEW steps \in SUBSET Steps, EarlyStep(steps) # NoStep
  PROVE  EarlyStep(steps) \in Steps
<1>1. Cardinality(NewSteps(steps)) = 1
  BY DEF EarlyStep
<1>2. NewSteps(steps) # {}
  BY <1>1, FS_EmptySet
<1>3. QED
  BY <1>1, <1>2 DEF EarlyStep, NewSteps

LEMMA HeadStepsType ==
  ASSUME TypeOK, NEW type, TakeCheckpoint(type)
  PROVE  Head(queue).steps \in SUBSET Steps /\ Head(queue).final \in BOOLEAN
  BY TakeCheckpointType DEF Checkpoint

LEMMA AsyncStepsFoundType == ASSUME TypeOK, AsyncStepsFound PROVE TypeOK'
<1> DEFINE steps == Head(queue).steps
<1>1. queue' \in Seq(Checkpoint) /\ steps \in SUBSET Steps
  BY TakeCheckpointType, HeadStepsType DEF AsyncStepsFound
<1>2. CoreOK'
  <2>1. CASE StepToRun(steps) # NoStep
    <3>1. StepToRun(steps) \in Steps
      BY <1>1, <2>1, EarlyStepType DEF StepToRun
    <3>2. QED
      BY <2>1, <3>1, StartStepType DEF AsyncStepsFound
  <2>2. CASE StepToRun(steps) = NoStep
    BY <1>1, <2>2, MaybeReturnNewStepsType DEF AsyncStepsFound
  <2>3. QED
    BY <2>1, <2>2
<1>3. QED
  BY <1>1, <1>2 DEF AsyncStepsFound, TypeOK, CoreOK, requestVars, userVars

LEMMA CheckpointingStepsFoundType == ASSUME TypeOK, CheckpointingStepsFound PROVE TypeOK'
<1> DEFINE steps == Head(queue).steps
           plan == IF exceeded THEN [PcAt("loop") EXCEPT !.then = "planAll"]
                   ELSE [PcAt("loop") EXCEPT !.then = "plan", !.steps = steps]
<1>1. queue' \in Seq(Checkpoint) /\ steps \in SUBSET Steps
  BY TakeCheckpointType, HeadStepsType DEF CheckpointingStepsFound
<1>2. CoreOK'
  <2>1. CASE NewSteps(steps) = {}
    BY <2>1 DEF CheckpointingStepsFound, TypeOK, CoreOK
  <2>2. CASE NewSteps(steps) # {} /\ ~exceeded /\ EarlyStep(NewSteps(steps)) # NoStep
    <3>1. EarlyStep(NewSteps(steps)) \in Steps
      BY <1>1, <2>2, EarlyStepType DEF NewSteps
    <3>2. StartStep(EarlyStep(NewSteps(steps)))
      BY <2>2 DEF CheckpointingStepsFound
    <3>3. QED
      BY <3>1, <3>2, StartStepType
  <2>3. CASE NewSteps(steps) # {} /\ ~(~exceeded /\ EarlyStep(NewSteps(steps)) # NoStep)
    <3>1. plan \in Pc
      BY <1>1 DEF PcAt, Pc, Location, Continuation, ResultKind
    <3>2. IF buffer # <<>> THEN StartCheckpoint(plan)
          ELSE MaybeReturnNewSteps(IF exceeded THEN found ELSE steps)
      BY <2>3 DEF CheckpointingStepsFound
    <3>3. (IF exceeded THEN found ELSE steps) \in SUBSET Steps
      BY <1>1 DEF TypeOK
    <3>4. QED
      BY <3>1, <3>2, <3>3, StartCheckpointType, MaybeReturnNewStepsType
  <2>4. QED
    BY <2>1, <2>2, <2>3
<1>3. QED
  BY <1>1, <1>2 DEF CheckpointingStepsFound, TypeOK, CoreOK, requestVars, userVars

LEMMA RunningStep == TypeOK /\ pc.at = "exec" => pc.step \in Steps
  BY DEF TypeOK, Pc

LEMMA AsyncStepEndsType ==
  ASSUME TypeOK, NEW kind \in ResultKind, AsyncStepEnds(kind)
  PROVE  TypeOK'
<1> DEFINE result == [step |-> pc.step, kind |-> kind]
<1>1. result \in Result /\ <<result>> \in Seq(Result)
  BY RunningStep, OneResult DEF Result, AsyncStepEnds
<1>2. [EmptyBatch EXCEPT !.ran = <<result>>, !.defers = lazy] \in Batch
  BY <1>1, BatchTypes DEF TypeOK, EndKind
<1>3. CoreOK'
  BY <1>1, <1>2, StepRanType, ReturnType DEF AsyncStepEnds, CoreOK, ResponseType
<1>4. QED
  BY <1>3 DEF AsyncStepEnds, TypeOK, CoreOK, requestVars, userVars

LEMMA CheckpointingStepThrowsType ==
  ASSUME TypeOK, NEW kind \in ResultKind, CheckpointingStepThrows(kind)
  PROVE  TypeOK'
<1>1. [PcAt("loop") EXCEPT !.then = "stepRan", !.step = pc.step, !.kind = kind] \in Pc
  BY RunningStep DEF CheckpointingStepThrows, PcAt, Pc, Location, Continuation
<1>2. [step |-> pc.step, kind |-> kind] \in Result
  BY RunningStep DEF Result, CheckpointingStepThrows
<1>3. CoreOK'
  BY <1>1, <1>2, StartCheckpointType, StepRanType DEF CheckpointingStepThrows, TypeOK, CoreOK
<1>4. QED
  BY <1>3 DEF CheckpointingStepThrows, TypeOK, CoreOK, requestVars, userVars

LEMMA CheckpointingStepEndsType ==
  ASSUME TypeOK, CheckpointingStepEnds
  PROVE  TypeOK'
<1>1. [step |-> pc.step, kind |-> "ok"] \in Result
  BY RunningStep DEF Result, ResultKind, CheckpointingStepEnds
<1>2. CASE req.attempt > 0
  BY <1>1, <1>2, StepRanType DEF CheckpointingStepEnds, TypeOK, requestVars
<1>3. CASE ~(req.attempt > 0)
  <2>1. ResumeUser(BufferedSteps)
    BY <1>3 DEF CheckpointingStepEnds
  <2>2. /\ stepState' \in [Steps -> StepValue]
        /\ resolved' \in Seq(Steps)
        /\ buffer' \in Seq(Result)
    BY <1>1, <2>1, RunningStep DEF CheckpointingStepEnds, ResumeUser, TypeOK, StepValue
  <2>3. [PcAt("loop") EXCEPT !.then = "loop"] \in Pc
    BY DEF PcAt, Pc, Location, Continuation, ResultKind
  <2>4. CoreOK'
    BY <2>1, <2>3, PcAtType, StartCheckpointType DEF Location, ResumeUser, TypeOK, CoreOK
  <2>5. QED
    BY <2>2, <2>4 DEF CheckpointingStepEnds, TypeOK, CoreOK, requestVars
<1>4. QED
  BY <1>2, <1>3

LEMMA AsyncFunctionResolvedType == ASSUME TypeOK, AsyncFunctionResolved PROVE TypeOK'
<1>1. queue' \in Seq(Checkpoint)
  BY TakeCheckpointType DEF AsyncFunctionResolved
<1>2. /\ [EmptyBatch EXCEPT !.plan = PlannedSteps(found), !.defers = lazy] \in Batch
      /\ [EmptyBatch EXCEPT !.defers = lazy, !.end = "complete"] \in Batch
  <2>1. PlannedSteps(found) \in SUBSET Steps /\ lazy \in SUBSET Defers /\ "complete" \in EndKind
    BY DEF PlannedSteps, NewSteps, TypeOK, EndKind
  <2>2. <<>> \in Seq(Result) /\ buffer \in Seq(Result)
    BY DEF TypeOK
  <2>3. QED
    BY <2>1, <2>2, BatchTypes
<1>3. CoreOK'
  BY <1>2, ReturnType DEF AsyncFunctionResolved, CoreOK, ResponseType
<1>4. QED
  BY <1>1, <1>3 DEF AsyncFunctionResolved, TypeOK, CoreOK, requestVars, userVars

LEMMA CheckpointingFunctionResolvedType ==
  ASSUME TypeOK, CheckpointingFunctionResolved
  PROVE  TypeOK'
<1> DEFINE complete == [EmptyBatch EXCEPT !.ran = buffer, !.defers = lazy, !.end = "complete"]
<1>1. queue' \in Seq(Checkpoint)
  BY TakeCheckpointType DEF CheckpointingFunctionResolved, ResolvedAs
<1>2. /\ [EmptyBatch EXCEPT !.plan = PlannedSteps(found), !.defers = lazy] \in Batch
      /\ complete \in Batch
  <2>1. PlannedSteps(found) \in SUBSET Steps /\ lazy \in SUBSET Defers /\ "complete" \in EndKind
    BY DEF PlannedSteps, NewSteps, TypeOK, EndKind
  <2>2. <<>> \in Seq(Result) /\ buffer \in Seq(Result)
    BY DEF TypeOK
  <2>3. QED
    BY <2>1, <2>2, BatchTypes
<1>3. CoreOK'
  BY <1>2, ReturnType DEF CheckpointingFunctionResolved, ResolvedAs, CoreOK, ResponseType
<1>4. QED
  BY <1>1, <1>3 DEF CheckpointingFunctionResolved, ResolvedAs, TypeOK, CoreOK, requestVars, userVars

LEMMA AsyncFunctionRejectedType == ASSUME TypeOK, AsyncFunctionRejected PROVE TypeOK'
<1>1. queue' \in Seq(Checkpoint)
  BY TakeCheckpointType DEF AsyncFunctionRejected
<1>2. Head(queue).final \in BOOLEAN
  BY HeadStepsType DEF AsyncFunctionRejected
<1>3. CoreOK'
  BY <1>2, RejectType DEF AsyncFunctionRejected, CoreOK, TypeOK
<1>4. QED
  BY <1>1, <1>3 DEF AsyncFunctionRejected, TypeOK, CoreOK, requestVars, userVars

LEMMA CheckpointingFunctionRejectedType ==
  ASSUME TypeOK, CheckpointingFunctionRejected
  PROVE  TypeOK'
<1>1. queue' \in Seq(Checkpoint)
  BY TakeCheckpointType DEF CheckpointingFunctionRejected
<1>2. Head(queue).final \in BOOLEAN /\ {} \in SUBSET Defers
  BY HeadStepsType DEF CheckpointingFunctionRejected
<1>3. [PcAt("loop") EXCEPT !.then = "reject", !.final = Head(queue).final] \in Pc
  BY <1>2 DEF PcAt, Pc, Location, Continuation, ResultKind
<1>4. CoreOK'
  BY <1>2, <1>3, RejectType, StartCheckpointType DEF CheckpointingFunctionRejected, CoreOK, TypeOK
<1>5. QED
  BY <1>1, <1>4 DEF CheckpointingFunctionRejected, TypeOK, CoreOK, requestVars, userVars

LEMMA StepNotFoundType == ASSUME TypeOK, StepNotFound PROVE TypeOK'
<1>1. queue' \in Seq(Checkpoint)
  BY TakeCheckpointType DEF StepNotFound
<1>2. /\ pc' \in Pc
      /\ timers' \subseteq {"runtime", "interval", "notfound"}
      /\ response' \in Response
  BY EmptyBatchType, ReturnType DEF StepNotFound, ResponseType
<1>3. QED
  BY <1>1, <1>2 DEF StepNotFound, TypeOK, requestVars, userVars, shipVars

LEMMA RuntimeReachedType == ASSUME TypeOK, RuntimeReached PROVE TypeOK'
  BY TakeCheckpointType DEF RuntimeReached, TypeOK, requestVars, userVars, shipVars

LEMMA BufferIntervalReachedType == ASSUME TypeOK, BufferIntervalReached PROVE TypeOK'
<1>1. queue' \in Seq(Checkpoint)
  BY TakeCheckpointType DEF BufferIntervalReached
<1>2. [PcAt("loop") EXCEPT !.then = "loop"] \in Pc
  BY DEF PcAt, Pc, Location, Continuation, ResultKind
<1>3. CoreOK'
  BY <1>2, StartCheckpointType DEF BufferIntervalReached
<1>4. QED
  BY <1>1, <1>3 DEF BufferIntervalReached, TypeOK, CoreOK, requestVars, userVars

LEMMA EngineStepType == ASSUME TypeOK, EngineStep PROVE TypeOK'
  BY UserCallsType, FunctionReturnsType, FunctionThrowsType, HandleMemoizedType, ReportFoundType,
     TimerFiresType, AsyncStepsFoundType, CheckpointingStepsFoundType, AsyncFunctionResolvedType,
     CheckpointingFunctionResolvedType, AsyncFunctionRejectedType,
     CheckpointingFunctionRejectedType, StepNotFoundType, RuntimeReachedType,
     BufferIntervalReachedType
  DEF EngineStep

\* Whatever follows a checkpoint call keeps the core loop well typed.
LEMMA ContinueType ==
  ASSUME TypeOK, Continue
  PROVE  CoreOK'
<1>0. pc \in Pc
  BY DEF TypeOK
<1>1. /\ pc.steps \in SUBSET Steps /\ pc.kind \in ResultKind /\ pc.final \in BOOLEAN
      /\ found \in SUBSET Steps /\ {} \in SUBSET Defers
  BY <1>0 DEF TypeOK, Pc
<1>2. CASE pc.then = "loop"
  BY <1>2, PcAtType DEF Location, Continue, CoreOK, TypeOK
<1>3. CASE pc.then = "plan"
  BY <1>1, <1>3, MaybeReturnNewStepsType DEF Continue
<1>4. CASE pc.then = "planAll"
  BY <1>1, <1>4, MaybeReturnNewStepsType DEF Continue
<1>5. CASE pc.then = "stepRan"
  <2>1. [step |-> pc.step, kind |-> pc.kind] \in Result
    BY <1>1, <1>5 DEF Result, TypeOK, Pc
  <2>2. QED
    BY <1>5, <2>1, StepRanType DEF Continue, CoreOK, TypeOK
<1>6. CASE pc.then \notin {"loop", "plan", "planAll", "stepRan"}
  BY <1>1, <1>6, RejectType DEF Continue, CoreOK, TypeOK
<1>7. QED
  BY <1>2, <1>3, <1>4, <1>5, <1>6

LEMMA BodySucceedsType == ASSUME TypeOK, BodySucceeds PROVE TypeOK'
  BY CheckpointingStepEndsType, AsyncStepEndsType DEF BodySucceeds, ResultKind

LEMMA BodyThrowsType == ASSUME TypeOK, BodyThrows PROVE TypeOK'
<1>1. PICK kind \in ResultKind : AsyncStepEnds(kind) \/ CheckpointingStepThrows(kind)
  BY DEF BodyThrows, ResultKind
<1>2. QED
  BY <1>1, AsyncStepEndsType, CheckpointingStepThrowsType

LEMMA EmptyBuffer == <<>> \in Seq(Result)
  OBVIOUS

LEMMA CheckpointSucceedsType == ASSUME TypeOK, CheckpointSucceeds PROVE TypeOK'
<1>1. CoreOK'
  BY ContinueType DEF CheckpointSucceeds
<1>2. QED
  BY <1>1, EmptyBuffer DEF CheckpointSucceeds, TypeOK, CoreOK, requestVars, userVars

LEMMA CheckpointFailsType == ASSUME TypeOK, CheckpointFails PROVE TypeOK'
<1>1. CoreOK'
  <2>1. CASE buffer # <<>>
    <3>1. [EmptyBatch EXCEPT !.ran = buffer] \in Batch
      BY EmptyBatchType DEF Batch, TypeOK
    <3>2. QED
      BY <2>1, <3>1, ReturnType DEF CheckpointFails, TypeOK, CoreOK, ResponseType
  <2>2. CASE buffer = <<>>
    BY <2>2, ContinueType DEF CheckpointFails
  <2>3. QED
    BY <2>1, <2>2
<1>2. QED
  BY <1>1, EmptyBuffer DEF CheckpointFails, TypeOK, CoreOK, requestVars, userVars

LEMMA CheckpointIsStaleType == ASSUME TypeOK, CheckpointIsStale PROVE TypeOK'
<1>1. [EmptyBatch EXCEPT !.end = "failed"] \in Batch
  BY EmptyBatchType DEF Batch, EndKind
<1>2. /\ pc' \in Pc
      /\ timers' \subseteq {"runtime", "interval", "notfound"}
      /\ response' \in Response
  BY <1>1, ReturnType DEF CheckpointIsStale, ResponseType
<1>3. QED
  BY <1>2, EmptyBuffer DEF CheckpointIsStale, TypeOK, requestVars, userVars

-----------------------------------------------------------------------------
(* The composition with the server.                                        *)

LEMMA RecordResultsType ==
  ASSUME RunTypeOK, NEW batch \in Batch, RecordResults(batch)
  PROVE  /\ memo' \in [Steps -> StepValue]
         /\ completion' \in Seq(Steps)
         /\ received' \subseteq Defers
<1> DEFINE new == NewResults(batch.ran)
<1>1. new \in Seq(Result)
  BY EmptyBuffer DEF NewResults, Batch
<1>2. memo' \in [Steps -> StepValue]
  <2>1. \A kind : ValueOf(kind) \in StepValue
    BY DEF ValueOf, StepValue
  <2>2. \A s \in Steps : memo[s] \in StepValue
    BY DEF RunTypeOK
  <2>3. QED
    BY <2>1, <2>2 DEF RecordResults
<1>3. completion' \in Seq(Steps)
  <2>1. \A i \in 1 .. Len(new) : new[i].step \in Steps
    <3>1. \A i \in 1 .. Len(new) : new[i] \in Result
      BY <1>1, ElementOfSeq
    <3>2. \A r \in Result : r.step \in Steps
      BY DEF Result
    <3>3. QED
      BY <3>1, <3>2
  <2>2. /\ DOMAIN new = 1 .. Len(new)
        /\ Len(new) \in Nat
    BY <1>1
  <2>3. [i \in DOMAIN new |-> new[i].step] \in [1 .. Len(new) -> Steps]
    BY <2>1, <2>2
  <2>4. [i \in DOMAIN new |-> new[i].step] \in Seq(Steps)
    BY <2>2, <2>3, SeqDef
  <2>5. QED
    BY <2>4, ConcatProperties DEF RecordResults, RunTypeOK
<1>4. QED
  BY <1>2, <1>3 DEF RecordResults, RunTypeOK, Batch

LEMMA DispatchType == ASSUME RunTypeOK, Dispatch PROVE RunTypeOK'
<1>1. PICK item \in (planned \ Waits) \cup (IF discovery > 0 THEN {NoStep} ELSE {}) :
        StartRequest([step |-> item, attempt |-> attempts[item], die |-> planned # {}],
                     memo, completion, received)
  BY DEF Dispatch
<1> DEFINE r == [step |-> item, attempt |-> attempts[item], die |-> planned # {}]
<1>2. r \in Request
  <2>1. item \in Steps \cup {NoStep}
    BY DEF RunTypeOK
  <2>2. (planned # {}) \in BOOLEAN
    OBVIOUS
  <2>3. QED
    BY <2>1, <2>2 DEF RunTypeOK, Request
<1>3. InitialTimers(r) \subseteq {"runtime", "interval", "notfound"}
  BY OptionsAssumption DEF InitialTimers
<1>4. /\ PcAt("loop") \in Pc
      /\ NoResponse \in Response
  BY PcAtType, EmptyBatchType DEF NoResponse, Response, ResponseType, Location
<1>5. /\ <<>> \in Seq(Steps)
      /\ <<>> \in Seq(Checkpoint)
      /\ <<>> \in Seq(Result)
  OBVIOUS
<1>6. TypeOK'
  BY <1>1, <1>2, <1>3, <1>4, <1>5 DEF StartRequest, TypeOK, RunTypeOK
<1>7. history' \in History
  BY DEF Dispatch, RunTypeOK, History
<1>8. QED
  BY <1>6, <1>7 DEF Dispatch, RunTypeOK, serverVars

\* A step of the engine settles the promise of one step at most.
ResolvesOne == resolved' = resolved \/ \E s \in Steps : resolved' = Append(resolved, s)

LEMMA EngineStepResolvesOne == ASSUME TypeOK, EngineStep PROVE ResolvesOne
<1>1. CASE HandleMemoized
  BY <1>1 DEF HandleMemoized, Handleable, TypeOK, ResolvesOne
<1>2. CASE ~HandleMemoized
  BY <1>2 DEF EngineStep, ResolvesOne, UserCalls, FunctionReturns, FunctionThrows, ReportFound,
     TimerFires, AsyncStepsFound, CheckpointingStepsFound, AsyncFunctionResolved,
     CheckpointingFunctionResolved, ResolvedAs, AsyncFunctionRejected,
     CheckpointingFunctionRejected, StepNotFound, RuntimeReached, BufferIntervalReached, userVars
<1>3. QED
  BY <1>1, <1>2

LEMMA BodySucceedsResolvesOne == ASSUME TypeOK, BodySucceeds PROVE ResolvesOne
  BY RunningStep DEF BodySucceeds, CheckpointingStepEnds, AsyncStepEnds, ResumeUser, ResolvesOne,
     userVars

LEMMA SeenAfterType ==
  ASSUME TypeOK, ResolvesOne, NEW seen \in Seq(Steps)
  PROVE  SeenAfter(seen) \in Seq(Steps)
<1>1. CASE resolved' = resolved
  BY <1>1 DEF SeenAfter
<1>2. CASE resolved' # resolved
  <2>1. PICK s \in Steps : resolved' = Append(resolved, s)
    BY <1>2 DEF ResolvesOne
  <2>2. Last(resolved') = s
    BY <2>1 DEF Last, TypeOK
  <2>3. Append(seen, Last(resolved')) \in Seq(Steps)
    BY <2>2
  <2>4. QED
    BY <2>3 DEF SeenAfter
<1>3. QED
  BY <1>1, <1>2

LEMMA ObservedType ==
  ASSUME RunTypeOK, TypeOK', ResolvesOne
  PROVE  Observed(history) \in History
<1>1. SeenAfter(history.seen) \in Seq(Steps)
  BY SeenAfterType DEF RunTypeOK, History
<1>2. (IF fn = "running" THEN history.deferred \cup seenDefers' ELSE history.deferred) \in SUBSET Defers
  BY DEF RunTypeOK, TypeOK, History
<1>3. (history.notFound \/ (pc.at = "loop" /\ pc'.at = "done" /\ response'.type = "step-not-found")) \in BOOLEAN
  OBVIOUS
<1>4. (IF stale /\ pc.at # "exec" /\ pc'.at = "exec" THEN history.staleStarts + 1 ELSE history.staleStarts) \in Nat
  BY DEF RunTypeOK, History
<1>5. QED
  BY <1>1, <1>2, <1>3, <1>4 DEF Observed, RunTypeOK, History

LEMMA CappedType == \A n, bound \in Nat : Capped(n + 1, bound) \in 0 .. bound
  BY DEF Capped

LEMMA EngineMovesType == ASSUME RunTypeOK, EngineMoves PROVE RunTypeOK'
<1>1. TypeOK'
  BY EngineStepType DEF EngineMoves, RunTypeOK
<1>2. history' \in History
  BY <1>1, EngineStepResolvesOne, ObservedType DEF EngineMoves, RunTypeOK
<1>3. QED
  BY <1>1, <1>2 DEF EngineMoves, RunTypeOK, serverVars

LEMMA StepSucceedsType == ASSUME RunTypeOK, StepSucceeds PROVE RunTypeOK'
<1>1. TypeOK'
  BY BodySucceedsType DEF StepSucceeds, RunTypeOK
<1>2. pc.step \in Steps
  BY RunningStep DEF StepSucceeds, BodySucceeds, CheckpointingStepEnds, AsyncStepEnds, RunTypeOK
<1> DEFINE h == Observed(history)
<1>3. h \in History
  BY <1>1, BodySucceedsResolvesOne, ObservedType DEF StepSucceeds, RunTypeOK
<1>4. Capped(h.runs[pc.step] + 1, 2) \in 0 .. 2
  <2>1. h.runs[pc.step] \in Nat
    BY <1>2, <1>3 DEF History
  <2>2. QED
    BY <2>1, CappedType
<1>5. [h EXCEPT !.runs[pc.step] = Capped(@ + 1, 2), !.ranHere = @ \cup {pc.step}] \in History
  BY <1>2, <1>3, <1>4 DEF History
<1>6. history' \in History
  BY <1>5 DEF StepSucceeds
<1>7. QED
  BY <1>1, <1>6 DEF StepSucceeds, RunTypeOK, serverVars

LEMMA StepThrowsType == ASSUME RunTypeOK, StepThrows PROVE RunTypeOK'
<1>1. TypeOK'
  BY BodyThrowsType DEF StepThrows, RunTypeOK
<1>2. pc.step \in Steps
  BY UserCodeAssumption DEF StepThrows, BodyThrows
<1>3. Capped(history.throws[pc.step] + 1, MaxAttempts) \in 0 .. MaxAttempts
  BY <1>2, CappedType, OptionsAssumption DEF RunTypeOK, History
<1>4. history' \in History
  BY <1>2, <1>3 DEF StepThrows, RunTypeOK, History
<1>5. QED
  BY <1>1, <1>4 DEF StepThrows, RunTypeOK, serverVars

LEMMA RecordCheckpointType == ASSUME RunTypeOK, RecordCheckpoint PROVE RunTypeOK'
<1>1. CheckpointBatch \in Batch
  BY EmptyBatchType DEF CheckpointBatch, Batch, RunTypeOK, TypeOK, Pc
<1>2. /\ memo' \in [Steps -> StepValue]
      /\ completion' \in Seq(Steps)
      /\ received' \subseteq Defers
  BY <1>1, RecordResultsType DEF RecordCheckpoint
<1>3. QED
  BY <1>2 DEF RecordCheckpoint, RunTypeOK, TypeOK, engineVars, requestVars, userVars, shipVars

LEMMA CheckpointOkType == ASSUME RunTypeOK, CheckpointOk PROVE RunTypeOK'
<1>1. TypeOK'
  BY CheckpointSucceedsType DEF CheckpointOk, RunTypeOK
<1>2. QED
  BY <1>1 DEF CheckpointOk, RunTypeOK, serverVars

LEMMA CheckpointRefusedType == ASSUME RunTypeOK, CheckpointRefused PROVE RunTypeOK'
<1>1. TypeOK'
  BY CheckpointIsStaleType DEF CheckpointRefused, RunTypeOK
<1>2. QED
  BY <1>1 DEF CheckpointRefused, RunTypeOK, serverVars

LEMMA CheckpointLostType == ASSUME RunTypeOK, CheckpointLost PROVE RunTypeOK'
<1>1. TypeOK'
  BY CheckpointFailsType DEF CheckpointLost, RunTypeOK
<1>2. faults' \in 0 .. MaxFaults
  BY MaxFaultsAssumption DEF CheckpointLost, Fault, RunTypeOK
<1>3. QED
  BY <1>1, <1>2 DEF CheckpointLost, RunTypeOK, serverVars

LEMMA CrashType == ASSUME RunTypeOK, Crash PROVE RunTypeOK'
<1>1. TypeOK'
  BY PcAtType DEF Crash, RunTypeOK, TypeOK, Location, requestVars, userVars, shipVars
<1>2. faults' \in 0 .. MaxFaults
  BY MaxFaultsAssumption DEF Crash, Fault, RunTypeOK
<1>3. QED
  BY <1>1, <1>2 DEF Crash, RunTypeOK, serverVars

LEMMA GiveUpType == ASSUME RunTypeOK, GiveUp PROVE RunTypeOK'
<1>1. TypeOK'
  BY DEF GiveUp, RunTypeOK, TypeOK, engineVars, requestVars, userVars, shipVars
<1>2. faults' \in 0 .. MaxFaults
  BY MaxFaultsAssumption DEF GiveUp, Fault, RunTypeOK
<1>3. QED
  BY <1>1, <1>2 DEF GiveUp, RunTypeOK, serverVars

LEMMA RetryType ==
  ASSUME RunTypeOK, NEW item \in Steps \cup {NoStep}, Retry(item)
  PROVE  /\ attempts' \in [Steps \cup {NoStep} -> 0 .. MaxAttempts - 1]
         /\ outcome' \in {"running", "completed", "failed"}
<1>1. attempts[item] \in 0 .. MaxAttempts - 1 /\ MaxAttempts \in Nat
  BY OptionsAssumption DEF RunTypeOK
<1>2. CASE attempts[item] + 1 < MaxAttempts
  <2>1. attempts[item] + 1 \in 0 .. MaxAttempts - 1
    BY <1>1, <1>2
  <2>2. QED
    BY <1>2, <2>1 DEF Retry, RunTypeOK
<1>3. CASE ~(attempts[item] + 1 < MaxAttempts)
  BY <1>3 DEF Retry, RunTypeOK
<1>4. QED
  BY <1>2, <1>3

LEMMA ApplyResponseType == ASSUME RunTypeOK, ApplyResponse PROVE RunTypeOK'
<1> DEFINE batch == response.batch
           item == req.step
<1>1. TypeOK'
  BY PcAtType DEF ApplyResponse, RunTypeOK, TypeOK, Location, requestVars, userVars, shipVars
<1>2. batch \in Batch /\ item \in Steps \cup {NoStep}
  BY DEF RunTypeOK, TypeOK, Response, Request
<1>3. CASE stale
  BY <1>1, <1>3 DEF ApplyResponse, RunTypeOK, serverVars
<1>4. CASE ~stale
  <2>1. RecordResults(batch)
    BY <1>4 DEF ApplyResponse
  <2>2. /\ memo' \in [Steps -> StepValue]
        /\ completion' \in Seq(Steps)
        /\ received' \subseteq Defers
    BY <1>2, <2>1, RecordResultsType
  <2>3. /\ planned' \subseteq Steps
        /\ discovery' \in 0 .. 2
        /\ attempts' \in [Steps \cup {NoStep} -> 0 .. MaxAttempts - 1]
        /\ outcome' \in {"running", "completed", "failed"}
    <3>1. CASE batch.end \in {"complete", "failed"}
      BY <1>4, <3>1 DEF ApplyResponse, RunTypeOK
    <3>2. CASE /\ batch.end \notin {"complete", "failed"}
               /\ Retry(item)
               /\ UNCHANGED <<planned, discovery>>
      BY <1>2, <3>2, RetryType DEF RunTypeOK
    <3>3. CASE /\ planned' = {s \in (planned \ {item}) \cup batch.plan : memo'[s] = "none"}
               /\ discovery' = IF batch.plan = {} \/ (item = NoStep /\ discovery = 2) THEN 1
                              ELSE IF item = NoStep THEN 0 ELSE discovery
               /\ attempts' = [attempts EXCEPT ![item] = 0]
               /\ UNCHANGED outcome
      <4>1. 0 \in 0 .. MaxAttempts - 1
        BY OptionsAssumption
      <4>2. discovery' \in 0 .. 2
        BY <3>3 DEF RunTypeOK
      <4>3. QED
        BY <1>2, <3>3, <4>1, <4>2 DEF RunTypeOK, Batch
    <3>4. QED
      BY <1>4, <3>1, <3>2, <3>3 DEF ApplyResponse
  <2>4. QED
    BY <1>1, <2>2, <2>3 DEF ApplyResponse, RunTypeOK
<1>5. QED
  BY <1>3, <1>4

LEMMA WaitEndsType == ASSUME RunTypeOK, NEW s \in Waits, WaitEnds(s) PROVE RunTypeOK'
<1>1. TypeOK'
  BY DEF WaitEnds, RunTypeOK, TypeOK, engineVars, requestVars, userVars, shipVars
<1>2. s \in Steps
  BY UserCodeAssumption
<1>3. memo' \in [Steps -> StepValue]
  BY <1>2 DEF WaitEnds, RunTypeOK, StepValue
<1>4. completion' \in Seq(Steps) /\ planned' \subseteq Steps
  BY <1>2 DEF WaitEnds, RunTypeOK
<1>5. discovery' \in 0 .. 2
  BY DEF WaitEnds
<1>6. QED
  BY <1>1, <1>3, <1>4, <1>5 DEF WaitEnds, RunTypeOK

LEMMA InitType == Init => RunTypeOK
<1> SUFFICES ASSUME Init PROVE RunTypeOK
  OBVIOUS
<1>1. /\ <<>> \in Seq(Steps)
      /\ <<>> \in Seq(Checkpoint)
      /\ <<>> \in Seq(Result)
      /\ PcAt("off") \in Pc
      /\ NoResponse \in Response
      /\ 0 \in 0 .. MaxAttempts - 1
  BY PcAtType, EmptyBatchType, OptionsAssumption DEF NoResponse, Response, ResponseType, Location
<1>2. TypeOK
  BY <1>1 DEF Init, TypeOK, Request, StepValue
<1>3. history \in History
  BY <1>1, OptionsAssumption DEF Init, History
<1>4. 0 \in 0 .. MaxFaults /\ 1 \in 0 .. 2
  BY MaxFaultsAssumption
<1>5. /\ memo \in [Steps -> StepValue]
      /\ attempts \in [Steps \cup {NoStep} -> 0 .. MaxAttempts - 1]
  BY <1>1 DEF Init, StepValue
<1>6. QED
  BY <1>1, <1>2, <1>3, <1>4, <1>5 DEF Init, RunTypeOK

\* The state of the engine, of the server and of the history stays within its
\* types in every run, whatever the function, its options and the faults.
THEOREM TypeCorrect == Spec => []RunTypeOK
<1>1. RunTypeOK /\ [Next]_vars => RunTypeOK'
  <2> SUFFICES ASSUME RunTypeOK, [Next]_vars PROVE RunTypeOK'
    OBVIOUS
  <2>1. CASE Ended \/ UNCHANGED vars
    <3>1. UNCHANGED vars
      BY <2>1 DEF Ended
    <3>2. TypeOK'
      BY <3>1 DEF vars, engineVars, requestVars, userVars, shipVars, RunTypeOK, TypeOK
    <3>3. QED
      BY <3>1, <3>2 DEF vars, serverVars, RunTypeOK
  <2>2. CASE ~(Ended \/ UNCHANGED vars)
    BY <2>2, DispatchType, EngineMovesType, StepSucceedsType, StepThrowsType, RecordCheckpointType,
       CheckpointOkType, CheckpointRefusedType, ApplyResponseType, CheckpointLostType, CrashType,
       GiveUpType, WaitEndsType
    DEF Next
  <2>3. QED
    BY <2>1, <2>2
<1>2. QED
  BY InitType, <1>1, PTL DEF Spec

-----------------------------------------------------------------------------
(***************************************************************************)
(* DurableRun keeps the promise of RunPromise, whatever the user function, *)
(* its options, the bounds and the faults.  The argument is that user code *)
(* only ever goes on from results that the server has, or gets before or   *)
(* with the results of what is called next.                                *)
(***************************************************************************)
\* User code goes on from a recorded result.
Passes(m, s) == m[s] = "ok" \/ (m[s] = "err" /\ s \in Caught)

\* One of the alternatives is there, in what the server has or in the first k - 1 results.
Backed(m, ran, k, alternatives) ==
  \E A \in alternatives : \A s \in A : Passes(m, s) \/ \E j \in 1 .. k - 1 : ran[j].step = s

\* Each result is a body's, called for by what the server has and the results before it.
InOrder(m, ran) ==
  \A k \in DOMAIN ran : ran[k].step \notin Waits /\ Backed(m, ran, k, CallAfter[ran[k].step])

\* User code has called F, on the results of S.
CalledOn(F, S) == S \subseteq F /\ \A s \in F : \E A \in CallAfter[s] : A \subseteq S
ReturnsOn(S) == \E A \in ReturnAfter : A \subseteq S

\* A function that checkpoints returns after the waits it has called: one it returns
\* without is planned in the place of the results still buffered.
WaitsAwaited ==
  Checkpointing =>
    \A F \in SUBSET Steps, S \in SUBSET Steps :
      CalledOn(F, S) /\ ReturnsOn(S) => F \cap Waits \subseteq S

\* Waits that user code called on what the server has.
Due(m, waits) == WaitsAwaited => \A s \in waits \cap Waits : Backed(m, <<>>, 1, CallAfter[s])

AllOk(ran) == \A k \in DOMAIN ran : ran[k].kind = "ok"
AllNew(ran) == \A k \in DOMAIN ran : memo[ran[k].step] = "none"

\* The server: what is memoized has been completed; a run that is over is not served.
Server ==
  /\ \A s \in Steps : memo[s] # "none" <=> \E i \in DOMAIN completion : completion[i] = s
  /\ outcome # "running" => pc.at = "off"
  /\ recorded => pc.at = "checkpoint"
  /\ \A s \in planned \cap Waits : memo[s] = "none"
  /\ Due(memo, planned)

\* What user code knows, the server knows too or is still buffered; a wait may have
\* ended since the request was sent.
Known ==
  /\ \A s \in Steps : memo[s] \in {"none", stepState[s]} \/ (s \in Waits /\ stepState[s] = "none")
  /\ \A s \in Steps : stepState[s] # "none" /\ memo[s] = "none" =>
       stepState[s] = "ok" /\ \E k \in DOMAIN buffer : buffer[k].step = s
  /\ \A k \in DOMAIN buffer : stepState[buffer[k].step] = "ok"
  /\ \A i \in DOMAIN order : stepState[order[i]] # "none"
  /\ \A i \in DOMAIN resolved : stepState[resolved[i]] # "none"

\* The buffer holds results in the order user code called for them, all or none recorded.
Buffered ==
  /\ InOrder(memo, buffer) /\ AllOk(buffer)
  /\ IF recorded THEN \A k \in DOMAIN buffer : memo[buffer[k].step] = "ok" ELSE AllNew(buffer)
  /\ StepMode(req) = "Async" \/ req.attempt > 0 => buffer = <<>>

\* User code was entitled to what it called and to its end.
Entitled ==
  /\ \A s \in found : Reached(CallAfter[s])
  /\ ToSet(resolved) \cup toReport \subseteq found
  /\ \A i \in DOMAIN queue : /\ queue[i].steps \subseteq found
                             /\ queue[i].type = "function-resolved" => Reached(ReturnAfter)
  /\ pc.at = "exec" => /\ pc.step \in found \ Waits
                       /\ StepMode(req) = "AsyncCheckpointing" => stepState[pc.step] = "none"
  /\ pc.then = "stepRan" => pc.step \in found \ Waits
  /\ pc.then = "plan" => pc.steps \subseteq found

\* An answer holds results in order; the end of the run comes with all it depends on.
Answer(batch) ==
  /\ InOrder(memo, batch.ran)
  /\ AllOk(batch.ran) \/ Len(batch.ran) = 1
  /\ Due(memo, batch.plan)
  /\ batch.end = "complete" =>
       /\ AllOk(batch.ran) /\ AllNew(batch.ran)
       /\ Backed(memo, batch.ran, Len(batch.ran) + 1, ReturnAfter)

Ordered == WaitsAwaited => RecordedInProgramOrder

PromiseInv ==
  /\ Server
  /\ Ordered
  /\ Running /\ ~stale => Known /\ Buffered /\ Entitled
  /\ pc.at = "done" /\ ~stale => Answer(response.batch)

\* The bodies started since a request went stale are in the buffer, or running.
StaleInv ==
  /\ recorded => pc.at = "checkpoint"
  /\ pc.at \in {"loop", "exec"} => Len(buffer) < Max({1, BufferedSteps})
  /\ recorded \/ ~stale => history.staleStarts = 0
  /\ pc.at = "loop" => history.staleStarts <= Len(buffer)
  /\ pc.at = "exec" => history.staleStarts <= Len(buffer) + 1
  /\ StaleRunsBounded
-----------------------------------------------------------------------------
(* What the server has only grows, and so does what is backed by it.       *)

LEMMA BackedBy ==
  ASSUME NEW m, NEW m2, NEW ran, NEW k, NEW alternatives \in SUBSET SUBSET Steps,
         \A s \in Steps : Passes(m, s) => Passes(m2, s),
         Backed(m, ran, k, alternatives)
  PROVE  Backed(m2, ran, k, alternatives)
  BY DEF Backed

LEMMA Alternatives ==
  /\ \A s \in Steps : CallAfter[s] \in SUBSET SUBSET Steps
  /\ ReturnAfter \in SUBSET SUBSET Steps
  BY CallAfterAssumption, ReturnAfterAssumption

LEMMA ResultFields ==
  \A ran \in Seq(Result) : /\ DOMAIN ran = 1 .. Len(ran) /\ Len(ran) \in Nat
                           /\ \A k \in DOMAIN ran : ran[k] \in Result /\ ran[k].step \in Steps
<1>1. \A r \in Result : r.step \in Steps
  BY DEF Result
<1>2. \A ran \in Seq(Result) : /\ DOMAIN ran = 1 .. Len(ran) /\ Len(ran) \in Nat
                               /\ \A k \in DOMAIN ran : ran[k] \in Result
  OBVIOUS
<1>3. QED BY <1>1, <1>2

LEMMA InOrderBy ==
  ASSUME NEW m, NEW m2, NEW ran \in Seq(Result),
         \A s \in Steps : Passes(m, s) => Passes(m2, s),
         InOrder(m, ran)
  PROVE  InOrder(m2, ran)
<1>1. \A k \in DOMAIN ran : ran[k].step \in Steps
  BY ResultFields
<1>2. QED BY <1>1, BackedBy, Alternatives DEF InOrder

\* The settled promises user code goes on from have results that are recorded or buffered.
LEMMA SettledKnown ==
  ASSUME TypeOK, Known, NEW s \in Settled
  PROVE  s \in Steps /\ (Passes(memo, s) \/ \E k \in DOMAIN buffer : buffer[k].step = s)
<1>1. PICK i \in DOMAIN resolved : resolved[i] = s
  BY DEF Settled, ToSet
<1>2. s \in Steps /\ stepState[s] \in {"ok", "err"}
  BY <1>1 DEF Known, TypeOK, StepValue
<1>3. stepState[s] = "ok" \/ s \in Caught
  BY DEF Settled
<1>4. QED BY <1>2, <1>3 DEF Known, Passes

\* The same of what user code was entitled to: it is backed by the buffer, and by the
\* server alone when the buffer is empty or recorded.
LEMMA ReachedBacked ==
  ASSUME TypeOK, Known, NEW alternatives \in SUBSET SUBSET Steps, Reached(alternatives)
  PROVE  Backed(memo, buffer, Len(buffer) + 1, alternatives)
<1>1. PICK A \in alternatives : A \subseteq Settled
  BY DEF Reached
<1>2. DOMAIN buffer = 1 .. Len(buffer) + 1 - 1
  BY DEF TypeOK
<1>3. \A s \in A : Passes(memo, s) \/ \E j \in 1 .. Len(buffer) + 1 - 1 : buffer[j].step = s
  BY <1>1, <1>2, SettledKnown
<1>4. QED BY <1>3 DEF Backed

LEMMA ReachedRecorded ==
  ASSUME TypeOK, Known, NEW alternatives \in SUBSET SUBSET Steps, Reached(alternatives),
         \A k \in DOMAIN buffer : memo[buffer[k].step] = "ok",
         NEW ran, NEW n
  PROVE  Backed(memo, ran, n, alternatives)
<1>1. PICK A \in alternatives : A \subseteq Settled
  BY DEF Reached
<1>2. \A s \in A : Passes(memo, s)
  BY <1>1, SettledKnown DEF Passes
<1>3. QED BY <1>2 DEF Backed

LEMMA DueBy ==
  ASSUME NEW m, NEW m2, NEW waits,
         \A s \in Steps : Passes(m, s) => Passes(m2, s),
         Due(m, waits)
  PROVE  Due(m2, waits)
<1>1. Waits \subseteq Steps
  BY UserCodeAssumption
<1>2. QED BY <1>1, BackedBy, Alternatives DEF Due

-----------------------------------------------------------------------------
(* The server records a batch.                                             *)

LEMMA NewValues ==
  ASSUME RunTypeOK, NEW ran \in Seq(Result), AllOk(ran) \/ Len(ran) = 1,
         NEW k \in DOMAIN ran, NEW s, ran[k].step = s, ran[k].kind # "error"
  PROVE  LET value == ValueOf(ran[CHOOSE i \in DOMAIN ran : ran[i].step = s].kind)
         IN  value \in {"ok", "err"} /\ (AllOk(ran) => value = "ok")
<1> DEFINE i == CHOOSE i \in DOMAIN ran : ran[i].step = s
<1>1. i \in DOMAIN ran /\ ran[i].step = s
  OBVIOUS
<1>2. QED BY <1>1 DEF ValueOf, AllOk

\* What the server does with a batch of new results: it keeps what it has and adds them all.
LEMMA RecordsNew ==
  ASSUME RunTypeOK, RunTypeOK', Server, Ordered,
         NEW batch \in Batch, InOrder(memo, batch.ran), AllOk(batch.ran) \/ Len(batch.ran) = 1,
         RecordResults(batch), NewResults(batch.ran) = batch.ran,
         \A k \in DOMAIN batch.ran : batch.ran[k].kind # "error" /\ memo[batch.ran[k].step] = "none"
  PROVE  /\ \A s \in Steps : memo[s] # "none" => memo'[s] = memo[s]
         /\ \A k \in DOMAIN batch.ran : memo'[batch.ran[k].step] \in {"ok", "err"}
         /\ AllOk(batch.ran) => \A k \in DOMAIN batch.ran : memo'[batch.ran[k].step] = "ok"
         /\ \A s \in Steps : memo'[s] # memo[s] => \E k \in DOMAIN batch.ran : batch.ran[k].step = s
         /\ completion' = completion \o [i \in DOMAIN batch.ran |-> batch.ran[i].step]
<1> DEFINE ran == batch.ran
<1>1. ran \in Seq(Result) /\ \A k \in DOMAIN ran : ran[k].step \in Steps
  BY ResultFields DEF Batch
<1>2. /\ memo' = [s \in Steps |->
                   IF \E i \in DOMAIN ran : ran[i].step = s
                     THEN ValueOf(ran[CHOOSE i \in DOMAIN ran : ran[i].step = s].kind)
                     ELSE memo[s]]
      /\ completion' = completion \o [i \in DOMAIN ran |-> ran[i].step]
  BY DEF RecordResults
<1>3. \A k \in DOMAIN ran : /\ memo'[ran[k].step] \in {"ok", "err"}
                            /\ AllOk(ran) => memo'[ran[k].step] = "ok"
  <2> TAKE k \in DOMAIN ran
  <2>1. memo'[ran[k].step] = ValueOf(ran[CHOOSE i \in DOMAIN ran : ran[i].step = ran[k].step].kind)
    BY <1>1, <1>2
  <2>2. ran[k].kind # "error"
    OBVIOUS
  <2>3. LET value == ValueOf(ran[CHOOSE i \in DOMAIN ran : ran[i].step = ran[k].step].kind)
        IN  value \in {"ok", "err"} /\ (AllOk(ran) => value = "ok")
    BY <1>1, <2>2, NewValues
  <2>4. QED BY <2>1, <2>3
<1>4. \A s \in Steps : (~\E i \in DOMAIN ran : ran[i].step = s) => memo'[s] = memo[s]
  BY <1>2
<1>5. \A s \in Steps : memo[s] # "none" => memo'[s] = memo[s]
  BY <1>4
<1>6. QED BY <1>2, <1>3, <1>4, <1>5

LEMMA Appended ==
  ASSUME NEW ran \in Seq(Result), completion \in Seq(Steps),
         completion' = completion \o [i \in DOMAIN ran |-> ran[i].step]
  PROVE  /\ DOMAIN completion' = 1 .. Len(completion) + Len(ran)
         /\ DOMAIN completion = 1 .. Len(completion) /\ DOMAIN ran = 1 .. Len(ran)
         /\ Len(completion) \in Nat /\ Len(ran) \in Nat
         /\ \A i \in 1 .. Len(completion) : completion'[i] = completion[i]
         /\ \A i \in 1 .. Len(ran) : completion'[Len(completion) + i] = ran[i].step
         /\ \A i \in 1 .. Len(ran) : ran[i].step \in Steps
<1> DEFINE steps == [i \in DOMAIN ran |-> ran[i].step]
<1>1. DOMAIN ran = 1 .. Len(ran) /\ Len(ran) \in Nat /\ \A i \in 1 .. Len(ran) : ran[i].step \in Steps
  BY ResultFields
<1>2. steps = [i \in 1 .. Len(ran) |-> ran[i].step]
  BY <1>1
<1>3. steps \in Seq(Steps) /\ Len(steps) = Len(ran) /\ \A i \in 1 .. Len(ran) : steps[i] = ran[i].step
  <2>1. steps \in [1 .. Len(ran) -> Steps]
    BY <1>1, <1>2
  <2>2. steps \in Seq(Steps)
    BY <1>1, <2>1
  <2>3. QED BY <1>1, <1>2, <2>1, <2>2
<1>4. completion' = completion \o steps
  OBVIOUS
<1> HIDE DEF steps
<1>5. QED BY <1>1, <1>3, <1>4

LEMMA Recording ==
  ASSUME RunTypeOK, RunTypeOK', Server, Ordered,
         NEW batch \in Batch, InOrder(memo, batch.ran), AllOk(batch.ran) \/ Len(batch.ran) = 1,
         RecordResults(batch)
  PROVE  /\ Promise!Grows
         /\ Ordered'
         /\ \A s \in Steps : memo'[s] # "none" <=> \E i \in DOMAIN completion' : completion'[i] = s
         /\ \A s \in Steps : Passes(memo, s) => Passes(memo', s)
         /\ \A s \in Steps : memo[s] # "none" => memo'[s] = memo[s]
         /\ \A s \in Steps : memo'[s] # memo[s] => \E k \in DOMAIN batch.ran : batch.ran[k].step = s
         /\ AllOk(batch.ran) /\ AllNew(batch.ran) =>
              \A k \in DOMAIN batch.ran : memo'[batch.ran[k].step] = "ok"
<1> DEFINE ran == batch.ran
           fresh == \A i \in DOMAIN ran : ran[i].kind # "error" /\ memo[ran[i].step] = "none"
<1>1. ran \in Seq(Result) /\ completion \in Seq(Steps) /\ completion' \in Seq(Steps)
      /\ memo \in [Steps -> StepValue] /\ memo' \in [Steps -> StepValue]
  BY DEF RunTypeOK, Batch
<1>2. CASE ~fresh
  <2>1. NewResults(ran) = <<>>
    BY <1>2 DEF NewResults
  <2>2. memo' = memo
    <3>1. DOMAIN <<>> = {}
      OBVIOUS
    <3>2. memo' = [s \in Steps |-> memo[s]]
      BY <2>1, <3>1 DEF RecordResults
    <3>3. QED BY <1>1, <3>2
  <2>3. completion' = completion
    <3>1. DOMAIN <<>> = {}
      OBVIOUS
    <3>2. completion' = completion \o [i \in {} |-> <<>>[i].step]
      BY <2>1, <3>1 DEF RecordResults
    <3>3. [i \in {} |-> <<>>[i].step] = <<>>
      OBVIOUS
    <3>4. QED BY <1>1, <3>2, <3>3
  <2>4. ~(AllOk(ran) /\ AllNew(ran))
    BY <1>2 DEF AllOk, AllNew
  <2>5. Promise!Grows
    BY <1>1, <2>2 DEF Promise!Grows, Promise!StepValue, StepValue
  <2>6. Ordered'
    BY <2>3 DEF Ordered, RecordedInProgramOrder
  <2>7. QED BY <2>2, <2>3, <2>4, <2>5, <2>6 DEF Server
<1>3. CASE fresh
  <2>1. NewResults(ran) = ran
    BY <1>3 DEF NewResults
  <2>2. /\ \A s \in Steps : memo[s] # "none" => memo'[s] = memo[s]
        /\ \A k \in DOMAIN ran : memo'[ran[k].step] \in {"ok", "err"}
        /\ AllOk(ran) => \A k \in DOMAIN ran : memo'[ran[k].step] = "ok"
        /\ \A s \in Steps : memo'[s] # memo[s] => \E k \in DOMAIN ran : ran[k].step = s
        /\ completion' = completion \o [i \in DOMAIN ran |-> ran[i].step]
    BY <1>3, <2>1, RecordsNew
  <2>3. \A s \in Steps : Passes(memo, s) => Passes(memo', s)
    BY <2>2 DEF Passes
  <2>4. /\ DOMAIN completion' = 1 .. Len(completion) + Len(ran)
        /\ DOMAIN completion = 1 .. Len(completion) /\ DOMAIN ran = 1 .. Len(ran)
        /\ Len(completion) \in Nat /\ Len(ran) \in Nat
        /\ \A i \in 1 .. Len(completion) : completion'[i] = completion[i]
        /\ \A i \in 1 .. Len(ran) : completion'[Len(completion) + i] = ran[i].step
        /\ \A i \in 1 .. Len(ran) : ran[i].step \in Steps
    BY <1>1, <2>2, Appended
  <2>5. \A s \in Steps : memo'[s] # "none" <=> \E i \in DOMAIN completion' : completion'[i] = s
    <3> TAKE s \in Steps
    <3>1. ASSUME memo'[s] # "none"
          PROVE  \E i \in DOMAIN completion' : completion'[i] = s
      <4>1. CASE memo[s] # "none"
        <5>1. PICK i \in 1 .. Len(completion) : completion[i] = s
          BY <2>4, <4>1 DEF Server
        <5>2. i \in DOMAIN completion' /\ completion'[i] = s
          BY <2>4, <5>1
        <5>3. QED BY <5>2
      <4>2. CASE memo[s] = "none"
        <5>1. PICK k \in 1 .. Len(ran) : ran[k].step = s
          BY <2>2, <2>4, <3>1, <4>2
        <5>2. Len(completion) + k \in DOMAIN completion'
          BY <2>4, <5>1
        <5>3. completion'[Len(completion) + k] = s
          BY <2>4, <5>1
        <5>4. QED BY <5>2, <5>3
      <4>3. QED BY <4>1, <4>2
    <3>2. ASSUME NEW i \in DOMAIN completion', completion'[i] = s
          PROVE  memo'[s] # "none"
      <4>1. CASE i <= Len(completion)
        <5>1. i \in DOMAIN completion /\ completion[i] = s
          BY <2>4, <3>2, <4>1
        <5>2. memo[s] # "none"
          BY <5>1 DEF Server
        <5>3. QED BY <2>2, <5>2
      <4>2. CASE i > Len(completion)
        <5>1. i - Len(completion) \in 1 .. Len(ran) /\ Len(completion) + (i - Len(completion)) = i
          BY <2>4, <4>2
        <5>2. ran[i - Len(completion)].step = s
          BY <2>4, <3>2, <5>1
        <5>3. QED BY <2>2, <2>4, <5>1, <5>2
      <4>3. QED BY <2>4, <4>1, <4>2
    <3>3. QED BY <3>1, <3>2
  <2>6. Ordered'
    <3> SUFFICES ASSUME WaitsAwaited, NEW i \in DOMAIN completion'
                 PROVE  \E A \in CallAfter[completion'[i]] :
                          \A s \in A : \E j \in 1 .. i - 1 : completion'[j] = s
      BY DEF Ordered, RecordedInProgramOrder
    <3>1. CASE i <= Len(completion)
      <4>1. i \in DOMAIN completion /\ completion'[i] = completion[i]
        BY <2>4, <3>1
      <4>2. PICK A \in CallAfter[completion[i]] : \A s \in A : \E j \in 1 .. i - 1 : completion[j] = s
        BY <4>1 DEF Ordered, RecordedInProgramOrder
      <4>3. \A j \in 1 .. i - 1 : completion'[j] = completion[j]
        BY <2>4, <3>1
      <4>4. QED BY <4>1, <4>2, <4>3
    <3>2. CASE i > Len(completion)
      <4> DEFINE k == i - Len(completion)
      <4>1. k \in 1 .. Len(ran) /\ Len(completion) + k = i
        BY <2>4, <3>2
      <4>2. completion'[i] = ran[k].step /\ ran[k].step \in Steps
        BY <2>4, <4>1
      <4>3. PICK A \in CallAfter[ran[k].step] :
              \A s \in A : Passes(memo, s) \/ \E j \in 1 .. k - 1 : ran[j].step = s
        BY <2>4, <4>1 DEF InOrder, Backed
      <4>4. ASSUME NEW s \in A
            PROVE  \E j \in 1 .. i - 1 : completion'[j] = s
        <5>1. s \in Steps
          BY <4>2, <4>3, Alternatives
        <5>2. CASE Passes(memo, s)
          <6>1. memo[s] # "none"
            BY <5>2 DEF Passes
          <6>2. PICK j \in 1 .. Len(completion) : completion[j] = s
            BY <2>4, <5>1, <6>1 DEF Server
          <6>3. j \in 1 .. i - 1 /\ completion'[j] = s
            BY <2>4, <3>2, <6>2
          <6>4. QED BY <6>3
        <5>3. ASSUME NEW j \in 1 .. k - 1, ran[j].step = s
              PROVE  \E l \in 1 .. i - 1 : completion'[l] = s
          <6>0. j \in 1 .. Len(ran) /\ j \in Nat /\ j < k
            BY <2>4, <4>1, <5>3
          <6>1. Len(completion) \in Nat /\ k \in Nat /\ i = Len(completion) + k
            BY <2>4, <4>1
          <6>2. Len(completion) + j \in 1 .. i - 1
            BY <6>0, <6>1
          <6>3. completion'[Len(completion) + j] = s
            BY <2>4, <5>3, <6>0
          <6>4. QED BY <6>2, <6>3
        <5>4. QED BY <4>3, <5>2, <5>3
      <4>5. QED BY <4>2, <4>3, <4>4
    <3>3. QED BY <2>4, <3>1, <3>2
  <2>7. Promise!Grows
    <3>1. ASSUME NEW s \in Steps, memo[s] = "none", memo'[s] # "none"
          PROVE  Promise!Enough(memo', CallAfter[s])
      <4>1. PICK k \in 1 .. Len(ran) : ran[k].step = s
        BY <2>2, <2>4, <3>1
      <4>2. PICK A \in CallAfter[s] :
              \A t \in A : Passes(memo, t) \/ \E j \in 1 .. k - 1 : ran[j].step = t
        BY <2>4, <4>1 DEF InOrder, Backed
      <4>3. ASSUME NEW t \in A
            PROVE  t \in Steps /\ Passes(memo', t)
        <5>1. t \in Steps
          BY <4>2, Alternatives
        <5>2. ASSUME NEW j \in 1 .. k - 1, ran[j].step = t
              PROVE  Passes(memo', t)
          <6>1. AllOk(ran) /\ j \in DOMAIN ran
            BY <2>4, <4>1, <5>2
          <6>2. QED BY <2>2, <5>2, <6>1 DEF Passes
        <5>3. QED BY <2>3, <4>2, <5>1, <5>2
      <4>4. A \subseteq Promise!Passed(memo')
        BY <4>3 DEF Promise!Passed, Passes
      <4>5. QED BY <4>2, <4>4 DEF Promise!Enough
    <3>2. memo' \in [Steps -> Promise!StepValue]
      BY <1>1 DEF Promise!StepValue, StepValue
    <3>3. QED BY <2>2, <3>1, <3>2 DEF Promise!Grows
  <2>8. QED BY <2>2, <2>3, <2>5, <2>6, <2>7
<1>4. QED BY <1>2, <1>3

-----------------------------------------------------------------------------
(* A request that has not been given up.                                   *)

RequestInv == Known /\ Buffered /\ Entitled

Kept == (Running' => RequestInv') /\ (pc'.at = "done" => Answer(response.batch)')

\* Where the core loop may go.
CoreGoes ==
  /\ pc'.at = "exec" => /\ pc'.step \in found \ Waits
                        /\ StepMode(req) = "AsyncCheckpointing" => stepState[pc'.step] = "none"
  /\ pc'.then = "stepRan" => pc'.step \in found \ Waits
  /\ pc'.then = "plan" => pc'.steps \subseteq found
  /\ pc'.at = "done" => Answer(response'.batch)

LEMMA ReachedMore ==
  ASSUME NEW alternatives, Reached(alternatives), Settled \subseteq Settled'
  PROVE  Reached(alternatives)'
<1>1. PICK A \in alternatives : A \subseteq Settled
  BY DEF Reached
<1>2. A \subseteq Settled'
  BY <1>1
<1>3. QED BY <1>1, <1>2 DEF Reached

\* User code and timers: more is called, settled and queued, each as user code is entitled to.
LEMMA UserKeeps ==
  ASSUME RequestInv, Running,
         UNCHANGED <<req, order, stepState, buffer, pc, memo, recorded>>,
         ToSet(resolved) \subseteq ToSet(resolved)',
         \A i \in DOMAIN resolved' : stepState[resolved'[i]] # "none",
         found \subseteq found', \A s \in found' : s \in found \/ Reached(CallAfter[s]),
         ToSet(resolved') \cup toReport' \subseteq found',
         \A i \in DOMAIN queue' :
           \/ \E j \in DOMAIN queue : queue'[i] = queue[j]
           \/ /\ queue'[i].steps \subseteq found'
              /\ queue'[i].type = "function-resolved" => Reached(ReturnAfter)
  PROVE  Kept
<1>1. Settled \subseteq Settled'
  BY DEF Settled
<1>2. Known'
  BY DEF RequestInv, Known
<1>3. Buffered'
  BY DEF RequestInv, Buffered, InOrder, AllOk, AllNew, StepMode
<1>4. \A s \in found' : Reached(CallAfter[s])'
  <2> TAKE s \in found'
  <2>1. Reached(CallAfter[s])
    BY DEF RequestInv, Entitled
  <2>2. QED BY <1>1, <2>1, ReachedMore
<1>5. \A i \in DOMAIN queue' : /\ queue'[i].steps \subseteq found'
                               /\ queue'[i].type = "function-resolved" => Reached(ReturnAfter)'
  <2> TAKE i \in DOMAIN queue'
  <2>1. /\ queue'[i].steps \subseteq found'
        /\ queue'[i].type = "function-resolved" => Reached(ReturnAfter)
    BY DEF RequestInv, Entitled
  <2>2. QED BY <1>1, <2>1, ReachedMore
<1>6. Entitled'
  BY <1>4, <1>5 DEF RequestInv, Entitled, StepMode
<1>7. pc'.at # "done"
  BY DEF Running
<1>8. QED BY <1>2, <1>3, <1>6, <1>7 DEF Kept, RequestInv

\* The core loop: it takes checkpoints, and goes on as it may.
LEMMA CoreKeeps ==
  ASSUME RequestInv, CoreGoes,
         UNCHANGED <<req, order, stepState, resolved, found, toReport, buffer, memo, recorded>>,
         \A i \in DOMAIN queue' : \E j \in DOMAIN queue : queue'[i] = queue[j]
  PROVE  Kept
<1>1. Settled \subseteq Settled'
  BY DEF Settled
<1>2. Known'
  BY DEF RequestInv, Known
<1>3. Buffered'
  BY DEF RequestInv, Buffered, InOrder, AllOk, AllNew, StepMode
<1>4. \A s \in found : Reached(CallAfter[s])'
  BY <1>1, ReachedMore DEF RequestInv, Entitled
<1>5. \A i \in DOMAIN queue' : /\ queue'[i].steps \subseteq found
                               /\ queue'[i].type = "function-resolved" => Reached(ReturnAfter)'
  BY <1>1, ReachedMore DEF RequestInv, Entitled
<1>6. Entitled'
  BY <1>4, <1>5 DEF RequestInv, Entitled, CoreGoes, StepMode
<1>7. pc'.at = "done" => Answer(response.batch)'
  BY DEF CoreGoes, Answer, AllNew, Due
<1>8. QED BY <1>2, <1>3, <1>6, <1>7 DEF Kept, RequestInv

\* A checkpoint that the core loop takes leaves the others.
LEMMA TakesCheckpoint ==
  ASSUME TypeOK, NEW type, TakeCheckpoint(type)
  PROVE  /\ pc.at = "loop"
         /\ \A i \in DOMAIN queue' : \E j \in DOMAIN queue : queue'[i] = queue[j]
         /\ \E j \in DOMAIN queue : Head(queue) = queue[j] /\ queue[j].type = type
<1>1. queue \in Seq(Checkpoint) /\ queue # <<>> /\ queue' = Tail(queue)
  BY DEF TakeCheckpoint, TypeOK
<1>2. /\ 1 \in DOMAIN queue /\ Head(queue) = queue[1]
      /\ \A i \in DOMAIN queue' : i + 1 \in DOMAIN queue /\ queue'[i] = queue[i + 1]
  BY <1>1
<1>3. QED BY <1>2 DEF TakeCheckpoint

\* What user code calls and how it ends is queued.
LEMMA SetsCheckpoint ==
  ASSUME TypeOK, NEW c, SetCheckpoint(c)
  PROVE  \A i \in DOMAIN queue' : queue'[i] = c \/ \E j \in DOMAIN queue : queue'[i] = queue[j]
<1>1. queue \in Seq(Checkpoint) /\ queue' = Append(queue, c)
  BY DEF SetCheckpoint, TypeOK
<1>2. QED BY <1>1

-----------------------------------------------------------------------------
(* Answers.                                                                *)

LEMMA BatchFields ==
  ASSUME NEW ran, NEW plan, NEW defers, NEW end
  PROVE  /\ EmptyBatch.ran = <<>> /\ EmptyBatch.end = "none"
         /\ [EmptyBatch EXCEPT !.plan = plan, !.defers = defers].ran = <<>>
         /\ [EmptyBatch EXCEPT !.plan = plan, !.defers = defers].end = "none"
         /\ [EmptyBatch EXCEPT !.defers = defers].ran = <<>>
         /\ [EmptyBatch EXCEPT !.defers = defers].end = "none"
         /\ [EmptyBatch EXCEPT !.defers = defers, !.end = end].ran = <<>>
         /\ [EmptyBatch EXCEPT !.defers = defers, !.end = end].end = end
         /\ [EmptyBatch EXCEPT !.end = end].ran = <<>>
         /\ [EmptyBatch EXCEPT !.end = end].end = end
         /\ [EmptyBatch EXCEPT !.ran = ran].ran = ran
         /\ [EmptyBatch EXCEPT !.ran = ran].end = "none"
         /\ [EmptyBatch EXCEPT !.ran = ran, !.defers = defers].ran = ran
         /\ [EmptyBatch EXCEPT !.ran = ran, !.defers = defers].end = "none"
         /\ [EmptyBatch EXCEPT !.ran = ran, !.defers = defers, !.end = end].ran = ran
         /\ [EmptyBatch EXCEPT !.ran = ran, !.defers = defers, !.end = end].end = end
         /\ EmptyBatch.plan = {} /\ [EmptyBatch EXCEPT !.end = end].plan = {}
         /\ [EmptyBatch EXCEPT !.plan = plan, !.defers = defers].plan = plan
         /\ [EmptyBatch EXCEPT !.defers = defers, !.end = end].plan = {}
         /\ [EmptyBatch EXCEPT !.ran = ran].plan = {}
         /\ [EmptyBatch EXCEPT !.ran = ran, !.defers = defers].plan = {}
         /\ [EmptyBatch EXCEPT !.ran = ran, !.defers = defers, !.end = end].plan = {}
  BY DEF EmptyBatch

LEMMA NonePlanned == Due(memo, {})
  BY DEF Due

LEMMA NoResults ==
  ASSUME NEW batch, batch.ran = <<>>, batch.end # "complete", Due(memo, batch.plan)
  PROVE  Answer(batch)
<1>1. DOMAIN <<>> = {}
  OBVIOUS
<1>2. QED BY <1>1 DEF Answer, InOrder, AllOk

LEMMA OneAnswer ==
  ASSUME NEW batch, NEW result, batch.ran = <<result>>, batch.end # "complete", batch.plan = {},
         result.step \notin Waits, Backed(memo, <<result>>, 1, CallAfter[result.step])
  PROVE  Answer(batch)
<1>1. DOMAIN <<result>> = {1} /\ Len(<<result>>) = 1 /\ <<result>>[1] = result
  OBVIOUS
<1>2. QED BY <1>1, NonePlanned DEF Answer, InOrder

LEMMA Returns ==
  ASSUME NEW type, NEW batch, NEW retriable, Return(type, batch, retriable), Answer(batch)
  PROVE  CoreGoes /\ pc'.at = "done"
<1>1. pc'.at = "done" /\ pc'.then = "none"
  BY DEF Return, PcAt
<1>2. response'.batch = batch
  BY DEF Return
<1>3. QED BY <1>1, <1>2 DEF CoreGoes

LEMMA MaybeReturns ==
  ASSUME NEW steps, MaybeReturnNewSteps(steps), Due(memo, PlannedSteps(steps))
  PROVE  CoreGoes /\ pc'.at \in {"loop", "done"}
<1> DEFINE batch == [EmptyBatch EXCEPT !.plan = PlannedSteps(steps), !.defers = lazy]
<1>1. CASE pc' = PcAt("loop")
  BY <1>1 DEF PcAt, CoreGoes
<1>2. CASE Return("steps-found", batch, FALSE)
  <2>1. Answer(batch)
    <3>1. batch.ran = <<>> /\ batch.end = "none" /\ batch.plan = PlannedSteps(steps)
      BY BatchFields
    <3>2. QED BY <3>1, NoResults
  <2>2. QED BY <1>2, <2>1, Returns
<1>3. QED BY <1>1, <1>2 DEF MaybeReturnNewSteps

LEMMA Rejects ==
  ASSUME NEW final, NEW defers, Reject(final, defers)
  PROVE  CoreGoes /\ pc'.at = "done"
<1> DEFINE batch == [EmptyBatch EXCEPT !.defers = defers, !.end = IF final THEN "failed" ELSE "error"]
<1>1. Answer(batch)
  <2>1. batch.ran = <<>> /\ batch.end # "complete" /\ batch.plan = {}
    BY BatchFields
  <2>2. QED BY <2>1, NoResults, NonePlanned
<1>2. QED BY <1>1, Returns DEF Reject

LEMMA StepRanGoes ==
  ASSUME NEW result, StepRan(result), result.step \notin Waits,
         Backed(memo, <<result>>, 1, CallAfter[result.step])
  PROVE  CoreGoes /\ pc'.at = "done"
<1> DEFINE batch == [EmptyBatch EXCEPT !.ran = <<result>>]
<1>1. Answer(batch)
  <2>1. batch.ran = <<result>> /\ batch.end = "none" /\ batch.plan = {}
    BY BatchFields
  <2>2. QED BY <2>1, OneAnswer
<1>2. QED BY <1>1, Returns DEF StepRan

LEMMA StartsStep ==
  ASSUME NEW s \in found \ Waits, StartStep(s),
         StepMode(req) = "AsyncCheckpointing" => stepState[s] = "none"
  PROVE  CoreGoes /\ pc'.at = "exec"
  BY DEF StartStep, PcAt, CoreGoes

LEMMA StartsCheckpoint ==
  ASSUME NEW continuation \in Pc, StartCheckpoint(continuation),
         continuation.then = "stepRan" => continuation.step \in found \ Waits,
         continuation.then = "plan" => continuation.steps \subseteq found
  PROVE  CoreGoes /\ pc'.at = "checkpoint"
  BY DEF StartCheckpoint, CoreGoes, Pc

-----------------------------------------------------------------------------
(* User code, memoized results and timers.                                 *)

LEMMA UserCallsKeeps ==
  ASSUME TypeOK, RequestInv, UserCalls, UNCHANGED <<memo, recorded>>
  PROVE  Kept
<1>1. PICK C \in SUBSET ReadyCalls :
        /\ found' = found \cup (C \cap Steps)
        /\ toReport' = toReport \cup (C \cap Steps)
  BY DEF UserCalls
<1>2. UNCHANGED <<req, order, stepState, buffer, pc, resolved, queue>> /\ Running
  BY DEF UserCalls, requestVars
<1>3. \A s \in found' : s \in found \/ Reached(CallAfter[s])
  BY <1>1 DEF ReadyCalls
<1>4. ToSet(resolved') \cup toReport' \subseteq found'
  BY <1>1, <1>2 DEF RequestInv, Entitled
<1>5. \A i \in DOMAIN resolved' : stepState[resolved'[i]] # "none"
  BY <1>2 DEF RequestInv, Known
<1>6. ToSet(resolved)' = ToSet(resolved)
  BY <1>2
<1>7. QED BY <1>1, <1>2, <1>3, <1>4, <1>5, <1>6, UserKeeps

\* User code ends, a tick of the report or a timer: nothing is called.
LEMMA QueueKeeps ==
  ASSUME RequestInv, Running,
         UNCHANGED <<req, order, stepState, buffer, pc, memo, recorded, found, resolved>>,
         toReport' \subseteq toReport,
         \A i \in DOMAIN queue' :
           \/ \E j \in DOMAIN queue : queue'[i] = queue[j]
           \/ /\ queue'[i].steps \subseteq found
              /\ queue'[i].type = "function-resolved" => Reached(ReturnAfter)
  PROVE  Kept
<1>1. ToSet(resolved') \cup toReport' \subseteq found'
  BY DEF RequestInv, Entitled
<1>2. \A i \in DOMAIN resolved' : stepState[resolved'[i]] # "none"
  BY DEF RequestInv, Known
<1>3. ToSet(resolved)' = ToSet(resolved)
  OBVIOUS
<1>4. QED BY <1>1, <1>2, <1>3, UserKeeps

LEMMA CheckpointFields ==
  ASSUME NEW type, NEW steps, NEW final
  PROVE  /\ CheckpointOf(type).type = type /\ CheckpointOf(type).steps = {}
         /\ [CheckpointOf(type) EXCEPT !.final = final].type = type
         /\ [CheckpointOf(type) EXCEPT !.final = final].steps = {}
         /\ [CheckpointOf(type) EXCEPT !.steps = steps].type = type
         /\ [CheckpointOf(type) EXCEPT !.steps = steps].steps = steps
  BY DEF CheckpointOf

LEMMA FunctionReturnsKeeps ==
  ASSUME TypeOK, RequestInv, FunctionReturns, UNCHANGED <<memo, recorded>>
  PROVE  Kept
<1>1. /\ UNCHANGED <<req, order, stepState, buffer, pc, found, resolved, toReport>> /\ Running
      /\ Reached(ReturnAfter) /\ SetCheckpoint(CheckpointOf("function-resolved"))
  BY DEF FunctionReturns, requestVars, shipVars
<1>2. QED BY <1>1, SetsCheckpoint, CheckpointFields, QueueKeeps

LEMMA FunctionThrowsKeeps ==
  ASSUME TypeOK, RequestInv, FunctionThrows, UNCHANGED <<memo, recorded>>
  PROVE  Kept
<1>1. UNCHANGED <<req, order, stepState, buffer, pc, found, resolved, toReport>> /\ Running
  BY DEF FunctionThrows, requestVars, shipVars
<1>2. PICK f \in BOOLEAN : SetCheckpoint([CheckpointOf("function-rejected") EXCEPT !.final = f])
  BY DEF FunctionThrows
<1> DEFINE c == [CheckpointOf("function-rejected") EXCEPT !.final = f]
<1>3. c.type = "function-rejected" /\ c.steps = {}
  BY CheckpointFields
<1>4. \A i \in DOMAIN queue' : queue'[i] = c \/ \E j \in DOMAIN queue : queue'[i] = queue[j]
  BY <1>2, SetsCheckpoint
<1>5. QED BY <1>1, <1>3, <1>4, QueueKeeps

LEMMA HandleMemoizedKeeps ==
  ASSUME TypeOK, RequestInv, HandleMemoized, UNCHANGED <<memo, recorded>>
  PROVE  Kept
<1>1. UNCHANGED <<req, order, stepState, buffer, pc, found, toReport, queue>> /\ Running
  BY DEF HandleMemoized, requestVars, shipVars
<1>2. PICK i \in DOMAIN order : resolved' = Append(resolved, order[i]) /\ order[i] \in toReport
  BY DEF HandleMemoized, Handleable
<1>3. stepState[order[i]] # "none" /\ resolved \in Seq(Steps)
  BY DEF RequestInv, Known, TypeOK
<1>4. /\ \A j \in DOMAIN resolved' : resolved'[j] = order[i] \/ \E k \in DOMAIN resolved : resolved'[j] = resolved[k]
      /\ \A k \in DOMAIN resolved : k \in DOMAIN resolved' /\ resolved'[k] = resolved[k]
  BY <1>2, <1>3
<1>5. ToSet(resolved) \subseteq ToSet(resolved)'
  BY <1>4 DEF ToSet
<1>6. \A j \in DOMAIN resolved' : stepState[resolved'[j]] # "none"
  BY <1>3, <1>4 DEF RequestInv, Known
<1>7. ToSet(resolved') \cup toReport' \subseteq found'
  BY <1>1, <1>2, <1>4 DEF RequestInv, Entitled, ToSet
<1>8. QED BY <1>1, <1>5, <1>6, <1>7, UserKeeps

LEMMA ReportFoundKeeps ==
  ASSUME TypeOK, RequestInv, ReportFound, UNCHANGED <<memo, recorded>>
  PROVE  Kept
<1>1. /\ UNCHANGED <<req, order, stepState, buffer, pc, found, resolved>> /\ Running
      /\ toReport' = {} /\ toReport \subseteq found
  BY DEF ReportFound, requestVars, shipVars, RequestInv, Entitled
<1>2. CASE toReport = {}
  BY <1>1, <1>2, QueueKeeps DEF ReportFound
<1>3. CASE toReport # {}
  <2>1. SetCheckpoint([CheckpointOf("steps-found") EXCEPT !.steps = toReport])
    BY <1>3 DEF ReportFound, SetCheckpoint
  <2> DEFINE c == [CheckpointOf("steps-found") EXCEPT !.steps = toReport]
  <2>2. c.type = "steps-found" /\ c.steps = toReport
    BY CheckpointFields
  <2>3. \A i \in DOMAIN queue' : queue'[i] = c \/ \E j \in DOMAIN queue : queue'[i] = queue[j]
    BY <2>1, SetsCheckpoint
  <2>4. QED BY <1>1, <2>2, <2>3, QueueKeeps
<1>4. QED BY <1>2, <1>3

LEMMA TimerFiresKeeps ==
  ASSUME TypeOK, RequestInv, TimerFires, UNCHANGED <<memo, recorded>>
  PROVE  Kept
<1>1. UNCHANGED <<req, order, stepState, buffer, pc, found, resolved, toReport>> /\ Running
  BY DEF TimerFires, requestVars, shipVars, userVars
<1>2. PICK t \in {"runtime", "interval", "notfound"} : SetCheckpoint(CheckpointOf(TimerCheckpoint[t]))
  BY DEF TimerFires, TypeOK
<1>3. TimerCheckpoint[t] # "function-resolved"
  BY DEF TimerCheckpoint
<1>4. QED BY <1>1, <1>2, <1>3, SetsCheckpoint, CheckpointFields, QueueKeeps

-----------------------------------------------------------------------------
(* The core loop.                                                          *)

LEMMA TakenSteps ==
  ASSUME TypeOK, RequestInv, NEW type, TakeCheckpoint(type)
  PROVE  /\ Head(queue).steps \subseteq found
         /\ type = "function-resolved" => Reached(ReturnAfter)
  BY TakesCheckpoint DEF RequestInv, Entitled

LEMMA EarlyIsNew ==
  ASSUME NEW steps, EarlyStep(steps) # NoStep
  PROVE  EarlyStep(steps) \in steps \ Waits /\ stepState[EarlyStep(steps)] = "none"
<1>1. Cardinality(NewSteps(steps)) = 1 /\ NewSteps(steps) \cap Waits = {}
  BY DEF EarlyStep, Bodies
<1>2. NewSteps(steps) # {}
  BY <1>1, FS_EmptySet
<1>3. EarlyStep(steps) \in NewSteps(steps)
  BY <1>1, <1>2 DEF EarlyStep
<1>4. EarlyStep(steps) \notin Waits
  BY <1>1, <1>3
<1>5. QED BY <1>3, <1>4 DEF NewSteps

\* What user code called is backed by the server alone once the buffer is recorded or empty.
LEMMA CalledRecorded ==
  ASSUME TypeOK, RequestInv, NEW s \in found, NEW ran, NEW n,
         \A k \in DOMAIN buffer : memo[buffer[k].step] = "ok"
  PROVE  Backed(memo, ran, n, CallAfter[s])
<1>1. Reached(CallAfter[s]) /\ s \in Steps
  BY DEF RequestInv, Entitled, TypeOK
<1>2. QED BY <1>1, Alternatives, ReachedRecorded DEF RequestInv

\* So are the waits that are planned then.
LEMMA PlannedDue ==
  ASSUME TypeOK, RequestInv, NEW steps \in SUBSET found,
         \A k \in DOMAIN buffer : memo[buffer[k].step] = "ok"
  PROVE  Due(memo, PlannedSteps(steps))
<1>1. PlannedSteps(steps) \subseteq found
  BY DEF PlannedSteps, NewSteps
<1>2. QED BY <1>1, CalledRecorded DEF Due

LEMMA AsyncStepsFoundKeeps ==
  ASSUME TypeOK, RequestInv, AsyncStepsFound, UNCHANGED <<memo, recorded>>
  PROVE  Kept
<1> DEFINE steps == Head(queue).steps
<1>1. TakeCheckpoint("steps-found") /\ steps \subseteq found /\ StepMode(req) = "Async"
      /\ UNCHANGED <<req, order, stepState, resolved, found, toReport, buffer>>
  BY TakenSteps DEF AsyncStepsFound, requestVars, userVars
<1>2. CoreGoes
  <2>1. CASE StepToRun(steps) # NoStep
    <3>1. StepToRun(steps) \in steps \ Waits
      BY <2>1, EarlyIsNew DEF StepToRun, Bodies
    <3>2. StartStep(StepToRun(steps))
      BY <2>1 DEF AsyncStepsFound
    <3>3. QED BY <1>1, <3>1, <3>2, StartsStep
  <2>2. CASE StepToRun(steps) = NoStep
    <3>1. DOMAIN buffer = {}
      BY <1>1 DEF RequestInv, Buffered
    <3>2. Due(memo, PlannedSteps(steps))
      BY <1>1, <3>1, PlannedDue
    <3>3. QED BY <2>2, <3>2, MaybeReturns DEF AsyncStepsFound
  <2>3. QED BY <2>1, <2>2
<1>3. QED BY <1>1, <1>2, TakesCheckpoint, CoreKeeps

LEMMA CheckpointingStepsFoundKeeps ==
  ASSUME TypeOK, RequestInv, CheckpointingStepsFound, UNCHANGED <<memo, recorded>>
  PROVE  Kept
<1> DEFINE steps == Head(queue).steps
           plan == IF exceeded THEN [PcAt("loop") EXCEPT !.then = "planAll"]
                   ELSE [PcAt("loop") EXCEPT !.then = "plan", !.steps = steps]
<1>1. TakeCheckpoint("steps-found") /\ steps \subseteq found /\ StepMode(req) = "AsyncCheckpointing"
      /\ UNCHANGED <<req, order, stepState, resolved, found, toReport, buffer>>
  BY TakenSteps DEF CheckpointingStepsFound, requestVars, userVars
<1>2. pc.at = "loop"
  BY <1>1, TakesCheckpoint
<1>3. CoreGoes
  <2>1. CASE NewSteps(steps) = {}
    <3>1. UNCHANGED pc
      BY <2>1 DEF CheckpointingStepsFound
    <3>2. QED BY <1>2, <3>1 DEF CoreGoes, RequestInv, Entitled
  <2>2. CASE NewSteps(steps) # {} /\ ~exceeded /\ EarlyStep(NewSteps(steps)) # NoStep
    <3>1. StartStep(EarlyStep(NewSteps(steps)))
      BY <2>2 DEF CheckpointingStepsFound
    <3>2. /\ EarlyStep(NewSteps(steps)) \in steps \ Waits
          /\ stepState[EarlyStep(NewSteps(steps))] = "none"
      BY <2>2, EarlyIsNew DEF NewSteps
    <3>3. QED BY <1>1, <3>1, <3>2, StartsStep
  <2>3. CASE NewSteps(steps) # {} /\ ~(~exceeded /\ EarlyStep(NewSteps(steps)) # NoStep)
    <3>1. IF buffer # <<>> THEN StartCheckpoint(plan)
          ELSE MaybeReturnNewSteps(IF exceeded THEN found ELSE steps)
      BY <2>3 DEF CheckpointingStepsFound
    <3>2. plan \in Pc /\ plan.then # "stepRan" /\ (plan.then = "plan" => plan.steps \subseteq found)
      <4>1. steps \in SUBSET Steps
        BY <1>1, HeadStepsType
      <4>2. QED BY <1>1, <4>1 DEF PcAt, Pc, Location, Continuation, ResultKind
    <3>3. CASE buffer # <<>>
      BY <3>1, <3>2, <3>3, StartsCheckpoint
    <3>4. CASE buffer = <<>>
      <4>1. DOMAIN buffer = {}
        BY <3>4
      <4>2. Due(memo, PlannedSteps(IF exceeded THEN found ELSE steps))
        BY <1>1, <4>1, PlannedDue
      <4>3. QED BY <3>1, <3>4, <4>2, MaybeReturns
    <3>5. QED BY <3>3, <3>4
  <2>4. QED BY <2>1, <2>2, <2>3
<1>4. QED BY <1>1, <1>3, TakesCheckpoint, CoreKeeps

\* A body has ended and the request answers with its result.
LEMMA AsyncStepEndsKeeps ==
  ASSUME TypeOK, RequestInv, NEW kind, AsyncStepEnds(kind), UNCHANGED <<memo, recorded>>
  PROVE  Kept
<1> DEFINE result == [step |-> pc.step, kind |-> kind]
           batch == [EmptyBatch EXCEPT !.ran = <<result>>, !.defers = lazy]
<1>1. pc.at = "exec" /\ StepMode(req) = "Async"
      /\ UNCHANGED <<req, order, stepState, resolved, found, toReport, buffer, queue>>
  BY DEF AsyncStepEnds, requestVars, userVars
<1>2. pc.step \in found \ Waits /\ buffer = <<>>
  BY <1>1 DEF RequestInv, Entitled, Buffered
<1>3. result.step = pc.step /\ Backed(memo, <<result>>, 1, CallAfter[pc.step])
  BY <1>2, CalledRecorded
<1>4. CoreGoes
  <2>1. CASE lazy = {}
    BY <1>2, <1>3, <2>1, StepRanGoes DEF AsyncStepEnds
  <2>2. CASE lazy # {}
    <3>1. batch.ran = <<result>> /\ batch.end = "none" /\ batch.plan = {}
      BY BatchFields
    <3>2. Answer(batch)
      BY <1>2, <1>3, <3>1, OneAnswer
    <3>3. Return("steps-found", batch, FALSE)
      BY <2>2 DEF AsyncStepEnds
    <3>4. QED BY <3>2, <3>3, Returns
  <2>3. QED BY <2>1, <2>2
<1>5. QED BY <1>1, <1>4, CoreKeeps

LEMMA CheckpointingStepThrowsKeeps ==
  ASSUME TypeOK, RequestInv, NEW kind \in ResultKind, CheckpointingStepThrows(kind),
         UNCHANGED <<memo, recorded>>
  PROVE  Kept
<1> DEFINE result == [step |-> pc.step, kind |-> kind]
           then == [PcAt("loop") EXCEPT !.then = "stepRan", !.step = pc.step, !.kind = kind]
<1>1. pc.at = "exec"
      /\ UNCHANGED <<req, order, stepState, resolved, found, toReport, buffer, queue>>
  BY DEF CheckpointingStepThrows, requestVars, userVars
<1>2. pc.step \in found \ Waits /\ pc.step \in Steps
  BY <1>1, RunningStep DEF RequestInv, Entitled
<1>3. CoreGoes
  <2>1. CASE buffer # <<>>
    <3>1. then \in Pc /\ then.then = "stepRan" /\ then.step = pc.step
      BY <1>2 DEF PcAt, Pc, Location, Continuation, ResultKind
    <3>2. StartCheckpoint(then)
      BY <2>1 DEF CheckpointingStepThrows
    <3>3. QED BY <1>2, <3>1, <3>2, StartsCheckpoint
  <2>2. CASE buffer = <<>>
    <3>1. result.step = pc.step /\ Backed(memo, <<result>>, 1, CallAfter[pc.step])
      BY <1>2, <2>2, CalledRecorded
    <3>2. StepRan(result)
      BY <2>2 DEF CheckpointingStepThrows
    <3>3. QED BY <1>2, <3>1, <3>2, StepRanGoes
  <2>3. QED BY <2>1, <2>2
<1>4. QED BY <1>1, <1>3, CoreKeeps

\* User code goes on with a result that joins the buffer.
LEMMA ResumeUserKeeps ==
  ASSUME TypeOK, RequestInv, ~recorded, NEW limit, pc.at = "exec",
         StepMode(req) = "AsyncCheckpointing", req.attempt = 0, ResumeUser(limit),
         UNCHANGED <<memo, recorded, req, order, found, toReport, queue>>
  PROVE  Kept
<1> DEFINE result == [step |-> pc.step, kind |-> "ok"]
<1>1. /\ pc.step \in found \ Waits /\ pc.step \in Steps /\ stepState[pc.step] = "none"
      /\ memo[pc.step] = "none"
  BY RunningStep DEF RequestInv, Entitled, Known
<1>2. /\ stepState' = [stepState EXCEPT ![pc.step] = "ok"]
      /\ resolved' = Append(resolved, pc.step)
      /\ buffer' = Append(buffer, result)
      /\ buffer \in Seq(Result) /\ resolved \in Seq(Steps) /\ stepState \in [Steps -> StepValue]
  BY DEF ResumeUser, TypeOK
<1>3. /\ stepState'[pc.step] = "ok"
      /\ \A s \in Steps : s # pc.step => stepState'[s] = stepState[s]
      /\ \A s \in Steps : stepState[s] # "none" => stepState'[s] = stepState[s]
  BY <1>1, <1>2
<1>4. /\ \A j \in DOMAIN resolved' : resolved'[j] = pc.step \/ \E k \in DOMAIN resolved : resolved'[j] = resolved[k]
      /\ \A k \in DOMAIN resolved : k \in DOMAIN resolved' /\ resolved'[k] = resolved[k] /\ resolved[k] \in Steps
  BY <1>2
<1>5. /\ Len(buffer) \in Nat /\ DOMAIN buffer = 1 .. Len(buffer)
      /\ DOMAIN buffer' = 1 .. Len(buffer) + 1 /\ buffer'[Len(buffer) + 1] = result
      /\ \A k \in 1 .. Len(buffer) : buffer'[k] = buffer[k]
  BY <1>2
<1>6. Settled \subseteq Settled'
  <2>1. ASSUME NEW s \in Settled
        PROVE  s \in Settled'
    <3>1. s \in ToSet(resolved) /\ (stepState[s] = "ok" \/ s \in Caught)
      BY DEF Settled
    <3>2. PICK k \in DOMAIN resolved : resolved[k] = s
      BY <3>1 DEF ToSet
    <3>3. s \in Steps /\ s \in ToSet(resolved')
      BY <1>4, <3>2 DEF ToSet
    <3>4. stepState'[s] = "ok" \/ s \in Caught
      BY <1>3, <3>1, <3>3
    <3>5. QED BY <3>3, <3>4 DEF Settled
  <2>2. QED BY <2>1
<1>7. Known'
  <2>1. \A s \in Steps : memo[s] \in {"none", stepState'[s]} \/ (s \in Waits /\ stepState'[s] = "none")
    <3> TAKE s \in Steps
    <3>1. CASE s = pc.step
      BY <1>1, <1>3, <3>1
    <3>2. CASE s # pc.step
      BY <1>3, <3>2 DEF RequestInv, Known
    <3>3. QED BY <3>1, <3>2
  <2>2. \A s \in Steps : stepState'[s] # "none" /\ memo[s] = "none" =>
          stepState'[s] = "ok" /\ \E k \in DOMAIN buffer' : buffer'[k].step = s
    <3> SUFFICES ASSUME NEW s \in Steps, stepState'[s] # "none", memo[s] = "none"
                 PROVE  stepState'[s] = "ok" /\ \E k \in DOMAIN buffer' : buffer'[k].step = s
      OBVIOUS
    <3>1. CASE s = pc.step
      <4>1. Len(buffer) + 1 \in DOMAIN buffer' /\ buffer'[Len(buffer) + 1].step = s
        BY <1>5, <3>1
      <4>2. QED BY <1>3, <3>1, <4>1
    <3>2. CASE s # pc.step
      <4>1. stepState[s] # "none" /\ stepState'[s] = stepState[s]
        BY <1>3, <3>2
      <4>2. PICK k \in DOMAIN buffer : buffer[k].step = s
        BY <4>1 DEF RequestInv, Known
      <4>3. k \in DOMAIN buffer' /\ buffer'[k].step = s
        BY <1>5, <4>2
      <4>4. QED BY <4>1, <4>3 DEF RequestInv, Known
    <3>3. QED BY <3>1, <3>2
  <2>3. \A i \in DOMAIN order : stepState'[order[i]] # "none"
    <3>1. \A i \in DOMAIN order : order[i] \in Steps
      BY DEF TypeOK
    <3>2. QED BY <1>3, <3>1 DEF RequestInv, Known
  <2>4. \A i \in DOMAIN resolved' : stepState'[resolved'[i]] # "none"
    BY <1>3, <1>4 DEF RequestInv, Known
  <2>5. \A k \in DOMAIN buffer' : stepState'[buffer'[k].step] = "ok"
    <3>1. \A k \in DOMAIN buffer : buffer[k].step \in Steps /\ stepState[buffer[k].step] = "ok"
      BY <1>2, ResultFields DEF RequestInv, Known
    <3>2. QED BY <1>3, <1>5, <3>1
  <2>6. QED BY <2>1, <2>2, <2>3, <2>4, <2>5 DEF Known
<1>8. Buffered'
  <2>1. \A k \in DOMAIN buffer' : buffer'[k].kind = "ok" /\ memo[buffer'[k].step] = "none"
    BY <1>1, <1>5 DEF RequestInv, Buffered, AllOk, AllNew
  <2>2. ASSUME NEW k \in DOMAIN buffer'
        PROVE  buffer'[k].step \notin Waits /\ Backed(memo, buffer', k, CallAfter[buffer'[k].step])
    <3>1. CASE k = Len(buffer) + 1
      <4>1. Backed(memo, buffer, Len(buffer) + 1, CallAfter[pc.step])
        <5>1. Reached(CallAfter[pc.step])
          BY <1>1 DEF RequestInv, Entitled
        <5>2. QED BY <1>1, <5>1, Alternatives, ReachedBacked DEF RequestInv
      <4>2. \A j \in 1 .. k - 1 : buffer'[j] = buffer[j]
        BY <1>5, <3>1
      <4>3. buffer'[k].step = pc.step
        BY <1>5, <3>1
      <4>4. QED BY <1>1, <3>1, <4>1, <4>2, <4>3 DEF Backed
    <3>2. CASE k # Len(buffer) + 1
      <4>1. k \in DOMAIN buffer /\ buffer'[k] = buffer[k] /\ \A j \in 1 .. k - 1 : buffer'[j] = buffer[j]
        BY <1>5, <3>2
      <4>2. buffer[k].step \notin Waits /\ Backed(memo, buffer, k, CallAfter[buffer[k].step])
        BY <4>1 DEF RequestInv, Buffered, InOrder
      <4>3. QED BY <4>1, <4>2 DEF Backed
    <3>3. QED BY <3>1, <3>2
  <2>3. ~(StepMode(req) = "Async" \/ req.attempt > 0)
    OBVIOUS
  <2>4. QED BY <2>1, <2>2, <2>3 DEF Buffered, InOrder, AllOk, AllNew, StepMode
<1>9. pc'.at \in {"loop", "checkpoint"} /\ pc'.then \notin {"stepRan", "plan"}
  <2> DEFINE then == [PcAt("loop") EXCEPT !.then = "loop"]
  <2>1. then \in Pc /\ then.then = "loop"
    BY DEF PcAt, Pc, Location, Continuation, ResultKind
  <2>2. CASE StartCheckpoint(then)
    BY <2>1, <2>2, StartsCheckpoint DEF StartCheckpoint, Pc
  <2>3. CASE pc' = PcAt("loop")
    BY <2>3 DEF PcAt
  <2>4. QED BY <2>2, <2>3 DEF ResumeUser
<1>10. Entitled'
  <2>1. \A s \in found : Reached(CallAfter[s])'
    BY <1>6, ReachedMore DEF RequestInv, Entitled
  <2>2. Reached(ReturnAfter) => Reached(ReturnAfter)'
    BY <1>6, ReachedMore
  <2>3. ToSet(resolved)' \cup toReport' \subseteq found'
    BY <1>1, <1>4 DEF RequestInv, Entitled, ToSet
  <2>4. QED BY <1>9, <2>1, <2>2, <2>3 DEF RequestInv, Entitled
<1>11. QED BY <1>7, <1>8, <1>9, <1>10 DEF Kept, RequestInv

LEMMA CheckpointingStepEndsKeeps ==
  ASSUME TypeOK, RequestInv, ~recorded, CheckpointingStepEnds, UNCHANGED <<memo, recorded>>
  PROVE  Kept
<1> DEFINE result == [step |-> pc.step, kind |-> "ok"]
<1>1. pc.at = "exec" /\ StepMode(req) = "AsyncCheckpointing"
      /\ UNCHANGED <<req, order, found, toReport, queue>>
  BY DEF CheckpointingStepEnds, requestVars
<1>2. CASE req.attempt > 0
  <2>1. pc.step \in found \ Waits /\ buffer = <<>>
    BY <1>1, <1>2 DEF RequestInv, Entitled, Buffered
  <2>2. result.step = pc.step /\ Backed(memo, <<result>>, 1, CallAfter[pc.step])
    BY <2>1, CalledRecorded
  <2>3. StepRan(result) /\ UNCHANGED <<stepState, resolved, buffer>>
    BY <1>2 DEF CheckpointingStepEnds
  <2>4. CoreGoes
    BY <2>1, <2>2, <2>3, StepRanGoes
  <2>5. QED BY <1>1, <2>3, <2>4, CoreKeeps
<1>3. CASE ~(req.attempt > 0)
  <2>1. req.attempt = 0
    BY <1>3, OptionsAssumption DEF TypeOK, Request
  <2>2. ResumeUser(BufferedSteps)
    BY <1>3 DEF CheckpointingStepEnds
  <2>3. QED BY <1>1, <2>1, <2>2, ResumeUserKeeps
<1>4. QED BY <1>2, <1>3

LEMMA AsyncFunctionResolvedKeeps ==
  ASSUME TypeOK, RequestInv, AsyncFunctionResolved, UNCHANGED <<memo, recorded>>
  PROVE  Kept
<1> DEFINE planning == [EmptyBatch EXCEPT !.plan = PlannedSteps(found), !.defers = lazy]
           complete == [EmptyBatch EXCEPT !.defers = lazy, !.end = "complete"]
<1>1. TakeCheckpoint("function-resolved") /\ StepMode(req) = "Async"
      /\ UNCHANGED <<req, order, stepState, resolved, found, toReport, buffer>>
  BY DEF AsyncFunctionResolved, requestVars, userVars
<1>2. Reached(ReturnAfter) /\ buffer = <<>>
  BY <1>1, TakenSteps DEF RequestInv, Buffered
<1>3. Answer(planning)
  <2>1. planning.ran = <<>> /\ planning.end = "none" /\ planning.plan = PlannedSteps(found)
    BY BatchFields
  <2>2. DOMAIN buffer = {}
    BY <1>2
  <2>3. Due(memo, PlannedSteps(found))
    BY <2>2, PlannedDue
  <2>4. QED BY <2>1, <2>3, NoResults
<1>4. Answer(complete)
  <2>1. complete.ran = <<>> /\ complete.end = "complete" /\ complete.plan = {}
    BY BatchFields
  <2>2. Backed(memo, <<>>, 1, ReturnAfter)
    BY <1>2, Alternatives, ReachedRecorded DEF RequestInv
  <2>3. DOMAIN <<>> = {} /\ Len(<<>>) + 1 = 1
    OBVIOUS
  <2>4. QED BY <2>1, <2>2, <2>3, NonePlanned DEF Answer, InOrder, AllOk, AllNew
<1>5. CoreGoes
  BY <1>3, <1>4, Returns DEF AsyncFunctionResolved
<1>6. QED BY <1>1, <1>5, TakesCheckpoint, CoreKeeps

\* Whatever user code has called, it called on the results it had.
LEMMA CalledOnSettled ==
  ASSUME Entitled
  PROVE  CalledOn(found, Settled)
<1>1. Settled \subseteq found
  BY DEF Settled, Entitled
<1>2. \A s \in found : \E A \in CallAfter[s] : A \subseteq Settled
  BY DEF Entitled, Reached
<1>3. QED BY <1>1, <1>2 DEF CalledOn

\* A function that has returned awaits no wait.
LEMMA NoWaitLeft ==
  ASSUME TypeOK, RequestInv, Checkpointing, Reached(ReturnAfter)
  PROVE  Due(memo, PlannedSteps(found))
<1> SUFFICES ASSUME WaitsAwaited PROVE Due(memo, PlannedSteps(found))
  BY DEF Due
<1>1. CalledOn(found, Settled) /\ ReturnsOn(Settled)
  BY CalledOnSettled DEF Reached, ReturnsOn, RequestInv
<1>2. found \cap Waits \subseteq Settled
  BY <1>1 DEF WaitsAwaited, CalledOn, TypeOK
<1>3. \A s \in Settled : stepState[s] # "none"
  BY DEF Settled, ToSet, RequestInv, Known
<1>4. PlannedSteps(found) \cap Waits = {}
  BY <1>2, <1>3 DEF PlannedSteps, NewSteps
<1>5. QED BY <1>4 DEF Due

LEMMA CheckpointingFunctionResolvedKeeps ==
  ASSUME TypeOK, RequestInv, ~recorded, CheckpointingFunctionResolved,
         UNCHANGED <<memo, recorded>>
  PROVE  Kept
<1> DEFINE planning == [EmptyBatch EXCEPT !.plan = PlannedSteps(found), !.defers = lazy]
           complete == [EmptyBatch EXCEPT !.ran = buffer, !.defers = lazy, !.end = "complete"]
<1>1. /\ TakeCheckpoint("function-resolved")
      /\ UNCHANGED <<req, order, stepState, resolved, found, toReport, buffer>>
      /\ Return("steps-found", planning, FALSE) \/ Return("steps-found", complete, FALSE)
  BY DEF CheckpointingFunctionResolved, ResolvedAs, requestVars, userVars
<1>2. Reached(ReturnAfter) /\ Checkpointing
  BY <1>1, TakenSteps DEF CheckpointingFunctionResolved, ResolvedAs, StepMode
<1>3. Answer(planning)
  <2>1. planning.ran = <<>> /\ planning.end = "none" /\ planning.plan = PlannedSteps(found)
    BY BatchFields
  <2>2. Due(memo, PlannedSteps(found))
    BY <1>2, NoWaitLeft
  <2>3. QED BY <2>1, <2>2, NoResults
<1>4. Answer(complete)
  <2>1. complete.ran = buffer /\ complete.plan = {}
    BY BatchFields
  <2>2. Backed(memo, buffer, Len(buffer) + 1, ReturnAfter)
    BY <1>2, Alternatives, ReachedBacked DEF RequestInv
  <2>3. InOrder(memo, buffer) /\ AllOk(buffer) /\ AllNew(buffer)
    BY DEF RequestInv, Buffered
  <2>4. QED BY <2>1, <2>2, <2>3, NonePlanned DEF Answer
<1>5. CoreGoes
  BY <1>1, <1>3, <1>4, Returns
<1>6. QED BY <1>1, <1>5, TakesCheckpoint, CoreKeeps

LEMMA AsyncFunctionRejectedKeeps ==
  ASSUME TypeOK, RequestInv, AsyncFunctionRejected, UNCHANGED <<memo, recorded>>
  PROVE  Kept
<1>1. TakeCheckpoint("function-rejected")
      /\ UNCHANGED <<req, order, stepState, resolved, found, toReport, buffer>>
  BY DEF AsyncFunctionRejected, requestVars, userVars
<1>2. CoreGoes
  BY Rejects DEF AsyncFunctionRejected
<1>3. QED BY <1>1, <1>2, TakesCheckpoint, CoreKeeps

LEMMA CheckpointingFunctionRejectedKeeps ==
  ASSUME TypeOK, RequestInv, CheckpointingFunctionRejected, UNCHANGED <<memo, recorded>>
  PROVE  Kept
<1> DEFINE then == [PcAt("loop") EXCEPT !.then = "reject", !.final = Head(queue).final]
<1>1. TakeCheckpoint("function-rejected")
      /\ UNCHANGED <<req, order, stepState, resolved, found, toReport, buffer>>
  BY DEF CheckpointingFunctionRejected, requestVars, userVars
<1>2. then \in Pc /\ then.then = "reject"
  <2>1. Head(queue).final \in BOOLEAN
    BY <1>1, HeadStepsType
  <2>2. QED BY <2>1 DEF PcAt, Pc, Location, Continuation, ResultKind
<1>3. CoreGoes
  <2>1. CASE buffer # <<>> \/ lazy # {}
    BY <1>2, <2>1, StartsCheckpoint DEF CheckpointingFunctionRejected
  <2>2. CASE ~(buffer # <<>> \/ lazy # {})
    BY <2>2, Rejects DEF CheckpointingFunctionRejected
  <2>3. QED BY <2>1, <2>2
<1>4. QED BY <1>1, <1>3, TakesCheckpoint, CoreKeeps

LEMMA StepNotFoundKeeps ==
  ASSUME TypeOK, RequestInv, StepNotFound, UNCHANGED <<memo, recorded>>
  PROVE  Kept
<1>1. TakeCheckpoint("step-not-found")
      /\ UNCHANGED <<req, order, stepState, resolved, found, toReport, buffer>>
  BY DEF StepNotFound, requestVars, userVars, shipVars
<1>2. Answer(EmptyBatch)
  BY BatchFields, NoResults, NonePlanned
<1>3. CoreGoes
  BY <1>2, Returns DEF StepNotFound
<1>4. QED BY <1>1, <1>3, TakesCheckpoint, CoreKeeps

LEMMA RuntimeReachedKeeps ==
  ASSUME TypeOK, RequestInv, RuntimeReached, UNCHANGED <<memo, recorded>>
  PROVE  Kept
<1>1. TakeCheckpoint("checkpointing-runtime-reached") /\ pc' = pc
      /\ UNCHANGED <<req, order, stepState, resolved, found, toReport, buffer>>
  BY DEF RuntimeReached, requestVars, userVars, shipVars
<1>2. CoreGoes
  BY <1>1, TakesCheckpoint DEF CoreGoes, RequestInv, Entitled
<1>3. QED BY <1>1, <1>2, TakesCheckpoint, CoreKeeps

LEMMA BufferIntervalReachedKeeps ==
  ASSUME TypeOK, RequestInv, BufferIntervalReached, UNCHANGED <<memo, recorded>>
  PROVE  Kept
<1> DEFINE then == [PcAt("loop") EXCEPT !.then = "loop"]
<1>1. TakeCheckpoint("checkpointing-buffer-interval-reached")
      /\ UNCHANGED <<req, order, stepState, resolved, found, toReport, buffer>>
  BY DEF BufferIntervalReached, requestVars, userVars
<1>2. then \in Pc /\ then.then = "loop"
  BY DEF PcAt, Pc, Location, Continuation, ResultKind
<1>3. CoreGoes
  BY <1>2, StartsCheckpoint DEF BufferIntervalReached
<1>4. QED BY <1>1, <1>3, TakesCheckpoint, CoreKeeps

LEMMA EngineKeeps ==
  ASSUME TypeOK, RequestInv, ~recorded \/ pc.at = "checkpoint",
         EngineStep \/ BodySucceeds \/ BodyThrows, UNCHANGED <<memo, recorded>>
  PROVE  Kept
<1>1. CASE UserCalls \/ FunctionReturns \/ FunctionThrows \/ HandleMemoized \/ ReportFound \/ TimerFires
  BY <1>1, UserCallsKeeps, FunctionReturnsKeeps, FunctionThrowsKeeps, HandleMemoizedKeeps,
     ReportFoundKeeps, TimerFiresKeeps
<1>2. CASE AsyncStepsFound \/ CheckpointingStepsFound
  BY <1>2, AsyncStepsFoundKeeps, CheckpointingStepsFoundKeeps
<1>3. CASE AsyncFunctionResolved \/ CheckpointingFunctionResolved
  <2>1. ~recorded
    BY <1>3 DEF AsyncFunctionResolved, CheckpointingFunctionResolved, ResolvedAs, TakeCheckpoint
  <2>2. QED BY <1>3, <2>1, AsyncFunctionResolvedKeeps, CheckpointingFunctionResolvedKeeps
<1>4. CASE AsyncFunctionRejected \/ CheckpointingFunctionRejected
  BY <1>4, AsyncFunctionRejectedKeeps, CheckpointingFunctionRejectedKeeps
<1>5. CASE StepNotFound \/ RuntimeReached \/ BufferIntervalReached
  BY <1>5, StepNotFoundKeeps, RuntimeReachedKeeps, BufferIntervalReachedKeeps
<1>6. CASE BodySucceeds
  <2>1. CASE CheckpointingStepEnds
    <3>1. ~recorded
      BY <2>1 DEF CheckpointingStepEnds
    <3>2. QED BY <2>1, <3>1, CheckpointingStepEndsKeeps
  <2>2. CASE AsyncStepEnds("ok")
    BY <2>2, AsyncStepEndsKeeps
  <2>3. QED BY <1>6, <2>1, <2>2 DEF BodySucceeds
<1>7. CASE BodyThrows
  <2>1. PICK kind \in ResultKind : AsyncStepEnds(kind) \/ CheckpointingStepThrows(kind)
    BY <1>7 DEF BodyThrows, ResultKind
  <2>2. QED BY <2>1, AsyncStepEndsKeeps, CheckpointingStepThrowsKeeps
<1>8. QED BY <1>1, <1>2, <1>3, <1>4, <1>5, <1>6, <1>7 DEF EngineStep

-----------------------------------------------------------------------------
(* The end of a checkpoint call.                                           *)

\* With every result recorded or gone into the answer, the core loop goes on.
LEMMA ContinueGoes ==
  ASSUME TypeOK, RequestInv, pc.at = "checkpoint", Continue,
         \A k \in DOMAIN buffer : memo[buffer[k].step] = "ok"
  PROVE  CoreGoes /\ pc'.at \in {"loop", "done"}
<1>1. CASE pc.then = "loop"
  BY <1>1 DEF Continue, PcAt, CoreGoes
<1>2. CASE pc.then \in {"plan", "planAll"}
  <2> DEFINE steps == IF pc.then = "plan" THEN pc.steps ELSE found
  <2>1. steps \subseteq found
    BY <1>2 DEF RequestInv, Entitled
  <2>2. Due(memo, PlannedSteps(steps))
    BY <2>1, PlannedDue
  <2>3. MaybeReturnNewSteps(steps)
    BY <1>2 DEF Continue
  <2>4. QED BY <2>2, <2>3, MaybeReturns
<1>3. CASE pc.then = "stepRan"
  <2> DEFINE result == [step |-> pc.step, kind |-> pc.kind]
  <2>1. pc.step \in found \ Waits
    BY <1>3 DEF RequestInv, Entitled
  <2>2. result.step = pc.step /\ Backed(memo, <<result>>, 1, CallAfter[pc.step])
    BY <2>1, CalledRecorded
  <2>3. StepRan(result)
    BY <1>3 DEF Continue
  <2>4. QED BY <2>1, <2>2, <2>3, StepRanGoes
<1>4. CASE pc.then \notin {"loop", "plan", "planAll", "stepRan"}
  BY <1>4, Rejects DEF Continue
<1>5. QED BY <1>1, <1>2, <1>3, <1>4

\* The buffer is emptied once it is recorded, or when it was empty.
LEMMA BufferEmptied ==
  ASSUME TypeOK, RequestInv, \A k \in DOMAIN buffer : memo[buffer[k].step] = "ok",
         pc'.at = "loop" => pc'.then = "none", buffer' = <<>>, CoreGoes, pc'.at \in {"loop", "done"},
         UNCHANGED <<memo, req, order, stepState, resolved, found, toReport, queue>>,
         recorded' = FALSE
  PROVE  Kept
<1>1. Settled \subseteq Settled'
  BY DEF Settled
<1>2. DOMAIN <<>> = {}
  OBVIOUS
<1>3. Known'
  BY <1>2 DEF RequestInv, Known
<1>4. Buffered'
  BY <1>2 DEF Buffered, InOrder, AllOk, AllNew
<1>5. \A s \in found : Reached(CallAfter[s])'
  BY <1>1, ReachedMore DEF RequestInv, Entitled
<1>6. Reached(ReturnAfter) => Reached(ReturnAfter)'
  BY <1>1, ReachedMore
<1>7. Entitled'
  BY <1>5, <1>6 DEF RequestInv, Entitled, CoreGoes
<1>8. pc'.at = "done" => Answer(response.batch)'
  BY DEF CoreGoes, Answer, AllNew, Due
<1>9. QED BY <1>3, <1>4, <1>7, <1>8 DEF Kept, RequestInv

LEMMA LoopAgain ==
  ASSUME Continue
  PROVE  pc'.at = "loop" => pc'.then = "none"
<1>1. PcAt("loop").then = "none" /\ PcAt("done").at = "done"
  BY DEF PcAt
<1>2. QED BY <1>1 DEF Continue, MaybeReturnNewSteps, StepRan, Reject, Return

LEMMA CheckpointSucceedsKeeps ==
  ASSUME TypeOK, RequestInv, recorded, CheckpointSucceeds, UNCHANGED memo, recorded' = FALSE
  PROVE  Kept
<1>1. \A k \in DOMAIN buffer : memo[buffer[k].step] = "ok"
  BY DEF RequestInv, Buffered
<1>2. /\ pc.at = "checkpoint" /\ Continue /\ buffer' = <<>>
      /\ UNCHANGED <<req, order, stepState, resolved, found, toReport, queue>>
  BY DEF CheckpointSucceeds, requestVars, userVars
<1>3. QED BY <1>1, <1>2, ContinueGoes, LoopAgain, BufferEmptied

\* The call failed: the buffer is the answer, recorded or not.
LEMMA CheckpointFailsKeeps ==
  ASSUME TypeOK, RequestInv, CheckpointFails, UNCHANGED memo, recorded' = FALSE
  PROVE  Kept
<1> DEFINE batch == [EmptyBatch EXCEPT !.ran = buffer]
<1>1. /\ pc.at = "checkpoint" /\ buffer' = <<>>
      /\ UNCHANGED <<req, order, stepState, resolved, found, toReport, queue>>
  BY DEF CheckpointFails, requestVars, userVars
<1>2. CASE buffer # <<>>
  <2>1. batch.ran = buffer /\ batch.end = "none" /\ batch.plan = {}
    BY BatchFields
  <2>2. Answer(batch)
    BY <2>1, NonePlanned DEF Answer, RequestInv, Buffered
  <2>3. CoreGoes /\ pc'.at = "done"
    BY <1>2, <2>2, Returns DEF CheckpointFails
  <2>4. QED BY <2>3 DEF Kept, Running, CoreGoes, Answer, AllNew, Due
<1>3. CASE buffer = <<>>
  <2>1. DOMAIN buffer = {}
    BY <1>3
  <2>2. Continue
    BY <1>3 DEF CheckpointFails
  <2>3. QED BY <1>1, <2>1, <2>2, ContinueGoes, LoopAgain, BufferEmptied
<1>4. QED BY <1>2, <1>3

\* The server applies the checkpoint: the buffer becomes recorded.
LEMMA RecordCheckpointKeeps ==
  ASSUME RunTypeOK, RunTypeOK', Server, Ordered, RequestInv, RecordCheckpoint
  PROVE  Kept
<1>1. /\ pc.at = "checkpoint" /\ ~recorded /\ recorded' = TRUE /\ RecordResults(CheckpointBatch)
      /\ UNCHANGED <<req, order, stepState, resolved, found, toReport, queue, buffer, pc>>
  BY DEF RecordCheckpoint, engineVars, requestVars, userVars, shipVars
<1>2. CheckpointBatch \in Batch /\ CheckpointBatch.ran = buffer
  <2>1. CheckpointBatch \in Batch
    BY EmptyBatchType DEF CheckpointBatch, Batch, RunTypeOK, TypeOK, Pc
  <2>2. QED BY <2>1, BatchFields DEF CheckpointBatch
<1>3. InOrder(memo, buffer) /\ AllOk(buffer) /\ AllNew(buffer)
  BY <1>1 DEF RequestInv, Buffered
<1>4. /\ \A s \in Steps : Passes(memo, s) => Passes(memo', s)
      /\ \A s \in Steps : memo[s] # "none" => memo'[s] = memo[s]
      /\ \A s \in Steps : memo'[s] # memo[s] => \E k \in DOMAIN buffer : buffer[k].step = s
      /\ \A k \in DOMAIN buffer : memo'[buffer[k].step] = "ok"
  BY <1>1, <1>2, <1>3, Recording
<1>5. buffer \in Seq(Result) /\ \A k \in DOMAIN buffer : buffer[k].step \in Steps
  BY ResultFields DEF RunTypeOK, TypeOK
<1>6. Known'
  <2>1. ASSUME NEW s \in Steps
        PROVE  memo'[s] \in {"none", stepState[s]} \/ (s \in Waits /\ stepState[s] = "none")
    <3>1. CASE memo'[s] = memo[s]
      BY <3>1 DEF RequestInv, Known
    <3>2. CASE memo'[s] # memo[s]
      <4>1. PICK k \in DOMAIN buffer : buffer[k].step = s
        BY <1>4, <3>2
      <4>2. memo'[s] = "ok" /\ memo[s] = "none"
        BY <1>3, <1>4, <4>1 DEF AllNew
      <4>3. stepState[s] = "ok"
        BY <4>1 DEF RequestInv, Known
      <4>4. QED BY <4>2, <4>3
    <3>3. QED BY <3>1, <3>2
  <2>2. QED BY <1>1, <1>4, <2>1 DEF RequestInv, Known
<1>7. Buffered'
  <2>1. InOrder(memo', buffer)
    BY <1>3, <1>4, <1>5, InOrderBy
  <2>2. QED BY <1>1, <1>4, <2>1 DEF RequestInv, Buffered, AllOk, StepMode
<1>8. Settled' = Settled
  BY <1>1 DEF Settled
<1>9. Entitled'
  <2>1. \A s \in found : Reached(CallAfter[s])'
    BY <1>8, ReachedMore DEF RequestInv, Entitled
  <2>2. Reached(ReturnAfter) => Reached(ReturnAfter)'
    BY <1>8, ReachedMore
  <2>3. QED BY <1>1, <2>1, <2>2 DEF RequestInv, Entitled, StepMode
<1>10. QED BY <1>1, <1>6, <1>7, <1>9 DEF Kept, RequestInv

-----------------------------------------------------------------------------
(* The run.                                                                *)

\* What remains to say of a step that the server takes no part in.
LEMMA ServerKeeps ==
  ASSUME PromiseInv, UNCHANGED <<memo, completion, planned, outcome>>,
         outcome # "running" => pc'.at = "off", recorded' => pc'.at = "checkpoint",
         ~stale' => Kept
  PROVE  PromiseInv'
<1>1. Server'
  BY DEF PromiseInv, Server
<1>2. Ordered'
  BY DEF PromiseInv, Ordered, RecordedInProgramOrder
<1>3. QED BY <1>1, <1>2 DEF PromiseInv, Kept, RequestInv

LEMMA EngineLocation ==
  ASSUME EngineStep \/ BodySucceeds \/ BodyThrows
  PROVE  Running /\ (pc.at = "checkpoint" => pc' = pc)
<1>1. CASE UserCalls \/ FunctionReturns \/ FunctionThrows \/ HandleMemoized \/ ReportFound \/ TimerFires
  BY <1>1 DEF UserCalls, FunctionReturns, FunctionThrows, HandleMemoized, ReportFound, TimerFires
<1>2. CASE ~(UserCalls \/ FunctionReturns \/ FunctionThrows \/ HandleMemoized \/ ReportFound \/ TimerFires)
  <2>1. pc.at \in {"loop", "exec"}
    BY <1>2 DEF EngineStep, BodySucceeds, BodyThrows, AsyncStepsFound, CheckpointingStepsFound,
       AsyncFunctionResolved, CheckpointingFunctionResolved, ResolvedAs, AsyncFunctionRejected,
       CheckpointingFunctionRejected, StepNotFound, RuntimeReached, BufferIntervalReached,
       TakeCheckpoint, CheckpointingStepEnds, AsyncStepEnds, CheckpointingStepThrows
  <2>2. QED BY <2>1 DEF Running
<1>3. QED BY <1>1, <1>2

LEMMA DispatchKeeps ==
  ASSUME RunTypeOK, PromiseInv, Dispatch
  PROVE  PromiseInv'
<1>1. /\ stepState' = memo /\ order' = completion /\ found' = {} /\ resolved' = <<>> /\ toReport' = {}
      /\ queue' = <<>> /\ pc' = PcAt("loop") /\ buffer' = <<>> /\ recorded' = FALSE /\ outcome = "running"
      /\ UNCHANGED <<memo, completion, planned, outcome>>
  BY DEF Dispatch, StartRequest, serverVars
<1>2. DOMAIN <<>> = {}
  OBVIOUS
<1>3. Known'
  <2>1. \A i \in DOMAIN completion : completion[i] \in Steps /\ memo[completion[i]] # "none"
    <3>1. \A i \in DOMAIN completion : completion[i] \in Steps
      BY DEF RunTypeOK
    <3>2. QED BY <3>1 DEF PromiseInv, Server
  <2>2. QED BY <1>1, <1>2, <2>1 DEF Known
<1>4. Buffered'
  BY <1>1, <1>2 DEF Buffered, InOrder, AllOk, AllNew
<1>5. pc'.at = "loop" /\ pc'.then = "none"
  BY <1>1 DEF PcAt
<1>6. Entitled'
  <2>1. ToSet(<<>>) = {}
    BY <1>2 DEF ToSet
  <2>2. QED BY <1>1, <1>2, <1>5, <2>1 DEF Entitled
<1>7. Kept
  BY <1>3, <1>4, <1>5, <1>6 DEF Kept, RequestInv
<1>8. QED BY <1>1, <1>7, ServerKeeps

LEMMA EngineMovesKeeps ==
  ASSUME RunTypeOK, PromiseInv, EngineStep \/ BodySucceeds \/ BodyThrows,
         UNCHANGED <<serverVars, stale, recorded>>
  PROVE  PromiseInv'
<1>1. Running /\ (pc.at = "checkpoint" => pc' = pc)
  BY EngineLocation
<1>2. outcome = "running" /\ (recorded => pc'.at = "checkpoint") /\ (~recorded \/ pc.at = "checkpoint")
  BY <1>1 DEF PromiseInv, Server, Running
<1>3. UNCHANGED <<memo, completion, planned, outcome, recorded, stale>>
  BY DEF serverVars
<1>4. ~stale => Kept
  BY <1>1, <1>2, <1>3, EngineKeeps DEF RunTypeOK, PromiseInv, RequestInv
<1>5. QED BY <1>2, <1>3, <1>4, ServerKeeps

LEMMA CheckpointEndKeeps ==
  ASSUME RunTypeOK, PromiseInv, CheckpointOk \/ CheckpointRefused \/ CheckpointLost
  PROVE  PromiseInv'
<1>0. recorded \in BOOLEAN
  BY DEF RunTypeOK
<1>1. /\ UNCHANGED <<memo, completion, planned, outcome, stale>> /\ pc.at = "checkpoint" /\ recorded' = FALSE
  BY <1>0 DEF CheckpointOk, CheckpointRefused, CheckpointLost, CheckpointSucceeds, CheckpointIsStale,
     CheckpointFails, serverVars
<1>2. outcome = "running" /\ Running
  BY <1>1 DEF PromiseInv, Server, Running
<1>3. ~stale => RequestInv
  BY <1>2 DEF PromiseInv, RequestInv
<1>4. ~stale => Kept
  <2>1. CASE CheckpointOk
    BY <1>1, <1>3, <2>1, CheckpointSucceedsKeeps DEF CheckpointOk, RunTypeOK
  <2>2. CASE CheckpointLost
    BY <1>1, <1>3, <2>2, CheckpointFailsKeeps DEF CheckpointLost, RunTypeOK
  <2>3. CASE CheckpointRefused
    BY <2>3 DEF CheckpointRefused
  <2>4. QED BY <2>1, <2>2, <2>3
<1>5. QED BY <1>1, <1>2, <1>4, ServerKeeps

LEMMA FaultKeeps ==
  ASSUME RunTypeOK, PromiseInv, Crash \/ GiveUp
  PROVE  PromiseInv'
<1>1. CASE Crash
  <2>1. UNCHANGED <<memo, completion, planned, outcome>> /\ recorded' = FALSE /\ pc' = PcAt("off")
    BY <1>1 DEF Crash, serverVars
  <2>2. pc'.at = "off"
    BY <2>1 DEF PcAt
  <2>3. Kept
    BY <2>2 DEF Kept, Running
  <2>4. QED BY <2>1, <2>2, <2>3, ServerKeeps
<1>2. CASE GiveUp
  <2>1. UNCHANGED <<memo, completion, planned, outcome, recorded, pc>> /\ stale' = TRUE
    BY <1>2 DEF GiveUp, serverVars, engineVars
  <2>2. QED BY <2>1, ServerKeeps DEF PromiseInv, Server
<1>3. QED BY <1>1, <1>2

\* What the server records at the end of a request.
LEMMA AppliedResponse ==
  ASSUME RunTypeOK, RunTypeOK', PromiseInv, ApplyResponse, ~stale
  PROVE  /\ RecordResults(response.batch) /\ Answer(response.batch) /\ response.batch \in Batch
         /\ Promise!Grows /\ Ordered'
         /\ \A s \in Steps : memo'[s] # "none" <=> \E i \in DOMAIN completion' : completion'[i] = s
         /\ \A s \in Steps : Passes(memo, s) => Passes(memo', s)
         /\ \A s \in Waits : memo'[s] = memo[s]
         /\ AllOk(response.batch.ran) /\ AllNew(response.batch.ran) =>
              \A k \in DOMAIN response.batch.ran : memo'[response.batch.ran[k].step] = "ok"
<1> DEFINE batch == response.batch
<1>1. RecordResults(batch) /\ pc.at = "done"
  BY DEF ApplyResponse
<1>2. Answer(batch) /\ batch \in Batch
  BY <1>1 DEF PromiseInv, RunTypeOK, TypeOK, Response
<1>3. InOrder(memo, batch.ran) /\ (AllOk(batch.ran) \/ Len(batch.ran) = 1)
  BY <1>2 DEF Answer
<1>4. \A s \in Steps : memo'[s] # memo[s] => \E k \in DOMAIN batch.ran : batch.ran[k].step = s
  BY <1>1, <1>2, <1>3, Recording DEF PromiseInv
<1>5. \A s \in Waits : memo'[s] = memo[s]
  BY <1>3, <1>4, UserCodeAssumption DEF InOrder
<1>6. QED BY <1>1, <1>2, <1>3, <1>5, Recording DEF PromiseInv

LEMMA ApplyResponseKeeps ==
  ASSUME RunTypeOK, RunTypeOK', PromiseInv, ApplyResponse
  PROVE  PromiseInv'
<1>1. pc.at = "done" /\ pc' = PcAt("off") /\ UNCHANGED <<recorded, stale>>
  BY DEF ApplyResponse
<1>2. pc'.at = "off"
  BY <1>1 DEF PcAt
<1>3. ~recorded' /\ Kept
  BY <1>1, <1>2 DEF PromiseInv, Server, Kept, Running
<1>4. CASE stale
  <2>1. UNCHANGED <<memo, completion, planned, outcome>>
    BY <1>4 DEF ApplyResponse, serverVars
  <2>2. QED BY <1>2, <1>3, <2>1, ServerKeeps
<1>5. CASE ~stale
  <2> DEFINE batch == response.batch
  <2>1. /\ Answer(batch) /\ Ordered'
        /\ \A s \in Steps : memo'[s] # "none" <=> \E i \in DOMAIN completion' : completion'[i] = s
        /\ \A s \in Steps : Passes(memo, s) => Passes(memo', s)
        /\ \A s \in Waits : memo'[s] = memo[s]
    BY <1>5, AppliedResponse
  <2>2. Due(memo', planned) /\ Due(memo', batch.plan) /\ \A s \in planned \cap Waits : memo'[s] = "none"
    BY <2>1, DueBy DEF PromiseInv, Server, Answer
  <2>3. planned' = planned \/ planned' = {s \in (planned \ {req.step}) \cup batch.plan : memo'[s] = "none"}
    BY <1>5 DEF ApplyResponse
  <2>4. Due(memo', planned') /\ \A s \in planned' \cap Waits : memo'[s] = "none"
    <3>1. CASE planned' = planned
      BY <2>2, <3>1
    <3>2. CASE planned' = {s \in (planned \ {req.step}) \cup batch.plan : memo'[s] = "none"}
      BY <2>2, <3>2 DEF Due
    <3>3. QED BY <2>3, <3>1, <3>2
  <2>5. QED BY <1>2, <1>3, <1>5, <2>1, <2>4 DEF PromiseInv, Server, Kept, Running
<1>6. QED BY <1>4, <1>5

LEMMA RecordedKeeps ==
  ASSUME RunTypeOK, RunTypeOK', PromiseInv, RecordCheckpoint
  PROVE  PromiseInv' /\ Promise!Grows
<1>1. /\ pc.at = "checkpoint" /\ ~stale /\ ~recorded /\ RecordResults(CheckpointBatch)
      /\ UNCHANGED <<pc, stale, outcome, planned>>
  BY DEF RecordCheckpoint, engineVars
<1>2. RequestInv
  BY <1>1 DEF PromiseInv, RequestInv, Running
<1>3. CheckpointBatch \in Batch /\ CheckpointBatch.ran = buffer
  <2>1. CheckpointBatch \in Batch
    BY EmptyBatchType DEF CheckpointBatch, Batch, RunTypeOK, TypeOK, Pc
  <2>2. QED BY <2>1, BatchFields DEF CheckpointBatch
<1>4. InOrder(memo, buffer) /\ AllOk(buffer)
  BY <1>2 DEF RequestInv, Buffered
<1>5. /\ Promise!Grows /\ Ordered'
      /\ \A s \in Steps : memo'[s] # "none" <=> \E i \in DOMAIN completion' : completion'[i] = s
  BY <1>1, <1>3, <1>4, Recording DEF PromiseInv
<1>6. Kept
  BY <1>2, RecordCheckpointKeeps DEF PromiseInv
<1>7. /\ \A s \in Steps : Passes(memo, s) => Passes(memo', s)
      /\ \A s \in Steps : memo'[s] # memo[s] => \E k \in DOMAIN buffer : buffer[k].step = s
  BY <1>1, <1>3, <1>4, Recording DEF PromiseInv
<1>8. \A s \in planned \cap Waits : memo'[s] = "none"
  BY <1>4, <1>7, UserCodeAssumption DEF InOrder, PromiseInv, Server
<1>9. Due(memo', planned)
  BY <1>7, DueBy DEF PromiseInv, Server
<1>10. Server'
  BY <1>1, <1>5, <1>8, <1>9 DEF PromiseInv, Server
<1>11. QED BY <1>1, <1>5, <1>6, <1>10 DEF PromiseInv, Kept, RequestInv

\* A wait ends, on what the server had when it was planned; a request under way does not
\* know of it.
LEMMA WaitEndsKeeps ==
  ASSUME RunTypeOK, RunTypeOK', PromiseInv, NEW w \in Waits, WaitEnds(w)
  PROVE  PromiseInv' /\ (WaitsAwaited => Promise!Grows)
<1>1. /\ w \in Steps /\ memo[w] = "none"
      /\ WaitsAwaited => Backed(memo, <<>>, 1, CallAfter[w])
      /\ outcome = "running" /\ planned' = planned \ {w} /\ completion' = Append(completion, w)
      /\ UNCHANGED <<req, order, stepState, resolved, found, toReport, queue, buffer, pc, response,
                     outcome, stale, recorded>>
  BY UserCodeAssumption
  DEF WaitEnds, PromiseInv, Server, Due, engineVars, requestVars, userVars, shipVars
<1>2. /\ memo'[w] \in {"ok", "err"} /\ \A s \in Steps \ {w} : memo'[s] = memo[s]
      /\ memo' \in [Steps -> StepValue]
  BY <1>1 DEF WaitEnds, RunTypeOK
<1>3. \A s \in Steps : Passes(memo, s) => Passes(memo', s)
  BY <1>1, <1>2 DEF Passes
<1>4. ASSUME WaitsAwaited
      PROVE  \E A \in CallAfter[w] : \A s \in A : s \in Steps /\ Passes(memo, s)
  <2>1. PICK A \in CallAfter[w] : \A s \in A : Passes(memo, s) \/ \E j \in 1 .. 1 - 1 : <<>>[j].step = s
    BY <1>1, <1>4 DEF Backed
  <2>2. 1 .. 1 - 1 = {}
    OBVIOUS
  <2>3. QED BY <1>1, <2>1, <2>2, Alternatives
<1>5. /\ Len(completion) \in Nat /\ DOMAIN completion = 1 .. Len(completion)
      /\ DOMAIN completion' = 1 .. Len(completion) + 1 /\ completion'[Len(completion) + 1] = w
      /\ \A i \in 1 .. Len(completion) : completion'[i] = completion[i]
  BY <1>1 DEF RunTypeOK
<1>6. Ordered'
  <2> SUFFICES ASSUME WaitsAwaited, NEW i \in DOMAIN completion'
               PROVE  \E B \in CallAfter[completion'[i]] :
                        \A s \in B : \E j \in 1 .. i - 1 : completion'[j] = s
    BY DEF Ordered, RecordedInProgramOrder
  <2>0. PICK A \in CallAfter[w] : \A s \in A : s \in Steps /\ Passes(memo, s)
    BY <1>4
  <2>1. CASE i = Len(completion) + 1
    <3>1. ASSUME NEW s \in A
          PROVE  \E j \in 1 .. i - 1 : completion'[j] = s
      <4>1. memo[s] # "none" /\ s \in Steps
        BY <2>0 DEF Passes
      <4>2. PICK j \in DOMAIN completion : completion[j] = s
        BY <4>1 DEF PromiseInv, Server
      <4>3. QED BY <1>5, <2>1, <4>2
    <3>2. QED BY <1>5, <2>1, <3>1
  <2>2. CASE i # Len(completion) + 1
    <3>1. i \in DOMAIN completion /\ completion'[i] = completion[i]
      BY <1>5, <2>2
    <3>2. PICK B \in CallAfter[completion[i]] : \A s \in B : \E j \in 1 .. i - 1 : completion[j] = s
      BY <3>1 DEF PromiseInv, Ordered, RecordedInProgramOrder
    <3>3. \A j \in 1 .. i - 1 : completion'[j] = completion[j]
      BY <1>5, <3>1
    <3>4. QED BY <3>1, <3>2, <3>3
  <2>3. QED BY <2>1, <2>2
<1>7. Server'
  <2>1. \A s \in Steps : memo'[s] # "none" <=> \E i \in DOMAIN completion' : completion'[i] = s
    <3> TAKE s \in Steps
    <3>1. CASE s = w
      BY <1>2, <1>5, <3>1
    <3>2. CASE s # w
      <4>1. memo[s] # "none" <=> \E i \in DOMAIN completion : completion[i] = s
        BY DEF PromiseInv, Server
      <4>2. (\E i \in DOMAIN completion' : completion'[i] = s) <=> \E i \in DOMAIN completion : completion[i] = s
        BY <1>5, <3>2
      <4>3. QED BY <1>2, <3>2, <4>1, <4>2
    <3>3. QED BY <3>1, <3>2
  <2>2. \A s \in planned' \cap Waits : memo'[s] = "none"
    BY <1>1, <1>2, UserCodeAssumption DEF PromiseInv, Server
  <2>3. Due(memo', planned')
    <3>1. Due(memo, planned')
      BY <1>1 DEF PromiseInv, Server, Due
    <3>2. QED BY <1>3, <3>1, DueBy
  <2>4. QED BY <1>1, <2>1, <2>2, <2>3 DEF PromiseInv, Server
<1>8. ASSUME WaitsAwaited
      PROVE  Promise!Grows
  <2>0. PICK A \in CallAfter[w] : \A s \in A : s \in Steps /\ Passes(memo, s)
    BY <1>4, <1>8
  <2>1. A \subseteq Promise!Passed(memo')
    BY <1>3, <2>0 DEF Promise!Passed, Passes
  <2>2. Promise!Enough(memo', CallAfter[w])
    BY <2>1 DEF Promise!Enough
  <2>3. memo' \in [Steps -> Promise!StepValue]
    BY <1>2 DEF Promise!StepValue, StepValue
  <2>4. QED BY <1>1, <1>2, <2>2, <2>3 DEF Promise!Grows
<1>9. ASSUME Running, ~stale
      PROVE  Known' /\ Buffered' /\ Entitled'
  <2>1. RequestInv
    BY <1>9 DEF PromiseInv, RequestInv
  <2>2. \A k \in DOMAIN buffer : buffer[k].step \in Steps \ {w}
    <3>1. \A k \in DOMAIN buffer : buffer[k].step \in Steps
      BY ResultFields DEF RunTypeOK, TypeOK
    <3>2. QED BY <2>1, <3>1 DEF RequestInv, Buffered, InOrder
  <2>3. stepState[w] = "none"
    BY <1>1, <2>1, <2>2 DEF RequestInv, Known
  <2>4. Known'
    <3>1. \A s \in Steps : memo'[s] \in {"none", stepState[s]} \/ (s \in Waits /\ stepState[s] = "none")
      <4> TAKE s \in Steps
      <4>1. CASE s = w
        BY <2>3, <4>1
      <4>2. CASE s # w
        BY <1>2, <2>1, <4>2 DEF RequestInv, Known
      <4>3. QED BY <4>1, <4>2
    <3>2. \A s \in Steps : memo'[s] = "none" => memo[s] = "none"
      BY <1>1, <1>2
    <3>3. QED BY <1>1, <2>1, <3>1, <3>2 DEF RequestInv, Known
  <2>5. Buffered'
    <3>1. InOrder(memo', buffer)
      <4>1. buffer \in Seq(Result) /\ InOrder(memo, buffer)
        BY <2>1 DEF RunTypeOK, TypeOK, RequestInv, Buffered
      <4>2. QED BY <1>3, <4>1, InOrderBy
    <3>2. \A k \in DOMAIN buffer : memo'[buffer[k].step] = memo[buffer[k].step]
      BY <1>2, <2>2
    <3>3. QED BY <1>1, <2>1, <3>1, <3>2 DEF RequestInv, Buffered, AllOk, AllNew, StepMode
  <2>6. Entitled'
    <3>1. Settled' = Settled
      BY <1>1 DEF Settled
    <3>2. QED BY <1>1, <2>1, <3>1 DEF RequestInv, Entitled, Reached, StepMode
  <2>7. QED BY <2>4, <2>5, <2>6
<1>10. ASSUME pc.at = "done", ~stale
       PROVE  Answer(response.batch)'
  <2> DEFINE batch == response.batch
  <2>1. Answer(batch) /\ batch.ran \in Seq(Result)
    BY <1>10 DEF PromiseInv, RunTypeOK, TypeOK, Response, Batch
  <2>2. \A k \in DOMAIN batch.ran : memo'[batch.ran[k].step] = memo[batch.ran[k].step]
    <3>1. \A k \in DOMAIN batch.ran : batch.ran[k].step \in Steps \ {w}
      BY <2>1, ResultFields DEF Answer, InOrder
    <3>2. QED BY <1>2, <3>1
  <2>3. InOrder(memo', batch.ran)
    BY <1>3, <2>1, InOrderBy DEF Answer
  <2>4. Due(memo', batch.plan)
    BY <1>3, <2>1, DueBy DEF Answer
  <2>5. Backed(memo, batch.ran, Len(batch.ran) + 1, ReturnAfter)
          => Backed(memo', batch.ran, Len(batch.ran) + 1, ReturnAfter)
    BY <1>3, BackedBy, Alternatives
  <2>6. AllNew(batch.ran) => AllNew(batch.ran)'
    BY <1>1, <2>2 DEF AllNew
  <2>7. batch' = batch
    BY <1>1
  <2>8. QED BY <2>1, <2>3, <2>4, <2>5, <2>6, <2>7 DEF Answer, AllOk
<1>11. QED BY <1>1, <1>6, <1>7, <1>8, <1>9, <1>10 DEF PromiseInv, Running

LEMMA PromiseStep ==
  ASSUME RunTypeOK, RunTypeOK', PromiseInv, [Next]_vars
  PROVE  PromiseInv'
<1>1. CASE Ended \/ UNCHANGED vars
  <2>1. UNCHANGED <<req, order, stepState, resolved, found, toReport, buffer, queue, pc, response,
                    memo, completion, planned, outcome, stale, recorded>>
    BY <1>1 DEF Ended, vars, engineVars, requestVars, userVars, shipVars, serverVars
  <2>2. Server' /\ Ordered'
    BY <2>1 DEF PromiseInv, Server, Ordered, RecordedInProgramOrder, Due
  <2>3. Running /\ ~stale => (Known /\ Buffered)'
    BY <2>1 DEF PromiseInv, Known, Buffered, InOrder, AllOk, AllNew, StepMode
  <2>4. Running /\ ~stale => Entitled'
    BY <2>1 DEF PromiseInv, Entitled, StepMode, Reached, Settled
  <2>5. pc.at = "done" /\ ~stale => Answer(response.batch)'
    BY <2>1 DEF PromiseInv, Answer, InOrder, AllOk, AllNew, Due
  <2>6. QED BY <2>1, <2>2, <2>3, <2>4, <2>5 DEF PromiseInv, Running
<1>2. CASE EngineMoves \/ StepSucceeds \/ StepThrows
  BY <1>2, EngineMovesKeeps DEF EngineMoves, StepSucceeds, StepThrows
<1>3. CASE Dispatch
  BY <1>3, DispatchKeeps
<1>4. CASE RecordCheckpoint \/ ApplyResponse
  BY <1>4, RecordedKeeps, ApplyResponseKeeps
<1>5. CASE CheckpointOk \/ CheckpointRefused \/ CheckpointLost
  BY <1>5, CheckpointEndKeeps
<1>6. CASE Crash \/ GiveUp
  BY <1>6, FaultKeeps
<1>7. CASE \E w \in Waits : WaitEnds(w)
  BY <1>7, WaitEndsKeeps
<1>8. QED BY <1>1, <1>2, <1>3, <1>4, <1>5, <1>6, <1>7 DEF Next

LEMMA PromiseStart == ASSUME Init PROVE PromiseInv
<1>1. DOMAIN <<>> = {}
  OBVIOUS
<1>2. pc.at = "off"
  BY DEF Init, PcAt
<1>3. Server
  BY <1>1 DEF Init, Server, Due
<1>4. Ordered
  BY <1>1 DEF Init, Ordered, RecordedInProgramOrder
<1>5. QED BY <1>2, <1>3, <1>4 DEF PromiseInv, Running

\* A complete run has every result that user code returned on.
LEMMA CompleteEnough ==
  ASSUME RunTypeOK, RunTypeOK', PromiseInv, ApplyResponse, ~stale, response.batch.end = "complete"
  PROVE  Promise!Enough(memo', ReturnAfter)
<1> DEFINE ran == response.batch.ran
<1>1. /\ Answer(response.batch) /\ response.batch \in Batch
      /\ \A s \in Steps : Passes(memo, s) => Passes(memo', s)
      /\ AllOk(ran) /\ AllNew(ran) => \A k \in DOMAIN ran : memo'[ran[k].step] = "ok"
  BY AppliedResponse
<1>2. AllOk(ran) /\ AllNew(ran) /\ Backed(memo, ran, Len(ran) + 1, ReturnAfter)
  BY <1>1 DEF Answer
<1>3. PICK A \in ReturnAfter : \A s \in A : Passes(memo, s) \/ \E j \in 1 .. Len(ran) + 1 - 1 : ran[j].step = s
  BY <1>2 DEF Backed
<1>4. ran \in Seq(Result)
  BY <1>1 DEF Batch
<1>5. DOMAIN ran = 1 .. Len(ran) + 1 - 1
  BY <1>4
<1>6. \A s \in A : s \in Steps /\ Passes(memo', s)
  <2> TAKE s \in A
  <2>1. s \in Steps
    BY <1>3, Alternatives
  <2>2. (\E j \in DOMAIN ran : ran[j].step = s) => memo'[s] = "ok"
    BY <1>1, <1>2
  <2>3. QED BY <1>1, <1>3, <1>5, <2>1, <2>2 DEF Passes
<1>7. A \subseteq Promise!Passed(memo')
  BY <1>6 DEF Promise!Passed, Passes
<1>8. QED BY <1>3, <1>7 DEF Promise!Enough

\* Every step of the run is a step of its promise, or leaves results and outcome alone.
LEMMA PromiseRefined ==
  ASSUME WaitsAwaited, RunTypeOK, RunTypeOK', PromiseInv, [Next]_vars
  PROVE  [Promise!PromiseNext]_<<memo, outcome>>
<1>1. CASE RecordCheckpoint
  <2>1. Promise!Grows /\ UNCHANGED outcome
    BY <1>1, RecordedKeeps DEF RecordCheckpoint
  <2>2. outcome = "running"
    BY <1>1 DEF RecordCheckpoint, PromiseInv, Server
  <2>3. QED BY <2>1, <2>2 DEF Promise!PromiseNext, Promise!Record
<1>2. CASE ApplyResponse
  <2>1. CASE stale
    BY <1>2, <2>1 DEF ApplyResponse, serverVars
  <2>2. CASE ~stale
    <3>1. Promise!Grows
      BY <1>2, <2>2, AppliedResponse
    <3>2. outcome = "running"
      BY <1>2 DEF ApplyResponse, PromiseInv, Server
    <3>3. CASE response.batch.end = "complete"
      <4>1. outcome' = "completed"
        BY <1>2, <2>2, <3>3 DEF ApplyResponse
      <4>2. Promise!Enough(memo', ReturnAfter)
        BY <1>2, <2>2, <3>3, CompleteEnough
      <4>3. QED BY <3>1, <3>2, <4>1, <4>2 DEF Promise!PromiseNext, Promise!Complete
    <3>4. CASE response.batch.end # "complete"
      <4>1. outcome' \in {outcome, "failed"}
        BY <1>2, <2>2, <3>4 DEF ApplyResponse, Retry
      <4>2. QED BY <3>1, <3>2, <4>1 DEF Promise!PromiseNext, Promise!Record, Promise!Fail
    <3>5. QED BY <3>3, <3>4
  <2>3. QED BY <2>1, <2>2
<1>3. CASE \E w \in Waits : WaitEnds(w)
  <2>1. Promise!Grows
    BY <1>3, WaitEndsKeeps
  <2>2. outcome = "running" /\ UNCHANGED outcome
    BY <1>3 DEF WaitEnds
  <2>3. QED BY <2>1, <2>2 DEF Promise!PromiseNext, Promise!Record
<1>4. CASE ~RecordCheckpoint /\ ~ApplyResponse /\ ~\E w \in Waits : WaitEnds(w)
  BY <1>4 DEF Next, Dispatch, EngineMoves, StepSucceeds, StepThrows, CheckpointOk, CheckpointRefused,
     CheckpointLost, Crash, GiveUp, Ended, vars, serverVars
<1>5. QED BY <1>1, <1>2, <1>3, <1>4

LEMMA PromiseHolds == Spec => [](RunTypeOK /\ PromiseInv)
<1>1. RunTypeOK /\ RunTypeOK' /\ PromiseInv /\ [Next]_vars => PromiseInv'
  BY PromiseStep
<1>2. Init => PromiseInv
  BY PromiseStart
<1>3. QED BY <1>1, <1>2, TypeCorrect, PTL DEF Spec

-----------------------------------------------------------------------------
(* Theorems.                                                               *)

\* The engine, its checkpoints and the server together implement RunPromise: recorded
\* results never change, a step is recorded on results that let user code call it, and the
\* run ends once, completed only on results that let user code return.  Of a function that
\* checkpoints this is so when it returns after all its waits.
THEOREM RunKeepsPromise == WaitsAwaited => (Spec => KeepsPromise)
<1> SUFFICES ASSUME WaitsAwaited PROVE Spec => KeepsPromise
  OBVIOUS
<1>1. Init => Promise!PromiseInit
  BY DEF Init, Promise!PromiseInit
<1>2. RunTypeOK /\ PromiseInv /\ (RunTypeOK /\ PromiseInv)' /\ [Next]_vars
        => [Promise!PromiseNext]_<<memo, outcome>>
  BY PromiseRefined
<1>3. QED
  BY <1>1, <1>2, PromiseHolds, PTL
  DEF Spec, KeepsPromise, Promise!PromiseSpec, Promise!promiseVars

\* Results are recorded in the order in which user code could call for them, however they
\* were buffered, checkpointed, returned or lost (under the same condition).
THEOREM ResultsInProgramOrder == WaitsAwaited => (Spec => []RecordedInProgramOrder)
<1> SUFFICES ASSUME WaitsAwaited PROVE Spec => []RecordedInProgramOrder
  OBVIOUS
<1>1. PromiseInv => RecordedInProgramOrder
  BY DEF PromiseInv, Ordered
<1>2. QED BY <1>1, PromiseHolds, PTL

-----------------------------------------------------------------------------
(* A request whose queue item has gone stale.                              *)

LEMMA Limit ==
  /\ Max({1, BufferedSteps}) \in Nat
  /\ Max({1, BufferedSteps}) >= 1 /\ Max({1, BufferedSteps}) >= BufferedSteps
<1>1. BufferedSteps \in Nat
  BY OptionsAssumption
<1>2. \E x \in {1, BufferedSteps} : \A y \in {1, BufferedSteps} : x >= y
  <2>1. CASE BufferedSteps >= 1
    BY <1>1, <2>1
  <2>2. CASE BufferedSteps < 1
    BY <1>1, <2>2
  <2>3. QED BY <1>1, <2>1, <2>2
<1>3. /\ Max({1, BufferedSteps}) \in {1, BufferedSteps}
      /\ \A y \in {1, BufferedSteps} : Max({1, BufferedSteps}) >= y
  BY <1>2 DEF Max
<1>4. QED BY <1>1, <1>3

LEMMA ContinueLocation ==
  ASSUME Continue
  PROVE  pc'.at \in {"loop", "done"}
<1>1. PcAt("loop").at = "loop" /\ PcAt("done").at = "done"
  BY DEF PcAt
<1>2. QED BY <1>1 DEF Continue, MaybeReturnNewSteps, StepRan, Reject, Return

\* Only the core loop, not recording anything, starts a body.
LEMMA EngineStarts ==
  ASSUME EngineStep
  PROVE  buffer' = buffer /\ (pc' = pc \/ pc.at = "loop")
<1>1. CASE UserCalls \/ FunctionReturns \/ FunctionThrows \/ HandleMemoized \/ ReportFound \/ TimerFires
  BY <1>1 DEF UserCalls, FunctionReturns, FunctionThrows, HandleMemoized, ReportFound, TimerFires, shipVars
<1>2. CASE ~(UserCalls \/ FunctionReturns \/ FunctionThrows \/ HandleMemoized \/ ReportFound \/ TimerFires)
  BY <1>2 DEF EngineStep, AsyncStepsFound, CheckpointingStepsFound,
       AsyncFunctionResolved, CheckpointingFunctionResolved, ResolvedAs, AsyncFunctionRejected,
       CheckpointingFunctionRejected, StepNotFound, RuntimeReached, BufferIntervalReached,
       TakeCheckpoint, shipVars
<1>3. QED BY <1>1, <1>2

LEMMA BodyEnds ==
  ASSUME TypeOK, BodySucceeds \/ BodyThrows
  PROVE  /\ pc.at = "exec" /\ pc'.at \in {"loop", "checkpoint", "done"}
         /\ pc'.at = "loop" => /\ Len(buffer') = Len(buffer) + 1
                               /\ Len(buffer') < BufferedSteps
<1>1. \A result : StepRan(result) => pc'.at = "done"
  BY DEF StepRan, Return, PcAt
<1>2. \A type, batch, retriable : Return(type, batch, retriable) => pc'.at = "done"
  BY DEF Return, PcAt
<1>3. ASSUME NEW continuation \in Pc, StartCheckpoint(continuation)
      PROVE  pc'.at = "checkpoint"
  BY <1>3 DEF StartCheckpoint, Pc
<1>4. ASSUME NEW kind, AsyncStepEnds(kind)
      PROVE  pc.at = "exec" /\ pc'.at = "done"
  BY <1>1, <1>2, <1>4 DEF AsyncStepEnds
<1>5. ASSUME NEW kind \in ResultKind, CheckpointingStepThrows(kind)
      PROVE  pc.at = "exec" /\ pc'.at \in {"checkpoint", "done"}
  <2>1. pc.at = "exec" /\ pc.step \in Steps
    BY <1>5, RunningStep DEF CheckpointingStepThrows
  <2>2. [PcAt("loop") EXCEPT !.then = "stepRan", !.step = pc.step, !.kind = kind] \in Pc
    BY <2>1 DEF PcAt, Pc, Location, Continuation, ResultKind
  <2>3. QED BY <1>1, <1>3, <1>5, <2>1, <2>2 DEF CheckpointingStepThrows
<1>6. ASSUME CheckpointingStepEnds
      PROVE  /\ pc.at = "exec" /\ pc'.at \in {"loop", "checkpoint", "done"}
             /\ pc'.at = "loop" => /\ Len(buffer') = Len(buffer) + 1
                                   /\ Len(buffer') < BufferedSteps
  <2>1. CASE req.attempt > 0
    BY <1>1, <1>6, <2>1 DEF CheckpointingStepEnds
  <2>2. CASE ~(req.attempt > 0)
    <3>1. ResumeUser(BufferedSteps) /\ pc.at = "exec"
      BY <1>6, <2>2 DEF CheckpointingStepEnds
    <3>2. buffer' = Append(buffer, [step |-> pc.step, kind |-> "ok"]) /\ buffer \in Seq(Result)
      BY <3>1 DEF ResumeUser, TypeOK
    <3>3. Len(buffer') = Len(buffer) + 1 /\ Len(buffer') \in Nat
      BY <3>2
    <3>4. CASE Len(buffer') >= BufferedSteps
      <4>1. [PcAt("loop") EXCEPT !.then = "loop"] \in Pc
        BY DEF PcAt, Pc, Location, Continuation, ResultKind
      <4>2. pc'.at = "checkpoint"
        BY <1>3, <3>1, <3>4, <4>1 DEF ResumeUser
      <4>3. QED BY <3>1, <4>2
    <3>5. CASE ~(Len(buffer') >= BufferedSteps)
      <4>1. pc' = PcAt("loop")
        BY <3>1, <3>5 DEF ResumeUser
      <4>2. pc'.at = "loop"
        BY <4>1 DEF PcAt
      <4>3. QED BY <3>1, <3>3, <3>5, <4>2, OptionsAssumption
    <3>6. QED BY <3>4, <3>5
  <2>3. QED BY <2>1, <2>2
<1>7. CASE BodySucceeds
  BY <1>4, <1>6, <1>7 DEF BodySucceeds
<1>8. CASE BodyThrows
  <2>1. PICK kind \in ResultKind : AsyncStepEnds(kind) \/ CheckpointingStepThrows(kind)
    BY <1>8 DEF BodyThrows, ResultKind
  <2>2. QED BY <1>4, <1>5, <2>1
<1>9. QED BY <1>7, <1>8

\* Nothing has been started since the request went stale, or nothing is counted.
LEMMA StaleNone ==
  ASSUME history'.staleStarts = 0, buffer' = <<>> \/ pc'.at \notin {"loop", "exec"},
         recorded' => pc'.at = "checkpoint", buffer' \in Seq(Result)
  PROVE  StaleInv'
<1>1. Len(buffer') \in Nat /\ (buffer' = <<>> => Len(buffer') = 0)
  OBVIOUS
<1>2. QED BY <1>1, Limit DEF StaleInv, StaleRunsBounded

LEMMA StaleStep ==
  ASSUME RunTypeOK, RunTypeOK', StaleInv, [Next]_vars
  PROVE  StaleInv'
<1>1. /\ Len(buffer) \in Nat /\ Len(buffer') \in Nat /\ buffer' \in Seq(Result)
      /\ history.staleStarts \in Nat /\ recorded \in BOOLEAN /\ history \in History
  <2>1. buffer \in Seq(Result) /\ buffer' \in Seq(Result)
    BY DEF RunTypeOK, TypeOK
  <2>2. recorded \in BOOLEAN /\ history \in History
    BY DEF RunTypeOK
  <2>3. history.staleStarts \in Nat
    BY <2>2 DEF History
  <2>4. QED BY <2>1, <2>2, <2>3
<1>2. CASE Ended \/ UNCHANGED vars
  <2>1. UNCHANGED <<recorded, stale, pc, buffer, history>>
    BY <1>2 DEF Ended, vars, engineVars, shipVars
  <2>2. QED BY <2>1 DEF StaleInv, StaleRunsBounded
<1>3. CASE EngineMoves
  <2>1. buffer' = buffer /\ (pc' = pc \/ pc.at = "loop") /\ UNCHANGED <<recorded, stale>>
    BY <1>3, EngineStarts DEF EngineMoves
  <2>2. history'.staleStarts = IF stale /\ pc.at # "exec" /\ pc'.at = "exec"
                                 THEN history.staleStarts + 1 ELSE history.staleStarts
    <3>1. history' = Observed(history)
      BY <1>3 DEF EngineMoves
    <3>2. QED BY <1>1, <3>1 DEF Observed, History
  <2>3. CASE pc' = pc
    BY <2>1, <2>2, <2>3 DEF StaleInv, StaleRunsBounded
  <2>4. CASE pc' # pc
    <3>1. pc.at = "loop" /\ ~recorded
      BY <2>1, <2>4 DEF StaleInv
    <3>2. /\ history.staleStarts <= Len(buffer) /\ Len(buffer) < Max({1, BufferedSteps})
          /\ ~stale => history.staleStarts = 0
      BY <3>1 DEF StaleInv
    <3>3. /\ history'.staleStarts <= Len(buffer) + 1
          /\ ~stale => history'.staleStarts = 0
          /\ pc'.at # "exec" => history'.staleStarts = history.staleStarts
      BY <1>1, <2>2, <3>2
    <3>4. history'.staleStarts \in Nat /\ history'.staleStarts <= Max({1, BufferedSteps})
      BY <1>1, <2>2, <3>2, <3>3, Limit
    <3>5. ~recorded' /\ Len(buffer') = Len(buffer)
      BY <2>1, <3>1
    <3>6. pc'.at \in {"loop", "exec"} => Len(buffer') < Max({1, BufferedSteps})
      BY <3>2, <3>5
    <3>7. /\ ~stale' => history'.staleStarts = 0
          /\ pc'.at = "loop" => history'.staleStarts <= Len(buffer')
          /\ pc'.at = "exec" => history'.staleStarts <= Len(buffer') + 1
      BY <2>1, <3>2, <3>3, <3>5
    <3>8. QED BY <3>4, <3>5, <3>6, <3>7 DEF StaleInv, StaleRunsBounded
  <2>5. QED BY <2>3, <2>4
<1>4. CASE StepSucceeds \/ StepThrows
  <2>1. /\ pc.at = "exec" /\ pc'.at \in {"loop", "checkpoint", "done"}
        /\ pc'.at = "loop" => /\ Len(buffer') = Len(buffer) + 1
                              /\ Len(buffer') < BufferedSteps
        /\ UNCHANGED <<recorded, stale>>
    BY <1>4, BodyEnds DEF StepSucceeds, StepThrows, RunTypeOK
  <2>2. history'.staleStarts = history.staleStarts
    <3>1. CASE StepSucceeds
      <4>1. Observed(history).staleStarts = history.staleStarts
        BY <1>1, <2>1 DEF Observed, History
      <4>2. QED BY <3>1, <4>1 DEF StepSucceeds
    <3>2. CASE StepThrows
      BY <3>2 DEF StepThrows
    <3>3. QED BY <1>4, <3>1, <3>2
  <2>3. ~recorded /\ history.staleStarts <= Len(buffer) + 1
    BY <2>1 DEF StaleInv
  <2>4. BufferedSteps \in Nat
    BY OptionsAssumption
  <2>5. QED BY <1>1, <2>1, <2>2, <2>3, <2>4, Limit DEF StaleInv, StaleRunsBounded
<1>5. CASE Dispatch
  <2>1. buffer' = <<>> /\ history'.staleStarts = 0 /\ recorded' = FALSE
    BY <1>1, <1>5 DEF Dispatch, StartRequest, History
  <2>2. QED BY <1>1, <2>1, StaleNone
<1>6. CASE RecordCheckpoint
  <2>1. /\ pc.at = "checkpoint" /\ ~stale /\ UNCHANGED <<pc, buffer, stale, history>>
    BY <1>6 DEF RecordCheckpoint, engineVars, shipVars
  <2>2. history'.staleStarts = 0
    BY <2>1 DEF StaleInv
  <2>3. QED BY <1>1, <2>1, <2>2, StaleNone
<1>7. CASE CheckpointOk \/ CheckpointLost
  <2>1. (recorded \/ ~stale) /\ buffer' = <<>> /\ recorded' = FALSE /\ UNCHANGED history
    BY <1>7 DEF CheckpointOk, CheckpointLost, CheckpointSucceeds, CheckpointFails
  <2>2. history'.staleStarts = 0
    BY <2>1 DEF StaleInv
  <2>3. QED BY <1>1, <2>1, <2>2, StaleNone
<1>8. CASE CheckpointRefused
  <2>1. pc'.at = "done" /\ ~recorded' /\ UNCHANGED <<history, stale>>
    BY <1>8 DEF CheckpointRefused, CheckpointIsStale, Return, PcAt
  <2>2. QED BY <1>8, <2>1 DEF CheckpointRefused, StaleInv, StaleRunsBounded
<1>9. CASE Crash \/ ApplyResponse
  <2>1. pc'.at = "off" /\ UNCHANGED <<history, stale>>
    BY <1>9 DEF Crash, ApplyResponse, PcAt
  <2>2. ~recorded'
    BY <1>9 DEF Crash, ApplyResponse, StaleInv
  <2>3. QED BY <2>1, <2>2 DEF StaleInv, StaleRunsBounded
<1>10. CASE GiveUp
  <2>1. ~stale /\ UNCHANGED <<pc, buffer, recorded, history>>
    BY <1>10 DEF GiveUp, engineVars, shipVars
  <2>2. history'.staleStarts = 0 /\ history.staleStarts = 0
    BY <2>1 DEF StaleInv
  <2>3. QED BY <2>1, <2>2 DEF StaleInv, StaleRunsBounded
<1>11. CASE \E w \in Waits : WaitEnds(w)
  <2>1. UNCHANGED <<pc, buffer, recorded, stale, history>>
    BY <1>11 DEF WaitEnds, engineVars, shipVars
  <2>2. QED BY <2>1 DEF StaleInv, StaleRunsBounded
<1>12. QED BY <1>2, <1>3, <1>4, <1>5, <1>6, <1>7, <1>8, <1>9, <1>10, <1>11 DEF Next

LEMMA StaleHolds == Spec => []StaleInv
<1>1. Init => StaleInv
  <2>1. ASSUME Init
        PROVE  history.staleStarts = 0 /\ pc.at = "off" /\ ~recorded
    BY <2>1 DEF Init, PcAt
  <2>2. QED BY <2>1, Limit DEF StaleInv, StaleRunsBounded
<1>2. RunTypeOK /\ RunTypeOK' /\ StaleInv /\ [Next]_vars => StaleInv'
  BY StaleStep
<1>3. QED BY <1>1, <1>2, TypeCorrect, PTL DEF Spec

\* A request whose queue item has gone stale starts no more bodies than the buffer holds
\* before it halts, whatever was under way when it was given up.
THEOREM StaleRunsHalt == Spec => []StaleRunsBounded
<1>1. StaleInv => StaleRunsBounded
  BY DEF StaleInv
<1>2. QED BY <1>1, StaleHolds, PTL

-----------------------------------------------------------------------------
(* Answers without results, and the answer of a body in Async mode.        *)

LEMMA ReturnsNothing ==
  ASSUME NEW type, NEW batch, NEW retriable, Return(type, batch, retriable), batch.ran = <<>>
  PROVE  pc'.at = "done" /\ response'.batch.ran = <<>>
<1>1. pc' = PcAt("done") /\ response' = [type |-> type, batch |-> batch, retriable |-> retriable]
  BY DEF Return
<1>2. QED BY <1>1 DEF PcAt

LEMMA MaybeReturnsNothing ==
  ASSUME NEW steps, MaybeReturnNewSteps(steps)
  PROVE  pc'.at = "loop" \/ (pc'.at = "done" /\ response'.batch.ran = <<>>)
<1> DEFINE batch == [EmptyBatch EXCEPT !.plan = PlannedSteps(steps), !.defers = lazy]
<1>1. CASE pc' = PcAt("loop")
  BY <1>1 DEF PcAt
<1>2. CASE Return("steps-found", batch, FALSE)
  <2>1. batch.ran = <<>>
    BY BatchFields
  <2>2. QED BY <1>2, <2>1, ReturnsNothing
<1>3. QED BY <1>1, <1>2 DEF MaybeReturnNewSteps

LEMMA FunctionEndsEmpty ==
  ASSUME AsyncFunctionResolved \/ AsyncFunctionRejected
  PROVE  pc.at = "loop" /\ req' = req /\ pc'.at = "done" /\ response'.batch.ran = <<>>
<1>1. pc.at = "loop" /\ req' = req
  BY DEF AsyncFunctionResolved, AsyncFunctionRejected, TakeCheckpoint, requestVars
<1>2. CASE AsyncFunctionResolved
  <2>1. PICK plan, end, type :
          \/ Return("steps-found", [EmptyBatch EXCEPT !.plan = plan, !.defers = lazy], FALSE)
          \/ Return(type, [EmptyBatch EXCEPT !.defers = lazy, !.end = end], FALSE)
    BY <1>2 DEF AsyncFunctionResolved
  <2> DEFINE planning == [EmptyBatch EXCEPT !.plan = plan, !.defers = lazy]
             ended == [EmptyBatch EXCEPT !.defers = lazy, !.end = end]
  <2>2. planning.ran = <<>> /\ ended.ran = <<>>
    BY BatchFields
  <2>3. Return("steps-found", planning, FALSE) \/ Return(type, ended, FALSE)
    BY <2>1
  <2> HIDE DEF planning, ended
  <2>4. pc'.at = "done" /\ response'.batch.ran = <<>>
    BY <2>2, <2>3, ReturnsNothing
  <2>5. QED BY <1>1, <2>4
<1>3. CASE AsyncFunctionRejected
  <2>1. Reject(Head(queue).final, lazy)
    BY <1>3 DEF AsyncFunctionRejected
  <2>2. PICK type, end, retriable :
          Return(type, [EmptyBatch EXCEPT !.defers = lazy, !.end = end], retriable)
    BY <2>1 DEF Reject
  <2> DEFINE ended == [EmptyBatch EXCEPT !.defers = lazy, !.end = end]
  <2>3. ended.ran = <<>>
    BY BatchFields
  <2>4. Return(type, ended, retriable)
    BY <2>2
  <2> HIDE DEF ended
  <2>5. pc'.at = "done" /\ response'.batch.ran = <<>>
    BY <2>3, <2>4, ReturnsNothing
  <2>6. QED BY <1>1, <2>5
<1>4. QED BY <1>2, <1>3

\* A body that ends is the one result of the answer.
LEMMA AsyncBodyAnswers ==
  ASSUME NEW kind, AsyncStepEnds(kind)
  PROVE  /\ pc.at = "exec" /\ pc'.at = "done" /\ req' = req
         /\ response'.batch.ran = <<[step |-> pc.step, kind |-> kind]>>
         /\ response'.batch.end = "none" /\ response'.type # "step-not-found"
<1> DEFINE result == [step |-> pc.step, kind |-> kind]
           alone == [EmptyBatch EXCEPT !.ran = <<result>>]
           together == [EmptyBatch EXCEPT !.ran = <<result>>, !.defers = lazy]
<1>1. pc.at = "exec" /\ req' = req
  BY DEF AsyncStepEnds, requestVars
<1>2. /\ alone.ran = <<result>> /\ alone.end = "none"
      /\ together.ran = <<result>> /\ together.end = "none"
  BY BatchFields
<1>3. \/ Return("step-ran", alone, result.kind # "failed")
      \/ Return("steps-found", together, FALSE)
  BY DEF AsyncStepEnds, StepRan
<1> HIDE DEF alone, together
<1>4. PICK type \in {"step-ran", "steps-found"}, batch \in {alone, together} :
        pc' = PcAt("done") /\ response'.type = type /\ response'.batch = batch
  BY <1>3 DEF Return
<1>5. QED BY <1>1, <1>2, <1>4 DEF PcAt

\* The history counts a body that succeeds, and nothing else.
LEMMA RunsObserved ==
  ASSUME history \in History
  PROVE  Observed(history).runs = history.runs
  BY DEF Observed, History

LEMMA RecordsNothing ==
  ASSUME RunTypeOK, NEW batch, batch.ran = <<>>, RecordResults(batch)
  PROVE  memo' = memo
<1>1. NewResults(batch.ran) = <<>> /\ DOMAIN <<>> = {}
  BY DEF NewResults
<1>2. memo' = [s \in Steps |-> memo[s]]
  BY <1>1 DEF RecordResults
<1>3. QED BY <1>2 DEF RunTypeOK

-----------------------------------------------------------------------------
(***************************************************************************)
(* Of a function that checkpoints, results are lost when it returns with   *)
(* steps it has called and not awaited (see the run DanglingStep): what it *)
(* says of a function that awaits its steps is below.  The argument is     *)
(* that the steps of the engine that answer take the whole buffer along.   *)
(***************************************************************************)
\* A function that checkpoints returns after every step it has called.
StepsAwaited ==
  Checkpointing =>
    \A F \in SUBSET Steps, S \in SUBSET Steps : CalledOn(F, S) /\ ReturnsOn(S) => F \subseteq S

Timers == {"notfound", "runtime", "interval"}

\* Only the timers of the request fire, whether it has been given up or not.
TimersInv ==
  Running =>
    /\ timers \subseteq InitialTimers(req)
    /\ \A i \in DOMAIN queue, t \in Timers :
         queue[i].type = TimerCheckpoint[t] => t \in InitialTimers(req)

InBuffer(s) == \E k \in DOMAIN buffer : buffer[k].step = s

\* The results of the request are recorded or buffered.
Held == \A s \in history.ranHere : memo[s] # "none" \/ InBuffer(s)

LossInv == TimersInv /\ (Running /\ ~stale => Held) /\ NoLostResults

\* A timer that is still to fire, and a checkpoint that no timer sets.
TimersGo ==
  /\ req' = req /\ Running
  /\ timers' \subseteq timers
  /\ \A i \in DOMAIN queue' :
       \/ \E j \in DOMAIN queue : queue'[i] = queue[j]
       \/ queue'[i].type \in {"steps-found", "function-resolved", "function-rejected"}
       \/ \E t \in timers : queue'[i].type = TimerCheckpoint[t]

LEMMA TimerTypes ==
  /\ TimerCheckpoint["notfound"] = "step-not-found"
  /\ TimerCheckpoint["runtime"] = "checkpointing-runtime-reached"
  /\ TimerCheckpoint["interval"] = "checkpointing-buffer-interval-reached"
  BY DEF TimerCheckpoint

LEMMA TimersKeep ==
  ASSUME TypeOK, TimersInv, TimersGo
  PROVE  TimersInv'
<1>1. timers \subseteq Timers
  BY DEF TypeOK, Timers
<1>2. InitialTimers(req)' = InitialTimers(req)
  BY DEF TimersGo, InitialTimers, StepMode
<1>3. ASSUME NEW i \in DOMAIN queue', NEW t \in Timers, queue'[i].type = TimerCheckpoint[t]
      PROVE  t \in InitialTimers(req)
  <2>1. CASE \E j \in DOMAIN queue : queue'[i] = queue[j]
    BY <1>3, <2>1 DEF TimersInv, TimersGo
  <2>2. CASE queue'[i].type \in {"steps-found", "function-resolved", "function-rejected"}
    BY <1>3, <2>2, TimerTypes DEF Timers
  <2>3. CASE \E u \in timers : queue'[i].type = TimerCheckpoint[u]
    <3>1. PICK u \in timers : queue'[i].type = TimerCheckpoint[u]
      BY <2>3
    <3>2. u = t
      BY <1>1, <1>3, <3>1, TimerTypes DEF Timers
    <3>3. QED BY <3>1, <3>2 DEF TimersInv, TimersGo
  <2>4. QED BY <2>1, <2>2, <2>3 DEF TimersGo
<1>4. QED BY <1>2, <1>3 DEF TimersInv, TimersGo

LEMMA TimersLeft ==
  ASSUME NEW steps, NEW s, NEW type, NEW batch, NEW retriable, NEW result, NEW final, NEW defers,
         NEW continuation
  PROVE  /\ Return(type, batch, retriable) => timers' \subseteq timers
         /\ StepRan(result) => timers' \subseteq timers
         /\ Reject(final, defers) => timers' \subseteq timers
         /\ StartStep(s) => timers' \subseteq timers
         /\ StartCheckpoint(continuation) => timers' \subseteq timers
         /\ MaybeReturnNewSteps(steps) => timers' \subseteq timers
<1>1. /\ Return(type, batch, retriable) => timers' \subseteq timers
      /\ StepRan(result) => timers' \subseteq timers
      /\ StartStep(s) => timers' \subseteq timers
      /\ StartCheckpoint(continuation) => timers' \subseteq timers
  BY DEF Return, StepRan, StartStep, StartCheckpoint
<1>2. Reject(final, defers) => timers' = {}
  BY DEF Reject, Return
<1>3. MaybeReturnNewSteps(steps) => timers' \subseteq timers
  BY DEF MaybeReturnNewSteps, Return
<1>4. QED BY <1>1, <1>2, <1>3

LEMMA EngineTimers == ASSUME TypeOK, EngineStep PROVE TimersGo
<1>1. Running
  BY EngineLocation
<1>2. CASE UserCalls \/ HandleMemoized
  <2>1. UNCHANGED <<req, timers, queue>>
    BY <1>2 DEF UserCalls, HandleMemoized, requestVars
  <2>2. QED BY <1>1, <2>1 DEF TimersGo
<1>3. CASE FunctionReturns \/ FunctionThrows
  <2>1. UNCHANGED <<req, timers>>
    BY <1>3 DEF FunctionReturns, FunctionThrows, requestVars
  <2>2. PICK f \in BOOLEAN : \/ SetCheckpoint(CheckpointOf("function-resolved"))
                             \/ SetCheckpoint([CheckpointOf("function-rejected") EXCEPT !.final = f])
    BY <1>3 DEF FunctionReturns, FunctionThrows
  <2> DEFINE rejected == [CheckpointOf("function-rejected") EXCEPT !.final = f]
  <2>3. CheckpointOf("function-resolved").type = "function-resolved" /\ rejected.type = "function-rejected"
    BY CheckpointFields
  <2>4. PICK c \in {CheckpointOf("function-resolved"), rejected} : SetCheckpoint(c)
    BY <2>2
  <2>5. \A i \in DOMAIN queue' : queue'[i] = c \/ \E j \in DOMAIN queue : queue'[i] = queue[j]
    BY <2>4, SetsCheckpoint
  <2>6. c.type \in {"function-resolved", "function-rejected"}
    BY <2>3, <2>4
  <2> HIDE DEF rejected
  <2>7. QED BY <1>1, <2>1, <2>5, <2>6 DEF TimersGo
<1>4. CASE ReportFound
  <2>1. UNCHANGED <<req, timers>>
    BY <1>4 DEF ReportFound, requestVars
  <2> DEFINE c == [CheckpointOf("steps-found") EXCEPT !.steps = toReport]
  <2>2. queue' = queue \/ SetCheckpoint(c)
    BY <1>4 DEF ReportFound, SetCheckpoint
  <2>3. c.type = "steps-found"
    BY CheckpointFields
  <2> HIDE DEF c
  <2>4. CASE SetCheckpoint(c)
    <3>1. \A i \in DOMAIN queue' : queue'[i] = c \/ \E j \in DOMAIN queue : queue'[i] = queue[j]
      BY <2>4, SetsCheckpoint
    <3>2. QED BY <1>1, <2>1, <2>3, <3>1 DEF TimersGo
  <2>5. CASE queue' = queue
    BY <1>1, <2>1, <2>5 DEF TimersGo
  <2>6. QED BY <2>2, <2>4, <2>5
<1>5. CASE TimerFires
  <2>1. PICK t \in timers : timers' = timers \ {t} /\ SetCheckpoint(CheckpointOf(TimerCheckpoint[t]))
    BY <1>5 DEF TimerFires
  <2> DEFINE c == CheckpointOf(TimerCheckpoint[t])
  <2>2. c.type = TimerCheckpoint[t]
    BY CheckpointFields
  <2>3. \A i \in DOMAIN queue' : queue'[i] = c \/ \E j \in DOMAIN queue : queue'[i] = queue[j]
    BY <2>1, SetsCheckpoint
  <2> HIDE DEF c
  <2>4. QED BY <1>1, <1>5, <2>1, <2>2, <2>3 DEF TimersGo, TimerFires, requestVars
<1>6. ASSUME NEW type, TakeCheckpoint(type), req' = req, timers' \subseteq timers
      PROVE  TimersGo
  BY <1>1, <1>6, TakesCheckpoint DEF TimersGo
<1>7. CASE AsyncStepsFound
  <2>1. timers' \subseteq timers
    BY <1>7, TimersLeft DEF AsyncStepsFound
  <2>2. QED BY <1>6, <1>7, <2>1 DEF AsyncStepsFound, requestVars
<1>8. CASE CheckpointingStepsFound
  <2>1. timers' \subseteq timers
    BY <1>8, TimersLeft DEF CheckpointingStepsFound
  <2>2. QED BY <1>6, <1>8, <2>1 DEF CheckpointingStepsFound, requestVars
<1>9. CASE AsyncFunctionResolved \/ CheckpointingFunctionResolved
  <2>1. timers' \subseteq timers
    BY <1>9, TimersLeft DEF AsyncFunctionResolved, CheckpointingFunctionResolved, ResolvedAs
  <2>2. QED BY <1>6, <1>9, <2>1
        DEF AsyncFunctionResolved, CheckpointingFunctionResolved, ResolvedAs, requestVars
<1>10. CASE AsyncFunctionRejected \/ CheckpointingFunctionRejected
  <2>1. timers' \subseteq timers
    BY <1>10, TimersLeft DEF AsyncFunctionRejected, CheckpointingFunctionRejected
  <2>2. QED BY <1>6, <1>10, <2>1 DEF AsyncFunctionRejected, CheckpointingFunctionRejected, requestVars
<1>11. CASE StepNotFound \/ RuntimeReached \/ BufferIntervalReached
  <2>1. timers' \subseteq timers
    BY <1>11, TimersLeft DEF StepNotFound, RuntimeReached, BufferIntervalReached
  <2>2. QED BY <1>6, <1>11, <2>1 DEF StepNotFound, RuntimeReached, BufferIntervalReached, requestVars
<1>12. QED BY <1>2, <1>3, <1>4, <1>5, <1>7, <1>8, <1>9, <1>10, <1>11 DEF EngineStep

LEMMA BodyTimers ==
  ASSUME TypeOK, BodySucceeds \/ BodyThrows
  PROVE  TimersGo
<1>1. Running
  BY EngineLocation
<1>2. PICK kind \in ResultKind :
        CheckpointingStepEnds \/ AsyncStepEnds(kind) \/ CheckpointingStepThrows(kind)
  BY DEF BodySucceeds, BodyThrows, ResultKind
<1>3. UNCHANGED <<req, queue>>
  BY <1>2 DEF CheckpointingStepEnds, AsyncStepEnds, CheckpointingStepThrows, requestVars
<1>4. timers' \subseteq timers
  <2>1. CASE CheckpointingStepEnds
    BY <2>1, TimersLeft DEF CheckpointingStepEnds, ResumeUser
  <2>2. CASE AsyncStepEnds(kind)
    BY <2>2, TimersLeft DEF AsyncStepEnds
  <2>3. CASE CheckpointingStepThrows(kind)
    BY <2>3, TimersLeft DEF CheckpointingStepThrows
  <2>4. QED BY <1>2, <2>1, <2>2, <2>3
<1>5. QED BY <1>1, <1>3, <1>4 DEF TimersGo

LEMMA CheckpointTimersGo ==
  ASSUME TypeOK, CheckpointSucceeds \/ CheckpointFails \/ CheckpointIsStale
  PROVE  TimersGo
<1>1. Running /\ UNCHANGED <<req, queue>>
  BY DEF CheckpointSucceeds, CheckpointFails, CheckpointIsStale, Running, requestVars
<1>2. Continue => timers' \subseteq timers
  BY TimersLeft DEF Continue
<1>3. timers' \subseteq timers
  BY <1>2, TimersLeft DEF CheckpointSucceeds, CheckpointFails, CheckpointIsStale
<1>4. QED BY <1>1, <1>3 DEF TimersGo

LEMMA TimersStep ==
  ASSUME RunTypeOK, TimersInv, [Next]_vars
  PROVE  TimersInv'
<1>0. TypeOK
  BY DEF RunTypeOK
<1>1. CASE EngineMoves \/ StepSucceeds \/ StepThrows
  BY <1>0, <1>1, EngineTimers, BodyTimers, TimersKeep DEF EngineMoves, StepSucceeds, StepThrows
<1>2. CASE CheckpointOk \/ CheckpointRefused \/ CheckpointLost
  BY <1>0, <1>2, CheckpointTimersGo, TimersKeep DEF CheckpointOk, CheckpointRefused, CheckpointLost
<1>3. CASE Dispatch
  <2>1. timers' = InitialTimers(req)' /\ queue' = <<>>
    BY <1>3 DEF Dispatch, StartRequest, InitialTimers, StepMode
  <2>2. DOMAIN queue' = {}
    BY <2>1
  <2>3. QED BY <2>1, <2>2 DEF TimersInv
<1>4. CASE ApplyResponse \/ Crash
  <2>1. pc'.at = "off"
    BY <1>4 DEF ApplyResponse, Crash, PcAt
  <2>2. QED BY <2>1 DEF TimersInv, Running
<1>5. CASE RecordCheckpoint \/ GiveUp \/ Ended \/ UNCHANGED vars \/ \E w \in Waits : WaitEnds(w)
  <2>1. UNCHANGED <<req, queue, timers, pc>>
    BY <1>5 DEF RecordCheckpoint, GiveUp, Ended, WaitEnds, vars, engineVars, requestVars
  <2>2. QED BY <2>1 DEF TimersInv, Running, InitialTimers, StepMode
<1>6. QED BY <1>1, <1>2, <1>3, <1>4, <1>5 DEF Next

-----------------------------------------------------------------------------
(* What the engine answers.                                                *)

\* A function that has returned and awaits its steps has nothing left to plan.
LEMMA NoStepLeft ==
  ASSUME TypeOK, RequestInv, StepsAwaited, Checkpointing, Reached(ReturnAfter)
  PROVE  PlannedSteps(found) = {}
<1>1. CalledOn(found, Settled) /\ ReturnsOn(Settled)
  BY CalledOnSettled DEF Reached, ReturnsOn, RequestInv
<1>2. found \subseteq Settled
  BY <1>1 DEF StepsAwaited, CalledOn, TypeOK
<1>3. \A s \in Settled : stepState[s] # "none"
  BY DEF Settled, ToSet, RequestInv, Known
<1>4. QED BY <1>2, <1>3 DEF PlannedSteps, NewSteps

LEMMA RejectsWithout ==
  ASSUME NEW final, NEW defers, Reject(final, defers)
  PROVE  pc'.at = "done" /\ response'.batch.ran = <<>>
<1> DEFINE batch == [EmptyBatch EXCEPT !.defers = defers, !.end = IF final THEN "failed" ELSE "error"]
<1>1. batch.ran = <<>>
  BY BatchFields
<1>2. PICK type, retriable : Return(type, batch, retriable)
  BY DEF Reject
<1> HIDE DEF batch
<1>3. QED BY <1>1, <1>2, ReturnsNothing

\* No step of the engine but the end of a body or of a checkpoint answers with a part of
\* the results: it takes the whole buffer along, with the end of the run, or there is none.
AnswersAll ==
  pc'.at = "done" =>
    /\ response'.batch.ran = buffer
    /\ buffer # <<>> => response'.batch.end = "complete"

LEMMA EngineAnswersAll ==
  ASSUME TypeOK, RequestInv, TimersInv, StepsAwaited, EngineStep
  PROVE  AnswersAll
<1> SUFFICES ASSUME pc'.at = "done"
             PROVE  response'.batch.ran = buffer /\ (buffer # <<>> => response'.batch.end = "complete")
  BY DEF AnswersAll
<1>0. Running
  BY EngineLocation
<1>1. ~(UserCalls \/ FunctionReturns \/ FunctionThrows \/ HandleMemoized \/ ReportFound \/ TimerFires
        \/ RuntimeReached)
  <2>1. pc' # pc
    BY <1>0 DEF Running
  <2>2. QED BY <2>1 DEF UserCalls, FunctionReturns, FunctionThrows, HandleMemoized, ReportFound,
            TimerFires, RuntimeReached
<1>2. StepMode(req) = "Async" => buffer = <<>>
  BY DEF RequestInv, Buffered
<1>3. CASE AsyncStepsFound
  <2>1. MaybeReturnNewSteps(Head(queue).steps)
    BY <1>3 DEF AsyncStepsFound, StartStep, PcAt
  <2>2. response'.batch.ran = <<>>
    BY <2>1, MaybeReturnsNothing
  <2>3. QED BY <1>2, <1>3, <2>2 DEF AsyncStepsFound
<1>4. CASE CheckpointingStepsFound
  <2> DEFINE steps == Head(queue).steps
  <2>1. pc.at = "loop"
    BY <1>4 DEF CheckpointingStepsFound, TakeCheckpoint
  <2>2. NewSteps(steps) # {} /\ ~(~exceeded /\ EarlyStep(NewSteps(steps)) # NoStep)
    BY <1>4, <2>1 DEF CheckpointingStepsFound, StartStep, PcAt
  <2>3. IF buffer # <<>> THEN \E plan : StartCheckpoint(plan)
        ELSE MaybeReturnNewSteps(IF exceeded THEN found ELSE steps)
    BY <1>4, <2>2 DEF CheckpointingStepsFound
  <2>4. ASSUME NEW plan, StartCheckpoint(plan), TypeOK' PROVE FALSE
    <3>1. pc'.at = "checkpoint"
      BY <2>4 DEF StartCheckpoint, TypeOK, Pc
    <3>2. QED BY <3>1
  <2>5. buffer = <<>>
    BY <2>3, <2>4, EngineStepType
  <2>6. QED BY <2>3, <2>5, MaybeReturnsNothing
<1>5. CASE AsyncFunctionResolved \/ AsyncFunctionRejected
  <2>1. response'.batch.ran = <<>>
    BY <1>5, FunctionEndsEmpty
  <2>2. QED BY <1>2, <1>5, <2>1 DEF AsyncFunctionResolved, AsyncFunctionRejected
<1>6. CASE CheckpointingFunctionResolved
  <2> DEFINE complete == [EmptyBatch EXCEPT !.ran = buffer, !.defers = lazy, !.end = "complete"]
  <2>1. Reached(ReturnAfter) /\ Checkpointing
    BY <1>6, TakenSteps DEF CheckpointingFunctionResolved, ResolvedAs, StepMode
  <2>2. PlannedSteps(found) = {}
    BY <2>1, NoStepLeft
  <2>3. Return("steps-found", complete, FALSE)
    BY <1>6, <2>2 DEF CheckpointingFunctionResolved, ResolvedAs
  <2>4. complete.ran = buffer /\ complete.end = "complete"
    BY BatchFields
  <2>5. response'.batch = complete
    BY <2>3 DEF Return
  <2>6. QED BY <2>4, <2>5
<1>7. CASE CheckpointingFunctionRejected
  <2> DEFINE then == [PcAt("loop") EXCEPT !.then = "reject", !.final = Head(queue).final]
  <2>1. ~StartCheckpoint(then)
    <3>1. SUFFICES ASSUME StartCheckpoint(then) PROVE FALSE
      OBVIOUS
    <3>2. pc'.at = "checkpoint"
      BY <3>1 DEF StartCheckpoint, PcAt
    <3>3. QED BY <3>2
  <2>2. buffer = <<>> /\ Reject(Head(queue).final, {})
    BY <1>7, <2>1 DEF CheckpointingFunctionRejected
  <2>3. response'.batch.ran = <<>>
    BY <2>2, RejectsWithout
  <2>4. QED BY <2>2, <2>3
<1>8. CASE StepNotFound
  <2>1. pc.at = "loop" /\ queue # <<>> /\ Head(queue).type = "step-not-found"
    BY <1>8 DEF StepNotFound, TakeCheckpoint
  <2>2. PICK j \in DOMAIN queue : queue[j].type = "step-not-found"
    BY <1>8, TakesCheckpoint DEF StepNotFound
  <2>3. "notfound" \in InitialTimers(req)
    BY <1>0, <2>2, TimerTypes DEF TimersInv, Timers
  <2>4. StepMode(req) = "Async"
    BY <2>3, OptionsAssumption DEF InitialTimers, StepMode
  <2>5. response'.batch.ran = <<>>
    <3>1. Return("step-not-found", EmptyBatch, TRUE)
      BY <1>8 DEF StepNotFound
    <3>2. QED BY <3>1, BatchFields, ReturnsNothing
  <2>6. QED BY <1>2, <2>4, <2>5
<1>9. CASE BufferIntervalReached
  <2>1. pc'.at = "checkpoint"
    BY <1>9 DEF BufferIntervalReached, StartCheckpoint, PcAt
  <2>2. QED BY <2>1
<1>10. QED BY <1>1, <1>3, <1>4, <1>5, <1>6, <1>7, <1>8, <1>9 DEF EngineStep

LEMMA EngineBuffer == ASSUME EngineStep PROVE buffer' = buffer
  BY DEF EngineStep, UserCalls, FunctionReturns, FunctionThrows, HandleMemoized, ReportFound, TimerFires,
     AsyncStepsFound, CheckpointingStepsFound, AsyncFunctionResolved, CheckpointingFunctionResolved,
     ResolvedAs, AsyncFunctionRejected, CheckpointingFunctionRejected, StepNotFound, RuntimeReached,
     BufferIntervalReached, shipVars

\* The end of a body: it is the answer, or the result is buffered, or the buffer goes first.
BodyAnswers(kind) ==
  /\ buffer = <<>> /\ buffer' = buffer
  /\ pc'.at = "done" /\ response'.batch.ran = <<[step |-> pc.step, kind |-> kind]>>
  /\ response'.batch.end = "none" /\ response'.type # "step-not-found"

BodyIsBuffered(kind) ==
  /\ kind = "ok" /\ StepMode(req) = "AsyncCheckpointing"
  /\ buffer' = Append(buffer, [step |-> pc.step, kind |-> "ok"])
  /\ pc'.at \in {"loop", "checkpoint"} /\ (pc'.at = "checkpoint" => pc'.then = "loop")

BodyWaits(kind) ==
  /\ kind # "ok" /\ StepMode(req) = "AsyncCheckpointing"
  /\ buffer # <<>> /\ buffer' = buffer
  /\ pc'.at = "checkpoint" /\ pc'.then = "stepRan" /\ pc'.step = pc.step /\ pc'.kind = kind

LEMMA StepRanAnswers ==
  ASSUME NEW result, StepRan(result)
  PROVE  /\ pc'.at = "done" /\ response'.batch.ran = <<result>>
         /\ response'.batch.end = "none" /\ response'.type = "step-ran"
<1> DEFINE batch == [EmptyBatch EXCEPT !.ran = <<result>>]
<1>1. batch.ran = <<result>> /\ batch.end = "none"
  BY BatchFields
<1>2. pc' = PcAt("done") /\ response'.type = "step-ran" /\ response'.batch = batch
  BY DEF StepRan, Return
<1>3. QED BY <1>1, <1>2 DEF PcAt

LEMMA BodyEndsAs ==
  ASSUME TypeOK, RequestInv, BodySucceeds \/ BodyThrows
  PROVE  \E kind \in ResultKind :
           /\ pc.at = "exec" /\ req' = req /\ (BodySucceeds => kind = "ok")
           /\ BodyAnswers(kind) \/ BodyIsBuffered(kind) \/ BodyWaits(kind)
<1>1. CASE \E kind \in ResultKind : AsyncStepEnds(kind) /\ (BodySucceeds => kind = "ok")
  <2>1. PICK kind \in ResultKind : AsyncStepEnds(kind) /\ (BodySucceeds => kind = "ok")
    BY <1>1
  <2>2. buffer = <<>> /\ buffer' = buffer
    BY <2>1 DEF AsyncStepEnds, RequestInv, Buffered
  <2>3. QED BY <2>1, <2>2, AsyncBodyAnswers DEF BodyAnswers
<1>2. CASE CheckpointingStepEnds
  <2>1. pc.at = "exec" /\ req' = req /\ StepMode(req) = "AsyncCheckpointing"
    BY <1>2 DEF CheckpointingStepEnds, requestVars
  <2>2. CASE req.attempt > 0
    <3>1. buffer = <<>> /\ buffer' = buffer /\ StepRan([step |-> pc.step, kind |-> "ok"])
      BY <1>2, <2>2 DEF CheckpointingStepEnds, RequestInv, Buffered
    <3>2. BodyAnswers("ok")
      BY <3>1, StepRanAnswers DEF BodyAnswers
    <3>3. QED BY <2>1, <3>2 DEF ResultKind
  <2>3. CASE ~(req.attempt > 0)
    <3>1. ResumeUser(BufferedSteps)
      BY <1>2, <2>3 DEF CheckpointingStepEnds
    <3>2. buffer' = Append(buffer, [step |-> pc.step, kind |-> "ok"])
      BY <3>1 DEF ResumeUser
    <3>3. StartCheckpoint([PcAt("loop") EXCEPT !.then = "loop"]) \/ pc' = PcAt("loop")
      BY <3>1 DEF ResumeUser
    <3>4. pc'.at \in {"loop", "checkpoint"} /\ (pc'.at = "checkpoint" => pc'.then = "loop")
      <4> DEFINE then == [PcAt("loop") EXCEPT !.then = "loop"]
      <4>1. then.then = "loop" /\ then \in Pc /\ PcAt("loop").at = "loop"
        BY DEF PcAt, Pc, Location, Continuation, ResultKind
      <4>2. CASE pc' = PcAt("loop")
        BY <4>1, <4>2
      <4>3. CASE StartCheckpoint(then)
        BY <4>1, <4>3 DEF StartCheckpoint, Pc
      <4>4. QED BY <3>3, <4>2, <4>3
    <3>5. BodyIsBuffered("ok")
      BY <2>1, <3>2, <3>4 DEF BodyIsBuffered
    <3>6. QED BY <2>1, <3>5 DEF ResultKind
  <2>4. QED BY <2>2, <2>3
<1>3. CASE \E kind \in ResultKind : CheckpointingStepThrows(kind) /\ ~BodySucceeds
  <2>1. PICK kind \in ResultKind : CheckpointingStepThrows(kind)
    BY <1>3
  <2>2. pc.at = "exec" /\ req' = req /\ StepMode(req) = "AsyncCheckpointing" /\ kind # "ok" /\ buffer' = buffer
    BY <2>1 DEF CheckpointingStepThrows, requestVars
  <2>3. CASE buffer # <<>>
    <3>1. StartCheckpoint([PcAt("loop") EXCEPT !.then = "stepRan", !.step = pc.step, !.kind = kind])
      BY <2>1, <2>3 DEF CheckpointingStepThrows
    <3>2. BodyWaits(kind)
      BY <2>2, <2>3, <3>1 DEF BodyWaits, StartCheckpoint, PcAt
    <3>3. QED BY <1>3, <2>2, <3>2
  <2>4. CASE buffer = <<>>
    <3>1. StepRan([step |-> pc.step, kind |-> kind])
      BY <2>1, <2>4 DEF CheckpointingStepThrows
    <3>2. BodyAnswers(kind)
      BY <2>2, <2>4, <3>1, StepRanAnswers DEF BodyAnswers
    <3>3. QED BY <1>3, <2>2, <3>2
  <2>5. QED BY <2>3, <2>4
<1>4. ASSUME BodySucceeds
      PROVE  CheckpointingStepEnds \/ AsyncStepEnds("ok")
  BY <1>4 DEF BodySucceeds
<1>5. ASSUME ~BodySucceeds
      PROVE  \E kind \in ResultKind : AsyncStepEnds(kind) \/ CheckpointingStepThrows(kind)
  BY <1>5 DEF BodyThrows, ResultKind
<1>6. QED BY <1>1, <1>2, <1>3, <1>4, <1>5 DEF ResultKind

\* The end of a checkpoint call: the core loop goes on, answers without results, with the
\* result the checkpoint went before, or with the buffer.
CheckpointAnswers ==
  \/ pc'.at = "loop"
  \/ pc'.at = "done" /\ response'.batch.ran = <<>>
  \/ /\ pc.then = "stepRan" /\ pc'.at = "done"
     /\ response'.batch.ran = <<[step |-> pc.step, kind |-> pc.kind]>>
     /\ response'.batch.end = "none" /\ response'.type # "step-not-found"

LEMMA ContinueAnswers ==
  ASSUME Continue
  PROVE  CheckpointAnswers
<1>1. CASE pc.then = "loop"
  BY <1>1 DEF Continue, PcAt, CheckpointAnswers
<1>2. CASE pc.then \in {"plan", "planAll"}
  <2>1. \E steps : MaybeReturnNewSteps(steps)
    BY <1>2 DEF Continue
  <2>2. QED BY <2>1, MaybeReturnsNothing DEF CheckpointAnswers
<1>3. CASE pc.then = "stepRan"
  <2>1. StepRan([step |-> pc.step, kind |-> pc.kind])
    BY <1>3 DEF Continue
  <2>2. QED BY <1>3, <2>1, StepRanAnswers DEF CheckpointAnswers
<1>4. CASE pc.then \notin {"loop", "plan", "planAll", "stepRan"}
  <2>1. Reject(pc.final, {})
    BY <1>4 DEF Continue
  <2>2. QED BY <2>1, RejectsWithout DEF CheckpointAnswers
<1>5. QED BY <1>1, <1>2, <1>3, <1>4

-----------------------------------------------------------------------------
(* No result is lost.                                                      *)

LEMMA RanHereObserved ==
  ASSUME history \in History
  PROVE  Observed(history).ranHere = history.ranHere
  BY DEF Observed, History

\* What the end of a body adds to the history.
LEMMA RanHereAfter ==
  ASSUME RunTypeOK, StepSucceeds \/ StepThrows
  PROVE  \/ StepSucceeds /\ history'.ranHere = history.ranHere \cup {pc.step}
         \/ StepThrows /\ history'.ranHere = history.ranHere
<1>1. CASE StepSucceeds
  <2>1. TypeOK'
    BY <1>1, BodySucceedsType DEF StepSucceeds, RunTypeOK
  <2>2. Observed(history) \in History
    BY <1>1, <2>1, BodySucceedsResolvesOne, ObservedType DEF StepSucceeds, RunTypeOK
  <2>3. Observed(history).ranHere = history.ranHere
    BY RanHereObserved DEF RunTypeOK
  <2>4. QED BY <1>1, <2>2, <2>3 DEF StepSucceeds, History
<1>2. CASE StepThrows
  BY <1>2 DEF StepThrows, RunTypeOK, History
<1>3. QED BY <1>1, <1>2

\* The server forgets nothing while a request is under way.
LEMMA MemoKept ==
  ASSUME RunTypeOK, RunTypeOK', PromiseInv, RecordCheckpoint \/ \E w \in Waits : WaitEnds(w)
  PROVE  \A s \in Steps : memo[s] # "none" => memo'[s] = memo[s]
<1>1. CASE RecordCheckpoint
  <2>1. pc.at = "checkpoint" /\ ~stale /\ RecordResults(CheckpointBatch)
    BY <1>1 DEF RecordCheckpoint
  <2>2. InOrder(memo, buffer) /\ AllOk(buffer)
    BY <2>1 DEF PromiseInv, Running, Buffered
  <2>3. CheckpointBatch \in Batch
    BY EmptyBatchType DEF CheckpointBatch, Batch, RunTypeOK, TypeOK, Pc
  <2>4. CheckpointBatch.ran = buffer
    BY BatchFields DEF CheckpointBatch
  <2>5. QED BY <2>1, <2>2, <2>3, <2>4, Recording DEF PromiseInv
<1>2. CASE \E w \in Waits : WaitEnds(w)
  <2>1. PICK w \in Waits : WaitEnds(w)
    BY <1>2
  <2>2. memo[w] = "none" /\ \A s \in Steps \ {w} : memo'[s] = memo[s]
    BY <2>1 DEF WaitEnds, PromiseInv, Server, RunTypeOK
  <2>3. QED BY <2>2
<1>3. QED BY <1>1, <1>2

LEMMA EngineMovesLoss ==
  ASSUME RunTypeOK, PromiseInv, StepsAwaited, LossInv, EngineMoves, ~stale
  PROVE  (Running => Held)' /\ NoLostResults'
<1>1. TypeOK /\ EngineStep /\ UNCHANGED <<memo, stale>>
  BY DEF RunTypeOK, EngineMoves, serverVars
<1>2. history'.ranHere = history.ranHere
  BY RanHereObserved DEF RunTypeOK, EngineMoves
<1>3. buffer' = buffer /\ Running
  BY <1>1, EngineBuffer, EngineLocation
<1>4. Held /\ Held'
  BY <1>1, <1>2, <1>3 DEF LossInv, Held, InBuffer
<1>5. AnswersAll
  BY <1>1, <1>3, EngineAnswersAll DEF PromiseInv, RequestInv, LossInv
<1>6. NoLostResults'
  BY <1>1, <1>2, <1>4, <1>5 DEF NoLostResults, AnswersAll, Held, InBuffer
<1>7. QED BY <1>4, <1>6

LEMMA BodyLoss ==
  ASSUME RunTypeOK, PromiseInv, LossInv, StepSucceeds \/ StepThrows, ~stale
  PROVE  (Running => Held)' /\ NoLostResults'
<1>1. TypeOK /\ (BodySucceeds \/ BodyThrows) /\ UNCHANGED <<memo, stale>>
  BY DEF RunTypeOK, StepSucceeds, StepThrows, serverVars
<1>2. Running
  BY <1>1, EngineLocation
<1>3. RequestInv /\ Held
  BY <1>2 DEF PromiseInv, RequestInv, LossInv
<1>4. PICK kind \in ResultKind :
        /\ pc.at = "exec" /\ (BodySucceeds => kind = "ok")
        /\ BodyAnswers(kind) \/ BodyIsBuffered(kind) \/ BodyWaits(kind)
  BY <1>1, <1>3, BodyEndsAs
<1>5. /\ history'.ranHere \subseteq history.ranHere \cup {pc.step}
      /\ kind # "ok" => history'.ranHere = history.ranHere
  BY <1>4, RanHereAfter DEF StepSucceeds
<1>6. CASE BodyAnswers(kind)
  <2>1. /\ pc'.at = "done" /\ DOMAIN response'.batch.ran = {1}
        /\ response'.batch.ran[1].step = pc.step /\ DOMAIN buffer = {}
    BY <1>6 DEF BodyAnswers
  <2>2. \A s \in history.ranHere : memo[s] # "none"
    BY <1>3, <2>1 DEF Held, InBuffer
  <2>3. QED BY <1>1, <1>5, <2>1, <2>2 DEF NoLostResults, Running
<1>7. CASE BodyIsBuffered(kind)
  <2> DEFINE result == [step |-> pc.step, kind |-> "ok"]
  <2>1. buffer' = Append(buffer, result) /\ buffer \in Seq(Result) /\ result.step = pc.step
    BY <1>1, <1>7 DEF BodyIsBuffered, TypeOK
  <2>2. /\ \A k \in DOMAIN buffer : k \in DOMAIN buffer' /\ buffer'[k] = buffer[k]
        /\ Len(buffer) + 1 \in DOMAIN buffer' /\ buffer'[Len(buffer) + 1] = result
    BY <2>1
  <2>3. ASSUME NEW s \in history.ranHere \cup {pc.step}
        PROVE  memo[s] # "none" \/ \E k \in DOMAIN buffer' : buffer'[k].step = s
    <3>1. CASE s = pc.step
      BY <2>1, <2>2, <3>1
    <3>2. CASE s \in history.ranHere
      BY <1>3, <2>2, <3>2 DEF Held, InBuffer
    <3>3. QED BY <3>1, <3>2
  <2>4. Held'
    <3>1. \A s \in history'.ranHere : memo'[s] # "none" \/ \E k \in DOMAIN buffer' : buffer'[k].step = s
      BY <1>1, <1>5, <2>3
    <3>2. QED BY <3>1 DEF Held, InBuffer
  <2>5. QED BY <1>7, <2>4 DEF BodyIsBuffered, NoLostResults
<1>8. CASE BodyWaits(kind)
  BY <1>1, <1>3, <1>5, <1>8 DEF BodyWaits, Held, InBuffer, NoLostResults
<1>9. QED BY <1>4, <1>6, <1>7, <1>8

LEMMA CheckpointEndLoss ==
  ASSUME RunTypeOK, PromiseInv, LossInv, CheckpointOk \/ CheckpointLost, ~stale
  PROVE  (Running => Held)' /\ NoLostResults'
<1>1. TypeOK /\ pc.at = "checkpoint" /\ UNCHANGED <<memo, stale, history>> /\ buffer' = <<>>
  BY DEF RunTypeOK, CheckpointOk, CheckpointLost, CheckpointSucceeds, CheckpointFails, serverVars
<1>2. RequestInv /\ Held
  BY <1>1 DEF PromiseInv, RequestInv, LossInv, Running
<1>3. CASE CheckpointOk \/ buffer = <<>>
  <2>1. \A k \in DOMAIN buffer : memo[buffer[k].step] # "none"
    <3>1. CASE CheckpointOk
      BY <1>2, <3>1 DEF CheckpointOk, RequestInv, Buffered
    <3>2. CASE buffer = <<>>
      <4>1. DOMAIN buffer = {}
        BY <3>2
      <4>2. QED BY <4>1
    <3>3. QED BY <1>3, <3>1, <3>2
  <2>2. \A s \in history.ranHere : memo[s] # "none"
    BY <1>2, <2>1 DEF Held, InBuffer
  <2>3. QED BY <1>1, <2>2 DEF Held, NoLostResults
<1>4. CASE CheckpointLost /\ buffer # <<>>
  <2> DEFINE batch == [EmptyBatch EXCEPT !.ran = buffer]
  <2>1. Return("steps-found", batch, FALSE) /\ batch.ran = buffer
    BY <1>4, BatchFields DEF CheckpointLost, CheckpointFails
  <2>2. pc'.at = "done" /\ response'.batch.ran = buffer
    BY <2>1 DEF Return, PcAt
  <2>3. NoLostResults'
    BY <1>1, <1>2, <2>2 DEF Held, InBuffer, NoLostResults
  <2>4. ~Running'
    BY <2>2 DEF Running
  <2>5. (Running => Held)'
    BY <2>4
  <2>6. QED BY <2>3, <2>5
<1>5. QED BY <1>3, <1>4

LEMMA LossStep ==
  ASSUME RunTypeOK, RunTypeOK', PromiseInv, StepsAwaited, LossInv, [Next]_vars
  PROVE  LossInv'
<1>0. TimersInv'
  BY TimersStep DEF LossInv
<1> SUFFICES ASSUME ~stale' PROVE (Running => Held)' /\ NoLostResults'
  BY <1>0 DEF LossInv, NoLostResults
<1>1. CASE EngineMoves
  BY <1>1, EngineMovesLoss DEF EngineMoves
<1>2. CASE StepSucceeds \/ StepThrows
  BY <1>2, BodyLoss DEF StepSucceeds, StepThrows
<1>3. CASE CheckpointOk \/ CheckpointLost
  <2>1. ~stale
    BY <1>3 DEF CheckpointOk, CheckpointLost
  <2>2. QED BY <1>3, <2>1, CheckpointEndLoss
<1>4. CASE Dispatch
  <2>1. history'.ranHere = {} /\ pc'.at = "loop"
    BY <1>4 DEF Dispatch, StartRequest, PcAt, RunTypeOK, History
  <2>2. QED BY <2>1 DEF Held, NoLostResults
<1>5. CASE ApplyResponse \/ Crash
  <2>1. pc'.at = "off"
    BY <1>5 DEF ApplyResponse, Crash, PcAt
  <2>2. QED BY <2>1 DEF NoLostResults, Running
<1>6. CASE RecordCheckpoint \/ \E w \in Waits : WaitEnds(w)
  <2>1. \A s \in Steps : memo[s] # "none" => memo'[s] = memo[s]
    BY <1>6, MemoKept
  <2>2. UNCHANGED <<pc, buffer, response, stale, history>>
    BY <1>6 DEF RecordCheckpoint, WaitEnds, engineVars, shipVars
  <2>3. history.ranHere \subseteq Steps
    BY DEF RunTypeOK, History
  <2>4. QED BY <2>1, <2>2, <2>3 DEF LossInv, Held, InBuffer, NoLostResults, Running
<1>7. CASE CheckpointRefused \/ GiveUp
  BY <1>7 DEF CheckpointRefused, GiveUp
<1>8. CASE Ended \/ UNCHANGED vars
  <2>1. UNCHANGED <<pc, buffer, response, stale, history, memo>>
    BY <1>8 DEF Ended, vars, engineVars, shipVars, serverVars
  <2>2. QED BY <2>1 DEF LossInv, Held, InBuffer, NoLostResults, Running
<1>9. QED BY <1>1, <1>2, <1>3, <1>4, <1>5, <1>6, <1>7, <1>8 DEF Next

\* A request that has not been given up never answers without the results of the steps it
\* ran, through crashes, failed checkpoints, retries and user code that throws; with
\* checkpointing, of a function that awaits its steps.
THEOREM NoResultLost == StepsAwaited => (Spec => []NoLostResults)
<1> SUFFICES ASSUME StepsAwaited PROVE Spec => []NoLostResults
  OBVIOUS
<1>1. Init => LossInv
  <2>1. ASSUME Init PROVE pc.at = "off"
    BY <2>1 DEF Init, PcAt
  <2>2. QED BY <2>1 DEF LossInv, TimersInv, NoLostResults, Running
<1>2. RunTypeOK /\ PromiseInv /\ (RunTypeOK /\ PromiseInv)' /\ LossInv /\ [Next]_vars => LossInv'
  BY LossStep
<1>3. LossInv => NoLostResults
  BY DEF LossInv
<1>4. QED BY <1>1, <1>2, <1>3, PromiseHolds, PTL DEF Spec

-----------------------------------------------------------------------------
(* No body succeeds twice.                                                 *)

InAnswer(s) == \E i \in DOMAIN response.batch.ran : response.batch.ran[i] = [step |-> s, kind |-> "ok"]

\* The server can apply the whole answer: it has no result, it has the new result of one
\* body, or it takes new results along with the end of the run, when nothing is planned.
AllRecordable ==
  LET batch == response.batch
  IN \/ batch.ran = <<>>
     \/ /\ Len(batch.ran) = 1 /\ memo[batch.ran[1].step] = "none"
        /\ batch.end = "none" /\ response.type # "step-not-found"
     \/ /\ AllOk(batch.ran) /\ AllNew(batch.ran)
        /\ batch.end = "complete" /\ planned = {}

\* Only what has no result yet, recorded or buffered, is planned, asked for and run.
NothingTwice ==
  /\ \A s \in planned : memo[s] = "none"
  /\ Running /\ StepMode(req) = "AsyncCheckpointing" => planned = {}
  /\ Running /\ req.step # NoStep => req.step \notin Waits /\ memo[req.step] = "none"
  /\ pc.at = "exec" => memo[pc.step] = "none" /\ ~InBuffer(pc.step)
  /\ pc.at = "checkpoint" /\ pc.then = "stepRan" => memo[pc.step] = "none" /\ ~InBuffer(pc.step)
  /\ pc.at = "done" => AllRecordable

\* A body that has succeeded has a result, which is recorded, buffered or in the answer.
RanOnce ==
  \A s \in Steps :
    /\ history.runs[s] <= 1
    /\ history.runs[s] # 0 =>
         \/ memo[s] # "none"
         \/ Running /\ InBuffer(s)
         \/ pc.at = "done" /\ InAnswer(s)

OnceInv == faults = 0 => ~stale /\ NothingTwice /\ RanOnce

\* Where the core loop goes when no body and no checkpoint ends.
MovesOn ==
  /\ req' = req /\ Running
  /\ \/ pc' = pc
     \/ pc'.at = "loop"
     \/ pc'.at = "checkpoint" /\ pc'.then # "stepRan"
     \/ pc'.at = "exec" /\ memo[pc'.step] = "none" /\ ~InBuffer(pc'.step)
     \/ pc'.at = "done" /\ pc.at = "loop"

\* A step without a result of its own is neither recorded nor buffered.
LEMMA UnknownIsNew ==
  ASSUME TypeOK, RequestInv, NEW s \in Steps \ Waits, stepState[s] = "none"
  PROVE  memo[s] = "none" /\ ~InBuffer(s)
<1>1. memo[s] = "none"
  BY DEF RequestInv, Known
<1>2. ~InBuffer(s)
  BY DEF RequestInv, Known, InBuffer
<1>3. QED BY <1>1, <1>2

LEMMA AsyncStepsFoundMoves ==
  ASSUME RunTypeOK, RequestInv, NothingTwice, AsyncStepsFound
  PROVE  MovesOn
<1> DEFINE steps == Head(queue).steps
<1>1. pc.at = "loop" /\ req' = req /\ steps \subseteq Steps /\ TypeOK
  BY HeadStepsType DEF AsyncStepsFound, TakeCheckpoint, requestVars, RunTypeOK
<1>2. CASE StepToRun(steps) # NoStep
  <2>1. StartStep(StepToRun(steps))
    BY <1>2 DEF AsyncStepsFound
  <2>2. pc'.at = "exec" /\ pc'.step = StepToRun(steps)
    BY <2>1 DEF StartStep, PcAt
  <2>3. memo[StepToRun(steps)] = "none" /\ ~InBuffer(StepToRun(steps))
    <3>1. CASE req.step # NoStep
      <4>1. buffer = <<>>
        BY DEF AsyncStepsFound, RequestInv, Buffered
      <4>2. DOMAIN buffer = {}
        BY <4>1
      <4>3. QED BY <1>1, <1>2, <3>1, <4>2 DEF StepToRun, NothingTwice, Running, InBuffer
    <3>2. CASE req.step = NoStep
      <4>1. StepToRun(steps) = EarlyStep(steps)
        BY <3>2 DEF StepToRun
      <4>2. EarlyStep(steps) \in Steps \ Waits /\ stepState[EarlyStep(steps)] = "none"
        BY <1>1, <1>2, <4>1, EarlyIsNew
      <4>3. QED BY <1>1, <4>1, <4>2, UnknownIsNew
    <3>3. QED BY <3>1, <3>2
  <2>4. QED BY <1>1, <2>2, <2>3 DEF MovesOn, Running
<1>3. CASE StepToRun(steps) = NoStep
  <2>1. MaybeReturnNewSteps(steps)
    BY <1>3 DEF AsyncStepsFound
  <2>2. QED BY <1>1, <2>1, MaybeReturnsNothing DEF MovesOn, Running
<1>4. QED BY <1>2, <1>3

LEMMA CheckpointingStepsFoundMoves ==
  ASSUME RunTypeOK, RequestInv, CheckpointingStepsFound
  PROVE  MovesOn
<1> DEFINE steps == Head(queue).steps
           early == EarlyStep(NewSteps(steps))
<1>1. pc.at = "loop" /\ req' = req /\ steps \subseteq Steps /\ TypeOK
  BY HeadStepsType DEF CheckpointingStepsFound, TakeCheckpoint, requestVars, RunTypeOK
<1>2. CASE NewSteps(steps) = {}
  <2>1. pc' = pc
    BY <1>2 DEF CheckpointingStepsFound
  <2>2. QED BY <1>1, <2>1 DEF MovesOn, Running
<1>3. CASE NewSteps(steps) # {} /\ ~exceeded /\ early # NoStep
  <2>1. StartStep(early)
    BY <1>3 DEF CheckpointingStepsFound
  <2>2. pc'.at = "exec" /\ pc'.step = early
    BY <2>1 DEF StartStep, PcAt
  <2>3. early \in NewSteps(steps) \ Waits /\ stepState[early] = "none"
    BY <1>3, EarlyIsNew
  <2>4. memo[early] = "none" /\ ~InBuffer(early)
    BY <1>1, <2>3, UnknownIsNew DEF NewSteps
  <2>5. QED BY <1>1, <2>2, <2>4 DEF MovesOn, Running
<1>4. CASE NewSteps(steps) # {} /\ ~(~exceeded /\ early # NoStep)
  <2> DEFINE plan == IF exceeded THEN [PcAt("loop") EXCEPT !.then = "planAll"]
                     ELSE [PcAt("loop") EXCEPT !.then = "plan", !.steps = steps]
  <2>1. IF buffer # <<>> THEN StartCheckpoint(plan)
        ELSE MaybeReturnNewSteps(IF exceeded THEN found ELSE steps)
    BY <1>4 DEF CheckpointingStepsFound
  <2>2. CASE StartCheckpoint(plan)
    <3>1. pc'.at = "checkpoint" /\ pc'.then \in {"plan", "planAll"}
      BY <2>2 DEF StartCheckpoint, PcAt
    <3>2. QED BY <1>1, <3>1 DEF MovesOn, Running
  <2>3. CASE MaybeReturnNewSteps(IF exceeded THEN found ELSE steps)
    BY <1>1, <2>3, MaybeReturnsNothing DEF MovesOn, Running
  <2>4. QED BY <2>1, <2>2, <2>3
<1>5. QED BY <1>2, <1>3, <1>4

LEMMA EngineMovesOn ==
  ASSUME RunTypeOK, RequestInv, NothingTwice, EngineStep
  PROVE  MovesOn
<1>1. CASE UserCalls \/ FunctionReturns \/ FunctionThrows \/ HandleMemoized \/ ReportFound \/ TimerFires
  BY <1>1 DEF UserCalls, FunctionReturns, FunctionThrows, HandleMemoized, ReportFound, TimerFires,
     requestVars, MovesOn
<1>2. CASE AsyncStepsFound \/ CheckpointingStepsFound
  BY <1>2, AsyncStepsFoundMoves, CheckpointingStepsFoundMoves
<1>3. CASE AsyncFunctionResolved \/ AsyncFunctionRejected
  BY <1>3, FunctionEndsEmpty DEF MovesOn, Running
<1>4. CASE CheckpointingFunctionResolved
  <2>1. pc.at = "loop" /\ req' = req
    BY <1>4 DEF CheckpointingFunctionResolved, ResolvedAs, TakeCheckpoint, requestVars
  <2>2. pc'.at = "done"
    BY <1>4 DEF CheckpointingFunctionResolved, ResolvedAs, Return, PcAt
  <2>3. QED BY <2>1, <2>2 DEF MovesOn, Running
<1>5. CASE CheckpointingFunctionRejected
  <2> DEFINE then == [PcAt("loop") EXCEPT !.then = "reject", !.final = Head(queue).final]
  <2>1. pc.at = "loop" /\ req' = req
    BY <1>5 DEF CheckpointingFunctionRejected, TakeCheckpoint, requestVars
  <2>2. StartCheckpoint(then) \/ Reject(Head(queue).final, {})
    BY <1>5 DEF CheckpointingFunctionRejected
  <2>3. CASE StartCheckpoint(then)
    <3>1. pc'.at = "checkpoint" /\ pc'.then = "reject"
      BY <2>3 DEF StartCheckpoint, PcAt
    <3>2. QED BY <2>1, <3>1 DEF MovesOn, Running
  <2>4. CASE Reject(Head(queue).final, {})
    BY <2>1, <2>4, RejectsWithout DEF MovesOn, Running
  <2>5. QED BY <2>2, <2>3, <2>4
<1>6. CASE StepNotFound
  <2>1. pc.at = "loop" /\ req' = req
    BY <1>6 DEF StepNotFound, TakeCheckpoint, requestVars
  <2>2. pc'.at = "done"
    BY <1>6 DEF StepNotFound, Return, PcAt
  <2>3. QED BY <2>1, <2>2 DEF MovesOn, Running
<1>7. CASE RuntimeReached
  BY <1>7 DEF RuntimeReached, TakeCheckpoint, requestVars, MovesOn, Running
<1>8. CASE BufferIntervalReached
  <2>1. pc.at = "loop" /\ req' = req /\ StartCheckpoint([PcAt("loop") EXCEPT !.then = "loop"])
    BY <1>8 DEF BufferIntervalReached, TakeCheckpoint, requestVars
  <2>2. pc'.at = "checkpoint" /\ pc'.then = "loop"
    BY <2>1 DEF StartCheckpoint, PcAt
  <2>3. QED BY <2>1, <2>2 DEF MovesOn, Running
<1>9. QED BY <1>1, <1>2, <1>3, <1>4, <1>5, <1>6, <1>7, <1>8 DEF EngineStep

\* A result of the buffer is one of an answer that takes the whole buffer along.
LEMMA BufferAnswered ==
  ASSUME RunTypeOK, AllOk(buffer), response'.batch.ran = buffer, NEW s, InBuffer(s)
  PROVE  InAnswer(s)'
<1>1. PICK k \in DOMAIN buffer : buffer[k].step = s
  BY DEF InBuffer
<1>2. buffer[k] \in Result /\ buffer[k].kind = "ok"
  BY ResultFields DEF RunTypeOK, TypeOK, AllOk
<1>3. buffer[k] = [step |-> s, kind |-> "ok"]
  BY <1>1, <1>2 DEF Result
<1>4. QED BY <1>3 DEF InAnswer

LEMMA EngineMovesOnce ==
  ASSUME RunTypeOK, PromiseInv, StepsAwaited, TimersInv, OnceInv, EngineMoves
  PROVE  OnceInv'
<1> SUFFICES ASSUME faults' = 0 PROVE (~stale /\ NothingTwice /\ RanOnce)'
  BY DEF OnceInv
<1>1. faults = 0 /\ EngineStep /\ UNCHANGED <<memo, planned, stale>> /\ TypeOK
  BY DEF EngineMoves, serverVars, RunTypeOK
<1>2. ~stale /\ NothingTwice /\ RanOnce
  BY <1>1 DEF OnceInv
<1>3. Running
  BY <1>1, EngineLocation
<1>4. RequestInv
  BY <1>2, <1>3 DEF PromiseInv, RequestInv
<1>5. MovesOn
  BY <1>1, <1>2, <1>4, EngineMovesOn
<1>6. buffer' = buffer
  BY <1>1, EngineBuffer
<1>7. AnswersAll
  BY <1>1, <1>4, EngineAnswersAll
<1>8. history'.runs = history.runs
  BY RunsObserved DEF RunTypeOK, EngineMoves
<1>9. pc'.at = "done" => AllRecordable'
  <2> SUFFICES ASSUME pc'.at = "done" PROVE AllRecordable'
    OBVIOUS
  <2>1. pc.at = "loop"
    BY <1>3, <1>5 DEF MovesOn, Running
  <2>2. response'.batch.ran = buffer /\ (buffer # <<>> => response'.batch.end = "complete")
    BY <1>7 DEF AnswersAll
  <2>3. CASE buffer = <<>>
    BY <2>2, <2>3 DEF AllRecordable
  <2>4. CASE buffer # <<>>
    <3>1. StepMode(req) = "AsyncCheckpointing"
      BY <1>4, <2>4 DEF RequestInv, Buffered, StepMode
    <3>2. planned = {}
      BY <1>2, <1>3, <3>1 DEF NothingTwice
    <3>3. ~recorded
      BY <2>1 DEF PromiseInv, Server
    <3>4. AllOk(buffer) /\ AllNew(buffer)
      BY <1>4, <3>3 DEF RequestInv, Buffered
    <3>5. QED BY <1>1, <2>2, <2>4, <3>2, <3>4 DEF AllRecordable, AllOk, AllNew
  <2>5. QED BY <2>3, <2>4
<1>10. NothingTwice'
  <2>1. StepMode(req)' = StepMode(req)
    BY <1>5 DEF MovesOn, StepMode
  <2>2. pc'.at = "exec" => memo[pc'.step] = "none" /\ ~InBuffer(pc'.step)
    BY <1>2, <1>5 DEF NothingTwice, MovesOn
  <2>3. pc'.at = "checkpoint" /\ pc'.then = "stepRan" => memo[pc'.step] = "none" /\ ~InBuffer(pc'.step)
    BY <1>2, <1>5 DEF NothingTwice, MovesOn
  <2>4. QED BY <1>1, <1>2, <1>3, <1>5, <1>6, <1>9, <2>1, <2>2, <2>3 DEF NothingTwice, MovesOn, InBuffer
<1>11. RanOnce'
  <2>1. ASSUME NEW s \in Steps, history.runs[s] # 0
        PROVE  memo[s] # "none" \/ InBuffer(s)
    BY <1>2, <1>3, <2>1 DEF RanOnce, Running
  <2>2. pc'.at = "done" => response'.batch.ran = buffer
    BY <1>7 DEF AnswersAll
  <2>3. AllOk(buffer)
    BY <1>4 DEF RequestInv, Buffered
  <2>4. ASSUME NEW s \in Steps, InBuffer(s)
        PROVE  (Running' /\ InBuffer(s)') \/ (pc'.at = "done" /\ InAnswer(s)')
    <3>1. InBuffer(s)'
      BY <1>6, <2>4 DEF InBuffer
    <3>2. Running' \/ pc'.at = "done"
      BY <1>3, <1>5 DEF MovesOn, Running
    <3>3. pc'.at = "done" => InAnswer(s)'
      BY <2>2, <2>3, <2>4, BufferAnswered
    <3>4. QED BY <3>1, <3>2, <3>3
  <2>5. ASSUME NEW s \in Steps, history'.runs[s] # 0
        PROVE  \/ memo'[s] # "none"
               \/ Running' /\ InBuffer(s)'
               \/ pc'.at = "done" /\ InAnswer(s)'
    BY <1>1, <1>8, <2>1, <2>4, <2>5
  <2>6. QED BY <1>2, <1>8, <2>5 DEF RanOnce
<1>12. QED BY <1>1, <1>2, <1>10, <1>11

\* A body that succeeds is counted.
LEMMA RunsAfter ==
  ASSUME RunTypeOK, StepSucceeds \/ StepThrows, history.runs[pc.step] = 0, pc.step \in Steps
  PROVE  /\ \A s \in Steps \ {pc.step} : history'.runs[s] = history.runs[s]
         /\ history'.runs[pc.step] = IF StepSucceeds THEN 1 ELSE 0
<1>1. history \in History /\ history.runs \in [Steps -> 0 .. 2]
  BY DEF RunTypeOK, History
<1>2. CASE StepSucceeds
  <2>1. history'.runs = [history.runs EXCEPT ![pc.step] = Capped(@ + 1, 2)]
    <3>1. Observed(history).runs = history.runs
      BY <1>1, RunsObserved
    <3>2. TypeOK'
      BY <1>2, BodySucceedsType DEF StepSucceeds, RunTypeOK
    <3>3. Observed(history) \in History
      BY <1>2, <3>2, BodySucceedsResolvesOne, ObservedType DEF StepSucceeds, RunTypeOK
    <3>4. QED BY <1>2, <3>1, <3>3 DEF StepSucceeds, History
  <2>2. Capped(0 + 1, 2) = 1
    BY DEF Capped
  <2>3. QED BY <1>1, <1>2, <2>1, <2>2
<1>3. CASE StepThrows /\ ~StepSucceeds
  <2>1. history'.runs = history.runs
    BY <1>1, <1>3 DEF StepThrows, History
  <2>2. QED BY <1>3, <2>1
<1>4. QED BY <1>2, <1>3

LEMMA BodyOnce ==
  ASSUME RunTypeOK, PromiseInv, OnceInv, StepSucceeds \/ StepThrows
  PROVE  OnceInv'
<1> SUFFICES ASSUME faults' = 0 PROVE (~stale /\ NothingTwice /\ RanOnce)'
  BY DEF OnceInv
<1>1. /\ faults = 0 /\ UNCHANGED <<memo, planned, stale>>
      /\ TypeOK /\ (BodySucceeds \/ BodyThrows)
  BY DEF StepSucceeds, StepThrows, serverVars, RunTypeOK
<1>2. ~stale /\ NothingTwice /\ RanOnce
  BY <1>1 DEF OnceInv
<1>3. Running
  BY <1>1, EngineLocation
<1>4. RequestInv
  BY <1>2, <1>3 DEF PromiseInv, RequestInv
<1>5. PICK kind \in ResultKind :
        /\ pc.at = "exec" /\ req' = req /\ (BodySucceeds => kind = "ok")
        /\ BodyAnswers(kind) \/ BodyIsBuffered(kind) \/ BodyWaits(kind)
  BY <1>1, <1>4, BodyEndsAs
<1>6. pc.step \in Steps /\ memo[pc.step] = "none" /\ ~InBuffer(pc.step)
  BY <1>1, <1>2, <1>5, RunningStep DEF NothingTwice
<1>7. history.runs[pc.step] = 0
  BY <1>2, <1>5, <1>6 DEF RanOnce
<1>8. /\ \A s \in Steps \ {pc.step} : history'.runs[s] = history.runs[s]
      /\ history'.runs[pc.step] = IF StepSucceeds THEN 1 ELSE 0
  BY <1>6, <1>7, RunsAfter
<1>9. StepSucceeds => kind = "ok"
  BY <1>5 DEF StepSucceeds
<1>10. \A s \in Steps : history.runs[s] # 0 => memo[s] # "none" \/ InBuffer(s)
  BY <1>2, <1>3, <1>5 DEF RanOnce
<1>11. StepMode(req)' = StepMode(req)
  BY <1>5 DEF StepMode
<1>12. CASE BodyAnswers(kind)
  <2> DEFINE result == [step |-> pc.step, kind |-> kind]
  <2>1. /\ pc'.at = "done" /\ response'.batch.ran = <<result>>
        /\ response'.batch.end = "none" /\ response'.type # "step-not-found"
        /\ DOMAIN buffer = {}
    BY <1>12 DEF BodyAnswers
  <2>2. /\ Len(response'.batch.ran) = 1 /\ DOMAIN response'.batch.ran = {1}
        /\ response'.batch.ran[1] = result /\ result.step = pc.step
    BY <2>1
  <2>3. AllRecordable'
    BY <1>1, <1>6, <2>1, <2>2 DEF AllRecordable
  <2>4. NothingTwice'
    BY <1>1, <1>2, <2>1, <2>3 DEF NothingTwice, Running
  <2>5. \A s \in Steps : history.runs[s] # 0 => memo[s] # "none"
    BY <1>10, <2>1 DEF InBuffer
  <2>6. \A s \in Steps : StepSucceeds /\ s = pc.step => InAnswer(s)'
    BY <1>9, <2>2 DEF InAnswer
  <2>7. RanOnce'
    BY <1>1, <1>2, <1>6, <1>8, <2>1, <2>5, <2>6 DEF RanOnce
  <2>8. QED BY <1>1, <1>2, <2>4, <2>7
<1>13. CASE BodyIsBuffered(kind)
  <2> DEFINE result == [step |-> pc.step, kind |-> "ok"]
  <2>1. buffer' = Append(buffer, result) /\ buffer \in Seq(Result) /\ result.step = pc.step
    BY <1>1, <1>13 DEF BodyIsBuffered, TypeOK
  <2>2. /\ \A k \in DOMAIN buffer : k \in DOMAIN buffer' /\ buffer'[k] = buffer[k]
        /\ Len(buffer) + 1 \in DOMAIN buffer' /\ buffer'[Len(buffer) + 1] = result
    BY <2>1
  <2>3. \A s \in Steps : InBuffer(s) \/ s = pc.step => InBuffer(s)'
    BY <2>1, <2>2 DEF InBuffer
  <2>4. pc'.at \in {"loop", "checkpoint"} /\ (pc'.at = "checkpoint" => pc'.then = "loop")
    BY <1>13 DEF BodyIsBuffered
  <2>5. NothingTwice'
    BY <1>1, <1>2, <1>3, <1>5, <1>11, <2>4 DEF NothingTwice
  <2>6. RanOnce'
    BY <1>1, <1>2, <1>6, <1>8, <1>10, <2>3, <2>4 DEF RanOnce, Running
  <2>7. QED BY <1>1, <1>2, <2>5, <2>6
<1>14. CASE BodyWaits(kind)
  <2>1. /\ buffer' = buffer /\ kind # "ok"
        /\ pc'.at = "checkpoint" /\ pc'.then = "stepRan" /\ pc'.step = pc.step
    BY <1>14 DEF BodyWaits
  <2>2. \A s \in Steps : InBuffer(s)' <=> InBuffer(s)
    BY <2>1 DEF InBuffer
  <2>3. NothingTwice'
    BY <1>1, <1>2, <1>3, <1>5, <1>6, <1>11, <2>1, <2>2 DEF NothingTwice
  <2>4. RanOnce'
    BY <1>1, <1>2, <1>6, <1>8, <1>9, <1>10, <2>1, <2>2 DEF RanOnce, Running
  <2>5. QED BY <1>1, <1>2, <2>3, <2>4
<1>15. QED BY <1>5, <1>12, <1>13, <1>14

LEMMA CheckpointOnce ==
  ASSUME RunTypeOK, PromiseInv, OnceInv, CheckpointOk
  PROVE  OnceInv'
<1> SUFFICES ASSUME faults' = 0 PROVE (~stale /\ NothingTwice /\ RanOnce)'
  BY DEF OnceInv
<1>1. /\ faults = 0 /\ UNCHANGED <<memo, planned, stale, history, req>>
      /\ pc.at = "checkpoint" /\ recorded /\ Continue /\ buffer' = <<>>
  BY DEF CheckpointOk, CheckpointSucceeds, serverVars, requestVars
<1>2. ~stale /\ NothingTwice /\ RanOnce
  BY <1>1 DEF OnceInv
<1>3. Running /\ \A k \in DOMAIN buffer : memo[buffer[k].step] = "ok"
  BY <1>1, <1>2 DEF PromiseInv, Running, Buffered
<1>4. CheckpointAnswers
  BY <1>1, ContinueAnswers
<1>5. pc'.at = "done" => AllRecordable'
  <2>1. CASE response'.batch.ran = <<>>
    BY <2>1 DEF AllRecordable
  <2>2. CASE pc.then = "stepRan" /\ response'.batch.ran = <<[step |-> pc.step, kind |-> pc.kind]>>
             /\ response'.batch.end = "none" /\ response'.type # "step-not-found"
    <3> DEFINE result == [step |-> pc.step, kind |-> pc.kind]
    <3>1. Len(response'.batch.ran) = 1 /\ response'.batch.ran[1] = result /\ result.step = pc.step
      BY <2>2
    <3>2. memo[pc.step] = "none"
      BY <1>1, <1>2, <2>2 DEF NothingTwice
    <3>3. QED BY <1>1, <2>2, <3>1, <3>2 DEF AllRecordable
  <2>3. QED BY <1>4, <2>1, <2>2 DEF CheckpointAnswers
<1>6. pc'.at \in {"loop", "done"}
  BY <1>4 DEF CheckpointAnswers
<1>7. NothingTwice'
  <2>1. StepMode(req)' = StepMode(req)
    BY <1>1 DEF StepMode
  <2>2. QED BY <1>1, <1>2, <1>3, <1>5, <1>6, <2>1 DEF NothingTwice
<1>8. RanOnce'
  <2>1. ASSUME NEW s \in Steps, history.runs[s] # 0
        PROVE  memo[s] # "none"
    <3>1. memo[s] # "none" \/ InBuffer(s)
      BY <1>1, <1>2, <2>1 DEF RanOnce
    <3>2. QED BY <1>3, <3>1 DEF InBuffer
  <2>2. QED BY <1>1, <1>2, <2>1 DEF RanOnce
<1>9. QED BY <1>1, <1>2, <1>7, <1>8

\* What the server records of an answer.
LEMMA AnswerRecorded ==
  ASSUME RunTypeOK, RunTypeOK', PromiseInv, ApplyResponse, ~stale, AllRecordable
  PROVE  /\ \A s \in Steps : memo[s] # "none" => memo'[s] = memo[s]
         /\ \A s \in Steps : InAnswer(s) => memo'[s] # "none"
         /\ \/ memo' = memo
            \/ planned = {}
            \/ /\ response.batch.end = "none" /\ response.type # "step-not-found"
               /\ ~\E i \in DOMAIN response.batch.ran : response.batch.ran[i].kind = "error"
<1> DEFINE ran == response.batch.ran
<1>1. pc.at = "done" /\ RecordResults(response.batch) /\ response.batch \in Batch /\ ran \in Seq(Result)
  BY DEF ApplyResponse, RunTypeOK, TypeOK, Response, Batch
<1>2. InOrder(memo, ran) /\ (AllOk(ran) \/ Len(ran) = 1)
  BY <1>1 DEF PromiseInv, Answer
<1>3. /\ \A s \in Steps : memo[s] # "none" => memo'[s] = memo[s]
      /\ AllOk(ran) /\ AllNew(ran) => \A k \in DOMAIN ran : memo'[ran[k].step] = "ok"
  BY <1>1, <1>2, Recording DEF PromiseInv
<1>4. Len(ran) = 1 => DOMAIN ran = {1}
  BY <1>1
<1>5. ASSUME NEW s \in Steps, InAnswer(s)
      PROVE  memo'[s] # "none"
  <2>1. PICK i \in DOMAIN ran : ran[i] = [step |-> s, kind |-> "ok"]
    BY <1>5 DEF InAnswer
  <2>2. AllOk(ran) /\ AllNew(ran)
    <3>1. CASE ran = <<>>
      <4>1. DOMAIN ran = {}
        BY <3>1
      <4>2. QED BY <4>1 DEF AllOk, AllNew
    <3>2. CASE Len(ran) = 1 /\ memo[ran[1].step] = "none"
      BY <1>4, <2>1, <3>2 DEF AllOk, AllNew
    <3>3. CASE AllOk(ran) /\ AllNew(ran)
      BY <3>3
    <3>4. QED BY <3>1, <3>2, <3>3 DEF AllRecordable
  <2>3. memo'[ran[i].step] = "ok" /\ ran[i].step = s
    BY <1>3, <2>1, <2>2
  <2>4. QED BY <2>3
<1>6. CASE \E i \in DOMAIN ran : ran[i].kind = "error"
  <2>1. NewResults(ran) = <<>> /\ DOMAIN <<>> = {}
    BY <1>6 DEF NewResults
  <2>2. memo' = [s \in Steps |-> memo[s]]
    BY <1>1, <2>1 DEF RecordResults
  <2>3. memo' = memo
    BY <2>2 DEF RunTypeOK
  <2>4. QED BY <1>3, <1>5, <2>3
<1>7. CASE ~\E i \in DOMAIN ran : ran[i].kind = "error"
  <2>1. ran = <<>> => memo' = memo
    BY <1>1, RecordsNothing
  <2>2. QED BY <1>3, <1>5, <1>7, <2>1 DEF AllRecordable
<1>8. QED BY <1>6, <1>7

LEMMA ApplyResponseOnce ==
  ASSUME RunTypeOK, RunTypeOK', PromiseInv, OnceInv, ApplyResponse
  PROVE  OnceInv'
<1> DEFINE batch == response.batch
           retried == \/ response.type = "step-not-found"
                      \/ batch.end = "error"
                      \/ \E i \in DOMAIN batch.ran : batch.ran[i].kind = "error"
<1> SUFFICES ASSUME faults' = 0 PROVE (~stale /\ NothingTwice /\ RanOnce)'
  BY DEF OnceInv
<1>1. faults = 0 /\ pc.at = "done" /\ pc' = PcAt("off") /\ UNCHANGED <<stale, history>>
  BY DEF ApplyResponse
<1>2. ~stale /\ NothingTwice /\ RanOnce
  BY <1>1 DEF OnceInv
<1>3. AllRecordable
  BY <1>1, <1>2 DEF NothingTwice
<1>4. pc'.at = "off"
  BY <1>1 DEF PcAt
<1>5. /\ \A s \in Steps : memo[s] # "none" => memo'[s] = memo[s]
      /\ \A s \in Steps : InAnswer(s) => memo'[s] # "none"
      /\ \/ memo' = memo
         \/ planned = {}
         \/ batch.end = "none" /\ ~retried
  BY <1>2, <1>3, AnswerRecorded
<1>6. \A s \in planned' : memo'[s] = "none"
  <2>1. CASE batch.end \in {"complete", "failed"} \/ retried
    <3>1. planned' = planned
      BY <1>2, <2>1 DEF ApplyResponse, Retry
    <3>2. memo' = memo \/ planned = {}
      BY <1>5, <2>1
    <3>3. QED BY <1>2, <3>1, <3>2 DEF NothingTwice
  <2>2. CASE ~(batch.end \in {"complete", "failed"} \/ retried)
    <3>1. planned' = {s \in (planned \ {req.step}) \cup batch.plan : memo'[s] = "none"}
      BY <1>2, <2>2 DEF ApplyResponse
    <3>2. QED BY <3>1
  <2>3. QED BY <2>1, <2>2
<1>7. NothingTwice'
  BY <1>4, <1>6 DEF NothingTwice, Running
<1>8. RanOnce'
  <2>1. \A s \in Steps : history.runs[s] # 0 => memo[s] # "none" \/ InAnswer(s)
    BY <1>1, <1>2 DEF RanOnce, Running
  <2>2. \A s \in Steps : history.runs[s] # 0 => memo'[s] # "none"
    BY <1>5, <2>1
  <2>3. QED BY <1>1, <1>2, <2>2 DEF RanOnce
<1>9. QED BY <1>1, <1>2, <1>7, <1>8

LEMMA DispatchOnce ==
  ASSUME RunTypeOK, PromiseInv, OnceInv, Dispatch
  PROVE  OnceInv'
<1> SUFFICES ASSUME faults' = 0 PROVE (~stale /\ NothingTwice /\ RanOnce)'
  BY DEF OnceInv
<1>1. faults = 0 /\ pc.at = "off" /\ stale' = FALSE /\ UNCHANGED <<memo, planned>>
  BY DEF Dispatch, serverVars
<1>2. NothingTwice /\ RanOnce
  BY <1>1 DEF OnceInv
<1>3. PICK item \in (planned \ Waits) \cup {NoStep} :
        /\ req' = [step |-> item, attempt |-> attempts[item], die |-> planned # {}]
        /\ pc' = PcAt("loop")
  BY DEF Dispatch, StartRequest
<1>4. pc'.at = "loop" /\ req'.step = item /\ req'.die = (planned # {})
  BY <1>3 DEF PcAt
<1>5. NothingTwice'
  <2>1. StepMode(req)' = "AsyncCheckpointing" => planned = {}
    BY <1>4 DEF StepMode
  <2>2. QED BY <1>1, <1>2, <1>4, <2>1 DEF NothingTwice
<1>6. history'.runs = history.runs
  <2>1. history \in History
    BY DEF RunTypeOK
  <2>2. QED BY <2>1 DEF Dispatch, History
<1>7. \A s \in Steps : history.runs[s] # 0 => memo[s] # "none"
  BY <1>1, <1>2 DEF RanOnce, Running
<1>8. RanOnce'
  BY <1>1, <1>2, <1>6, <1>7 DEF RanOnce
<1>9. QED BY <1>1, <1>5, <1>8

\* The server records the buffer of a checkpoint, or a wait, while a request is under way.
LEMMA RecordedOnce ==
  ASSUME RunTypeOK, RunTypeOK', PromiseInv, OnceInv, RecordCheckpoint \/ \E w \in Waits : WaitEnds(w)
  PROVE  OnceInv'
<1> SUFFICES ASSUME faults' = 0 PROVE (~stale /\ NothingTwice /\ RanOnce)'
  BY DEF OnceInv
<1>1. faults = 0 /\ planned' \subseteq planned /\ UNCHANGED <<req, pc, buffer, response, stale, history>>
  BY DEF RecordCheckpoint, WaitEnds, engineVars, requestVars, shipVars
<1>2. ~stale /\ NothingTwice /\ RanOnce /\ TypeOK
  BY <1>1 DEF OnceInv, RunTypeOK
<1>3. \A s \in Steps : memo[s] # "none" => memo'[s] = memo[s]
  BY MemoKept
<1>4. planned \subseteq Steps /\ req.step \in Steps \cup {NoStep} /\ memo' \in [Steps -> StepValue]
  BY DEF RunTypeOK, TypeOK, Request
<1>5. \A s \in Steps : memo'[s] # memo[s] =>
        \/ RecordCheckpoint /\ pc.at = "checkpoint" /\ InBuffer(s)
        \/ s \in Waits /\ s \notin planned'
  <2>1. CASE RecordCheckpoint
    <3>1. pc.at = "checkpoint" /\ RecordResults(CheckpointBatch)
      BY <2>1 DEF RecordCheckpoint
    <3>2. InOrder(memo, buffer) /\ AllOk(buffer)
      BY <1>2, <3>1 DEF PromiseInv, Running, Buffered
    <3>3. CheckpointBatch \in Batch
      BY EmptyBatchType DEF CheckpointBatch, Batch, RunTypeOK, TypeOK, Pc
    <3>4. CheckpointBatch.ran = buffer
      BY BatchFields DEF CheckpointBatch
    <3>5. \A s \in Steps : memo'[s] # memo[s] => \E k \in DOMAIN buffer : buffer[k].step = s
      BY <3>1, <3>2, <3>3, <3>4, Recording DEF PromiseInv
    <3>6. QED BY <2>1, <3>1, <3>5 DEF InBuffer
  <2>2. CASE \E w \in Waits : WaitEnds(w)
    <3>1. PICK w \in Waits : WaitEnds(w)
      BY <2>2
    <3>2. w \notin planned' /\ \A s \in Steps \ {w} : memo'[s] = memo[s]
      BY <3>1 DEF WaitEnds, RunTypeOK
    <3>3. QED BY <3>2
  <2>3. QED BY <2>1, <2>2
<1>6. pc.at = "checkpoint" /\ (planned # {} \/ req.step # NoStep) => \A s \in Steps : ~InBuffer(s)
  <2>1. SUFFICES ASSUME pc.at = "checkpoint", planned # {} \/ req.step # NoStep
                 PROVE  \A s \in Steps : ~InBuffer(s)
    OBVIOUS
  <2>2. StepMode(req) = "Async"
    BY <1>2, <2>1 DEF NothingTwice, Running, StepMode
  <2>3. DOMAIN buffer = {}
    BY <1>2, <2>1, <2>2 DEF PromiseInv, Running, Buffered
  <2>4. QED BY <2>3 DEF InBuffer
<1>7. Running' = Running /\ StepMode(req)' = StepMode(req) /\ \A s : InBuffer(s)' <=> InBuffer(s)
  BY <1>1 DEF Running, StepMode, InBuffer
<1>8. pc.at = "exec" => pc.step \in Steps \ Waits
  BY <1>2, RunningStep DEF PromiseInv, Entitled, Running
<1>9. pc.at = "checkpoint" /\ pc.then = "stepRan" => pc.step \in Steps \ Waits
  BY <1>2 DEF PromiseInv, Entitled, Running, TypeOK
<1>10. pc.at = "done" => AllRecordable'
  <2> SUFFICES ASSUME pc.at = "done" PROVE AllRecordable'
    OBVIOUS
  <2> DEFINE ran == response.batch.ran
  <2>1. InOrder(memo, ran) /\ ran \in Seq(Result) /\ AllRecordable
    BY <1>2 DEF PromiseInv, Answer, NothingTwice, RunTypeOK, TypeOK, Response, Batch
  <2>2. \A k \in DOMAIN ran : ran[k].step \in Steps \ Waits
    BY <2>1, ResultFields DEF InOrder
  <2>3. \A k \in DOMAIN ran : memo'[ran[k].step] = memo[ran[k].step]
    BY <1>5, <2>2
  <2>4. Len(ran) = 1 => 1 \in DOMAIN ran
    BY <2>1
  <2>5. QED BY <1>1, <2>1, <2>3, <2>4 DEF AllRecordable, AllOk, AllNew
<1>11. NothingTwice'
  <2>1. \A s \in planned' : memo'[s] = "none"
    BY <1>1, <1>2, <1>4, <1>5, <1>6 DEF NothingTwice
  <2>2. Running /\ req.step # NoStep => req.step \notin Waits /\ memo'[req.step] = "none"
    BY <1>2, <1>4, <1>5, <1>6 DEF NothingTwice
  <2>3. pc.at = "exec" => memo'[pc.step] = "none" /\ ~InBuffer(pc.step)
    BY <1>2, <1>5, <1>8 DEF NothingTwice
  <2>4. pc.at = "checkpoint" /\ pc.then = "stepRan" => memo'[pc.step] = "none" /\ ~InBuffer(pc.step)
    BY <1>2, <1>5, <1>9 DEF NothingTwice
  <2>5. Running /\ StepMode(req) = "AsyncCheckpointing" => planned' = {}
    BY <1>1, <1>2 DEF NothingTwice
  <2>6. QED BY <1>1, <1>7, <1>10, <2>1, <2>2, <2>3, <2>4, <2>5 DEF NothingTwice, InBuffer
<1>12. RanOnce'
  <2>1. \A s : InAnswer(s)' <=> InAnswer(s)
    BY <1>1 DEF InAnswer
  <2>2. QED BY <1>1, <1>2, <1>3, <1>7, <2>1 DEF RanOnce
<1>13. QED BY <1>1, <1>2, <1>11, <1>12

LEMMA OnceStep ==
  ASSUME RunTypeOK, RunTypeOK', PromiseInv, StepsAwaited, TimersInv, OnceInv, [Next]_vars
  PROVE  OnceInv'
<1>1. CASE Ended \/ UNCHANGED vars
  <2>1. UNCHANGED <<req, pc, buffer, response, memo, planned, stale, faults, history>>
    BY <1>1 DEF Ended, vars, engineVars, requestVars, shipVars, serverVars
  <2>2. QED BY <2>1 DEF OnceInv, NothingTwice, AllRecordable, AllOk, AllNew, InBuffer, InAnswer, StepMode,
            RanOnce, Running
<1>2. CASE EngineMoves
  BY <1>2, EngineMovesOnce
<1>3. CASE StepSucceeds \/ StepThrows
  BY <1>3, BodyOnce
<1>4. CASE Dispatch
  BY <1>4, DispatchOnce
<1>5. CASE ApplyResponse
  BY <1>5, ApplyResponseOnce
<1>6. CASE RecordCheckpoint \/ \E w \in Waits : WaitEnds(w)
  BY <1>6, RecordedOnce
<1>7. CASE CheckpointOk
  BY <1>7, CheckpointOnce
<1>8. CASE CheckpointRefused
  BY <1>8 DEF CheckpointRefused, OnceInv
<1>9. CASE CheckpointLost \/ Crash \/ GiveUp
  <2>1. faults \in Nat /\ faults' = faults + 1
    BY <1>9 DEF CheckpointLost, Crash, GiveUp, Fault, RunTypeOK
  <2>2. QED BY <2>1 DEF OnceInv
<1>10. QED BY <1>1, <1>2, <1>3, <1>4, <1>5, <1>6, <1>7, <1>8, <1>9 DEF Next

\* Without faults no step body succeeds twice, however many requests replay the function,
\* whichever steps run in parallel and whatever is buffered when a request ends; with
\* checkpointing, of a function that awaits its steps.
THEOREM NothingRunsTwice == StepsAwaited => (Spec => []ExactlyOnce)
<1> SUFFICES ASSUME StepsAwaited PROVE Spec => []ExactlyOnce
  OBVIOUS
<1>1. Init => TimersInv /\ OnceInv
  <2>1. ASSUME Init
        PROVE  pc.at = "off" /\ stale = FALSE /\ planned = {} /\ \A s \in Steps : history.runs[s] = 0
    BY <2>1 DEF Init, PcAt
  <2>2. QED BY <2>1 DEF TimersInv, OnceInv, NothingTwice, RanOnce, Running
<1>2. RunTypeOK /\ PromiseInv /\ (RunTypeOK /\ PromiseInv)' /\ TimersInv /\ OnceInv /\ [Next]_vars
        => (TimersInv /\ OnceInv)'
  BY TimersStep, OnceStep
<1>3. OnceInv => ExactlyOnce
  BY DEF OnceInv, RanOnce, ExactlyOnce
<1>4. QED BY <1>1, <1>2, <1>3, PromiseHolds, PTL DEF Spec

\* Without checkpointing every function awaits its steps in this sense, dangling ones included:
\* the server plans them.
COROLLARY AsyncExactlyOnce == ~Checkpointing => (Spec => []ExactlyOnce)
BY NothingRunsTwice DEF StepsAwaited

-----------------------------------------------------------------------------
(***************************************************************************)
(* Defers.  Those user code has called are with the server, or wait to be  *)
(* shipped, or are in the checkpoint under way; a checkpoint that fails    *)
(* ends the request, because it has results to return or an error.  A      *)
(* checkpoint of the interval timer may have neither, and a function may   *)
(* return without a defer it called in an earlier request: neither is      *)
(* promised.                                                               *)
(***************************************************************************)
NoInterval == Checkpointing => "interval" \notin CheckpointTimers

\* A function that returns has called every defer.
DefersCalled ==
  \A F \in SUBSET Steps, S \in SUBSET Steps :
    CalledOn(F, S) /\ ReturnsOn(S) => \A d \in Defers : \E A \in CallAfter[d] : A \subseteq S

Shipping == IF pc.at = "checkpoint" THEN pc.defers ELSE {}

ReturnQueued == \E i \in DOMAIN queue : queue[i].type = "function-resolved"

DefersKept ==
  /\ priorDefers \subseteq received
  /\ seenDefers \subseteq received \cup lazy \cup Shipping
  /\ recorded => Shipping \subseteq received
  /\ pc.at = "checkpoint" => buffer # <<>> \/ pc.then = "reject"
  /\ ReturnQueued => Defers \subseteq seenDefers

DeferInv ==
  /\ Running /\ ~stale => DefersKept
  /\ pc.at = "done" /\ ~stale /\ response.batch.end = "complete" =>
       Defers \subseteq received \cup response.batch.defers
  /\ outcome = "completed" => Defers \subseteq received

AnswersIncomplete == pc'.at = "done" /\ response'.batch.end # "complete"

\* Where the core loop goes with the defers that wait to be shipped.
DefersGo ==
  /\ UNCHANGED <<priorDefers, seenDefers>>
  /\ ReturnQueued' => ReturnQueued
  /\ \/ pc'.at \in {"loop", "exec"} /\ lazy' = lazy
     \/ pc'.at = "checkpoint" /\ pc'.defers = lazy /\ (buffer' # <<>> \/ pc'.then = "reject")
     \/ AnswersIncomplete
     \/ /\ pc'.at = "done" /\ response'.batch.end = "complete"
        /\ response'.batch.defers = lazy /\ ReturnQueued

LEMMA ReturnsIncomplete ==
  ASSUME NEW type, NEW batch, NEW retriable, Return(type, batch, retriable), batch.end # "complete"
  PROVE  AnswersIncomplete
<1>1. pc' = PcAt("done") /\ response' = [type |-> type, batch |-> batch, retriable |-> retriable]
  BY DEF Return
<1>2. QED BY <1>1 DEF PcAt, AnswersIncomplete

LEMMA MaybeReturnsIncomplete ==
  ASSUME NEW steps, MaybeReturnNewSteps(steps)
  PROVE  (pc'.at = "loop" /\ lazy' = lazy) \/ AnswersIncomplete
<1> DEFINE batch == [EmptyBatch EXCEPT !.plan = PlannedSteps(steps), !.defers = lazy]
<1>1. CASE pc' = PcAt("loop") /\ lazy = {}
  BY <1>1 DEF PcAt, MaybeReturnNewSteps
<1>2. CASE Return("steps-found", batch, FALSE)
  <2>1. batch.end # "complete"
    BY BatchFields
  <2>2. QED BY <1>2, <2>1, ReturnsIncomplete
<1>3. QED BY <1>1, <1>2 DEF MaybeReturnNewSteps

LEMMA RejectsIncomplete ==
  ASSUME NEW final, NEW defers, Reject(final, defers)
  PROVE  AnswersIncomplete
<1> DEFINE batch == [EmptyBatch EXCEPT !.defers = defers, !.end = IF final THEN "failed" ELSE "error"]
<1>1. batch.end # "complete"
  BY BatchFields
<1>2. PICK type, retriable : Return(type, batch, retriable)
  BY DEF Reject
<1> HIDE DEF batch
<1>3. QED BY <1>1, <1>2, ReturnsIncomplete

LEMMA ChecksDefers ==
  ASSUME NEW continuation \in Pc, StartCheckpoint(continuation)
  PROVE  pc'.at = "checkpoint" /\ pc'.defers = lazy /\ pc'.then = continuation.then
  BY DEF StartCheckpoint, Pc

LEMMA TakesReturn ==
  ASSUME TypeOK, NEW type, TakeCheckpoint(type)
  PROVE  /\ pc.at = "loop"
         /\ ReturnQueued' => ReturnQueued
         /\ type = "function-resolved" => ReturnQueued
  BY TakesCheckpoint DEF ReturnQueued

LEMMA StepsFoundDefers ==
  ASSUME TypeOK, AsyncStepsFound \/ CheckpointingStepsFound
  PROVE  DefersGo
<1> DEFINE steps == Head(queue).steps
           plan == IF exceeded THEN [PcAt("loop") EXCEPT !.then = "planAll"]
                   ELSE [PcAt("loop") EXCEPT !.then = "plan", !.steps = steps]
<1>1. TakeCheckpoint("steps-found") /\ UNCHANGED <<priorDefers, seenDefers, buffer>>
  BY DEF AsyncStepsFound, CheckpointingStepsFound, requestVars, userVars
<1>2. pc.at = "loop" /\ (ReturnQueued' => ReturnQueued)
  BY <1>1, TakesReturn
<1>3. plan \in Pc
  <2>1. steps \in SUBSET Steps
    BY <1>1, HeadStepsType
  <2>2. QED BY <2>1 DEF PcAt, Pc, Location, Continuation, ResultKind
<1>4. \/ UNCHANGED <<pc, lazy>>
      \/ \E s : StartStep(s)
      \/ buffer # <<>> /\ StartCheckpoint(plan)
      \/ \E found2 : MaybeReturnNewSteps(found2)
  BY DEF AsyncStepsFound, CheckpointingStepsFound
<1>5. CASE \E s : StartStep(s)
  BY <1>1, <1>2, <1>5 DEF StartStep, PcAt, DefersGo
<1>6. CASE buffer # <<>> /\ StartCheckpoint(plan)
  BY <1>1, <1>2, <1>3, <1>6, ChecksDefers DEF DefersGo
<1>7. CASE \E found2 : MaybeReturnNewSteps(found2)
  BY <1>1, <1>2, <1>7, MaybeReturnsIncomplete DEF DefersGo
<1>8. CASE UNCHANGED <<pc, lazy>>
  BY <1>1, <1>2, <1>8 DEF DefersGo
<1>9. QED BY <1>4, <1>5, <1>6, <1>7, <1>8

LEMMA ResolvedDefers ==
  ASSUME TypeOK, AsyncFunctionResolved \/ CheckpointingFunctionResolved
  PROVE  DefersGo
<1> DEFINE planning == [EmptyBatch EXCEPT !.plan = PlannedSteps(found), !.defers = lazy]
           alone == [EmptyBatch EXCEPT !.defers = lazy, !.end = "complete"]
           complete == [EmptyBatch EXCEPT !.ran = buffer, !.defers = lazy, !.end = "complete"]
<1>1. TakeCheckpoint("function-resolved") /\ UNCHANGED <<priorDefers, seenDefers, buffer>>
  BY DEF AsyncFunctionResolved, CheckpointingFunctionResolved, ResolvedAs, requestVars, userVars
<1>2. ReturnQueued
  BY <1>1, TakesReturn
<1>3. /\ planning.end # "complete"
      /\ alone.end = "complete" /\ alone.defers = lazy
      /\ complete.end = "complete" /\ complete.defers = lazy
  BY BatchFields DEF EmptyBatch
<1>4. \E type : Return(type, planning, FALSE) \/ Return(type, alone, FALSE) \/ Return(type, complete, FALSE)
  BY DEF AsyncFunctionResolved, CheckpointingFunctionResolved, ResolvedAs
<1> HIDE DEF planning, alone, complete
<1>5. pc'.at = "done" /\ response'.batch \in {planning, alone, complete}
  BY <1>4 DEF Return, PcAt
<1>6. QED BY <1>1, <1>2, <1>3, <1>5 DEF DefersGo, AnswersIncomplete

LEMMA RejectedDefers ==
  ASSUME TypeOK, AsyncFunctionRejected \/ CheckpointingFunctionRejected
  PROVE  DefersGo
<1> DEFINE then == [PcAt("loop") EXCEPT !.then = "reject", !.final = Head(queue).final]
<1>1. TakeCheckpoint("function-rejected") /\ UNCHANGED <<priorDefers, seenDefers, buffer>>
  BY DEF AsyncFunctionRejected, CheckpointingFunctionRejected, requestVars, userVars
<1>2. pc.at = "loop" /\ (ReturnQueued' => ReturnQueued)
  BY <1>1, TakesReturn
<1>3. then \in Pc /\ then.then = "reject"
  <2>1. Head(queue).final \in BOOLEAN
    BY <1>1, HeadStepsType
  <2>2. QED BY <2>1 DEF PcAt, Pc, Location, Continuation, ResultKind
<1>4. StartCheckpoint(then) \/ \E defers : Reject(Head(queue).final, defers)
  BY DEF AsyncFunctionRejected, CheckpointingFunctionRejected
<1>5. CASE StartCheckpoint(then)
  BY <1>1, <1>2, <1>3, <1>5, ChecksDefers DEF DefersGo
<1>6. CASE \E defers : Reject(Head(queue).final, defers)
  BY <1>1, <1>2, <1>6, RejectsIncomplete DEF DefersGo
<1>7. QED BY <1>4, <1>5, <1>6

LEMMA OtherDefers ==
  ASSUME TypeOK, TimersInv, NoInterval, StepNotFound \/ RuntimeReached \/ BufferIntervalReached
  PROVE  DefersGo
<1>1. UNCHANGED <<priorDefers, seenDefers>>
  BY DEF StepNotFound, RuntimeReached, BufferIntervalReached, requestVars, userVars
<1>2. pc.at = "loop" /\ (ReturnQueued' => ReturnQueued)
  BY TakesReturn DEF StepNotFound, RuntimeReached, BufferIntervalReached
<1>3. CASE StepNotFound
  <2>1. AnswersIncomplete
    <3>1. Return("step-not-found", EmptyBatch, TRUE)
      BY <1>3 DEF StepNotFound
    <3>2. QED BY <3>1, BatchFields, ReturnsIncomplete
  <2>2. QED BY <1>1, <1>2, <2>1 DEF DefersGo
<1>4. CASE RuntimeReached
  BY <1>1, <1>2, <1>4 DEF RuntimeReached, shipVars, DefersGo
<1>5. ~BufferIntervalReached
  <2> SUFFICES ASSUME BufferIntervalReached PROVE FALSE
    OBVIOUS
  <2>1. PICK j \in DOMAIN queue : queue[j].type = "checkpointing-buffer-interval-reached"
    BY TakesCheckpoint DEF BufferIntervalReached
  <2>2. "interval" \in InitialTimers(req)
    BY <1>2, <2>1, TimerTypes DEF TimersInv, Timers, Running
  <2>3. QED BY <2>2 DEF InitialTimers, StepMode, NoInterval
<1>6. QED BY <1>3, <1>4, <1>5

LEMMA BodyDefers ==
  ASSUME TypeOK, BodySucceeds \/ BodyThrows
  PROVE  DefersGo
<1>1. PICK kind \in ResultKind :
        CheckpointingStepEnds \/ AsyncStepEnds(kind) \/ CheckpointingStepThrows(kind)
  BY DEF BodySucceeds, BodyThrows, ResultKind
<1>2. UNCHANGED <<priorDefers, seenDefers, queue>>
  BY <1>1 DEF CheckpointingStepEnds, AsyncStepEnds, CheckpointingStepThrows, requestVars, userVars
<1>3. ReturnQueued' => ReturnQueued
  BY <1>2 DEF ReturnQueued
<1>4. ASSUME NEW result, StepRan(result) PROVE AnswersIncomplete
  BY <1>4, StepRanAnswers DEF AnswersIncomplete
<1>5. CASE AsyncStepEnds(kind)
  BY <1>2, <1>3, <1>5, AsyncBodyAnswers DEF DefersGo, AnswersIncomplete
<1>6. CASE CheckpointingStepEnds
  <2>1. CASE req.attempt > 0
    BY <1>2, <1>3, <1>4, <1>6, <2>1 DEF CheckpointingStepEnds, DefersGo
  <2>2. CASE ~(req.attempt > 0)
    <3> DEFINE then == [PcAt("loop") EXCEPT !.then = "loop"]
               result == [step |-> pc.step, kind |-> "ok"]
    <3>1. ResumeUser(BufferedSteps)
      BY <1>6, <2>2 DEF CheckpointingStepEnds
    <3>2. buffer' = Append(buffer, result) /\ buffer' # <<>>
      <4>1. buffer' = Append(buffer, result)
        BY <3>1 DEF ResumeUser
      <4>2. QED BY <4>1 DEF TypeOK
    <3>3. then \in Pc /\ PcAt("loop").at = "loop"
      BY DEF PcAt, Pc, Location, Continuation, ResultKind
    <3>4. StartCheckpoint(then) \/ (pc' = PcAt("loop") /\ lazy' = lazy)
      BY <3>1 DEF ResumeUser
    <3>5. CASE StartCheckpoint(then)
      BY <1>2, <1>3, <3>2, <3>3, <3>5, ChecksDefers DEF DefersGo
    <3>6. CASE pc' = PcAt("loop") /\ lazy' = lazy
      BY <1>2, <1>3, <3>3, <3>6 DEF DefersGo
    <3>7. QED BY <3>4, <3>5, <3>6
  <2>3. QED BY <2>1, <2>2
<1>7. CASE CheckpointingStepThrows(kind)
  <2> DEFINE then == [PcAt("loop") EXCEPT !.then = "stepRan", !.step = pc.step, !.kind = kind]
  <2>1. CASE buffer # <<>>
    <3>1. pc.step \in Steps
      BY <1>7, RunningStep DEF CheckpointingStepThrows
    <3>2. then \in Pc
      BY <3>1 DEF PcAt, Pc, Location, Continuation, ResultKind
    <3>3. StartCheckpoint(then) /\ buffer' = buffer
      BY <1>7, <2>1 DEF CheckpointingStepThrows
    <3>4. QED BY <1>2, <1>3, <2>1, <3>2, <3>3, ChecksDefers DEF DefersGo
  <2>2. CASE buffer = <<>>
    BY <1>2, <1>3, <1>4, <1>7, <2>2 DEF CheckpointingStepThrows, DefersGo
  <2>3. QED BY <2>1, <2>2
<1>8. QED BY <1>1, <1>5, <1>6, <1>7

\* So the defers are kept wherever the core loop goes.
LEMMA DefersGoOn ==
  ASSUME DeferInv, Running, ~stale, ~recorded, pc.at # "checkpoint", DefersGo,
         UNCHANGED <<received, outcome, stale, recorded>>
  PROVE  DeferInv'
<1>1. DefersKept /\ Shipping = {}
  BY DEF DeferInv, Shipping
<1>2. Running' => DefersKept'
  <2>1. CASE pc'.at \in {"loop", "exec"} /\ lazy' = lazy
    BY <1>1, <2>1 DEF DefersKept, DefersGo, Shipping
  <2>2. CASE pc'.at = "checkpoint" /\ pc'.defers = lazy /\ (buffer' # <<>> \/ pc'.then = "reject")
    <3>1. Shipping' = lazy
      BY <2>2 DEF Shipping
    <3>2. QED BY <1>1, <2>2, <3>1 DEF DefersKept, DefersGo
  <2>3. CASE pc'.at = "done"
    BY <2>3 DEF Running
  <2>4. QED BY <2>1, <2>2, <2>3 DEF DefersGo, AnswersIncomplete
<1>3. pc'.at = "done" /\ response'.batch.end = "complete" => Defers \subseteq received' \cup response'.batch.defers
  BY <1>1 DEF DefersKept, DefersGo, AnswersIncomplete
<1>4. QED BY <1>2, <1>3 DEF DeferInv

LEMMA UserDefersKept ==
  ASSUME TypeOK, RequestInv, DefersCalled, DefersKept, UNCHANGED <<received, recorded>>,
         UserCalls \/ FunctionReturns \/ FunctionThrows \/ HandleMemoized \/ ReportFound \/ TimerFires
  PROVE  DefersKept' /\ pc' = pc
<1>1. UNCHANGED <<pc, buffer, priorDefers>> /\ Shipping' = Shipping
  BY DEF UserCalls, FunctionReturns, FunctionThrows, HandleMemoized, ReportFound, TimerFires,
     requestVars, shipVars, Shipping
<1>2. CASE UserCalls
  <2>1. PICK C \in SUBSET ReadyCalls :
          /\ lazy' = lazy \cup ((C \cap Defers) \ priorDefers)
          /\ seenDefers' = seenDefers \cup (C \cap Defers)
    BY <1>2 DEF UserCalls
  <2>2. queue' = queue
    BY <1>2 DEF UserCalls
  <2>3. QED BY <1>1, <2>1, <2>2 DEF DefersKept, ReturnQueued
<1>3. CASE FunctionReturns
  <2>1. CalledOn(found, Settled) /\ ReturnsOn(Settled)
    BY <1>3, CalledOnSettled DEF FunctionReturns, Reached, ReturnsOn, RequestInv
  <2>2. \A d \in Defers : Reached(CallAfter[d])
    BY <2>1 DEF DefersCalled, CalledOn, Reached, TypeOK
  <2>3. Defers \subseteq seenDefers
    BY <1>3, <2>2 DEF FunctionReturns, ReadyCalls
  <2>4. UNCHANGED <<seenDefers, lazy>>
    BY <1>3 DEF FunctionReturns, shipVars
  <2>5. QED BY <1>1, <2>3, <2>4 DEF DefersKept
<1>4. CASE FunctionThrows \/ HandleMemoized \/ ReportFound \/ TimerFires
  <2>1. UNCHANGED <<seenDefers, lazy>>
    BY <1>4 DEF FunctionThrows, HandleMemoized, ReportFound, TimerFires, shipVars, userVars
  <2>2. ReturnQueued' => ReturnQueued
    <3>1. ASSUME NEW c, SetCheckpoint(c), c.type # "function-resolved"
          PROVE  ReturnQueued' => ReturnQueued
      BY <3>1, SetsCheckpoint DEF ReturnQueued
    <3>2. CASE FunctionThrows
      <4>1. PICK f \in BOOLEAN : SetCheckpoint([CheckpointOf("function-rejected") EXCEPT !.final = f])
        BY <3>2 DEF FunctionThrows
      <4>2. [CheckpointOf("function-rejected") EXCEPT !.final = f].type = "function-rejected"
        BY CheckpointFields
      <4>3. QED BY <3>1, <4>1, <4>2
    <3>3. CASE HandleMemoized
      BY <3>3 DEF HandleMemoized, ReturnQueued
    <3>4. CASE ReportFound
      <4> DEFINE c == [CheckpointOf("steps-found") EXCEPT !.steps = toReport]
      <4>1. queue' = queue \/ SetCheckpoint(c)
        BY <3>4 DEF ReportFound, SetCheckpoint
      <4>2. c.type = "steps-found"
        BY CheckpointFields
      <4> HIDE DEF c
      <4>3. CASE queue' = queue
        BY <4>3 DEF ReturnQueued
      <4>4. QED BY <3>1, <4>1, <4>2, <4>3
    <3>5. CASE TimerFires
      <4>1. PICK t \in timers : SetCheckpoint(CheckpointOf(TimerCheckpoint[t]))
        BY <3>5 DEF TimerFires
      <4>2. TimerCheckpoint[t] # "function-resolved"
        BY TimerTypes DEF TypeOK
      <4>3. CheckpointOf(TimerCheckpoint[t]).type = TimerCheckpoint[t]
        BY CheckpointFields
      <4>4. QED BY <3>1, <4>1, <4>2, <4>3
    <3>6. QED BY <1>4, <3>2, <3>3, <3>4, <3>5
  <2>3. QED BY <1>1, <2>1, <2>2 DEF DefersKept
<1>5. QED BY <1>1, <1>2, <1>3, <1>4

LEMMA EngineDefers ==
  ASSUME RunTypeOK, PromiseInv, TimersInv, NoInterval, DefersCalled, DeferInv, ~stale,
         EngineMoves \/ StepSucceeds \/ StepThrows
  PROVE  DeferInv'
<1>1. /\ TypeOK /\ UNCHANGED <<received, outcome, stale, recorded>>
      /\ EngineStep \/ BodySucceeds \/ BodyThrows
  BY DEF RunTypeOK, EngineMoves, StepSucceeds, StepThrows, serverVars
<1>2. Running
  BY <1>1, EngineLocation
<1>3. CASE UserCalls \/ FunctionReturns \/ FunctionThrows \/ HandleMemoized \/ ReportFound \/ TimerFires
  <2>1. RequestInv /\ DefersKept
    BY <1>2 DEF PromiseInv, RequestInv, DeferInv
  <2>2. DefersKept' /\ pc' = pc
    BY <1>1, <1>3, <2>1, UserDefersKept
  <2>3. QED BY <1>1, <1>2, <2>2 DEF DeferInv, Running
<1>4. CASE ~(UserCalls \/ FunctionReturns \/ FunctionThrows \/ HandleMemoized \/ ReportFound \/ TimerFires)
  <2>1. DefersGo
    BY <1>1, <1>4, StepsFoundDefers, ResolvedDefers, RejectedDefers, OtherDefers, BodyDefers
    DEF EngineStep
  <2>2. pc.at # "checkpoint"
    BY <1>1, <1>4 DEF EngineStep, BodySucceeds, BodyThrows, AsyncStepsFound, CheckpointingStepsFound,
       AsyncFunctionResolved, CheckpointingFunctionResolved, ResolvedAs, AsyncFunctionRejected,
       CheckpointingFunctionRejected, StepNotFound, RuntimeReached, BufferIntervalReached,
       TakeCheckpoint, CheckpointingStepEnds, AsyncStepEnds, CheckpointingStepThrows
  <2>3. ~recorded
    BY <2>2 DEF PromiseInv, Server
  <2>4. QED BY <1>1, <1>2, <2>1, <2>2, <2>3, DefersGoOn
<1>5. QED BY <1>3, <1>4

LEMMA ContinueDefers ==
  ASSUME Continue
  PROVE  (pc'.at = "loop" /\ lazy' = lazy /\ pc.then # "reject") \/ AnswersIncomplete
<1>1. CASE pc.then = "loop"
  BY <1>1 DEF Continue, PcAt
<1>2. CASE pc.then \in {"plan", "planAll"}
  <2>1. \E steps : MaybeReturnNewSteps(steps)
    BY <1>2 DEF Continue
  <2>2. QED BY <1>2, <2>1, MaybeReturnsIncomplete
<1>3. CASE pc.then = "stepRan"
  <2>1. StepRan([step |-> pc.step, kind |-> pc.kind])
    BY <1>3 DEF Continue
  <2>2. QED BY <2>1, StepRanAnswers DEF AnswersIncomplete
<1>4. CASE pc.then \notin {"loop", "plan", "planAll", "stepRan"}
  <2>1. Reject(pc.final, {})
    BY <1>4 DEF Continue
  <2>2. QED BY <2>1, RejectsIncomplete
<1>5. QED BY <1>1, <1>2, <1>3, <1>4

LEMMA CheckpointEndDefers ==
  ASSUME RunTypeOK, PromiseInv, DeferInv, ~stale, CheckpointOk \/ CheckpointLost
  PROVE  DeferInv'
<1>1. /\ pc.at = "checkpoint" /\ recorded' = FALSE
      /\ UNCHANGED <<priorDefers, seenDefers, queue, received, outcome, stale>>
  BY DEF CheckpointOk, CheckpointLost, CheckpointSucceeds, CheckpointFails, serverVars, requestVars,
     userVars
<1>2. DefersKept /\ outcome = "running"
  BY <1>1 DEF DeferInv, Running, PromiseInv, Server
<1>3. CASE CheckpointOk
  <2>1. Continue /\ recorded
    BY <1>3 DEF CheckpointOk, CheckpointSucceeds
  <2>2. CASE pc'.at = "loop" /\ lazy' = lazy
    <3>1. DefersKept'
      BY <1>1, <1>2, <2>1, <2>2 DEF DefersKept, Shipping, ReturnQueued
    <3>2. QED BY <1>1, <1>2, <2>2, <3>1 DEF DeferInv
  <2>3. CASE AnswersIncomplete
    BY <1>1, <1>2, <2>3 DEF AnswersIncomplete, DeferInv, Running
  <2>4. QED BY <2>1, <2>2, <2>3, ContinueDefers
<1>4. CASE CheckpointLost
  <2>1. AnswersIncomplete
    <3>1. CASE buffer # <<>>
      <4> DEFINE batch == [EmptyBatch EXCEPT !.ran = buffer]
      <4>1. Return("steps-found", batch, FALSE) /\ batch.end # "complete"
        BY <1>4, <3>1, BatchFields DEF CheckpointLost, CheckpointFails
      <4>2. QED BY <4>1, ReturnsIncomplete
    <3>2. CASE buffer = <<>>
      <4>1. Continue /\ pc.then = "reject"
        BY <1>1, <1>2, <1>4, <3>2 DEF CheckpointLost, CheckpointFails, DefersKept
      <4>2. QED BY <4>1, ContinueDefers
    <3>3. QED BY <3>1, <3>2
  <2>2. QED BY <1>1, <1>2, <2>1 DEF AnswersIncomplete, DeferInv, Running
<1>5. QED BY <1>3, <1>4

LEMMA DeferStep ==
  ASSUME RunTypeOK, PromiseInv, TimersInv, NoInterval, DefersCalled, DeferInv, [Next]_vars
  PROVE  DeferInv'
<1>1. CASE EngineMoves \/ StepSucceeds \/ StepThrows
  <2>1. CASE ~stale
    BY <1>1, <2>1, EngineDefers
  <2>2. CASE stale
    BY <1>1, <2>2 DEF EngineMoves, StepSucceeds, StepThrows, serverVars, DeferInv
  <2>3. QED BY <2>1, <2>2
<1>2. CASE CheckpointOk \/ CheckpointLost \/ CheckpointRefused
  <2>1. CASE stale
    BY <1>2, <2>1 DEF CheckpointOk, CheckpointLost, CheckpointRefused, serverVars, DeferInv
  <2>2. CASE ~stale
    <3>1. ~CheckpointRefused
      BY <2>2 DEF CheckpointRefused
    <3>2. QED BY <1>2, <2>2, <3>1, CheckpointEndDefers
  <2>3. QED BY <2>1, <2>2
<1>3. CASE RecordCheckpoint
  <2>1. /\ pc.at = "checkpoint" /\ ~stale /\ received' = received \cup CheckpointBatch.defers
        /\ UNCHANGED <<priorDefers, seenDefers, lazy, queue, buffer, pc, response, outcome, stale>>
    BY <1>3 DEF RecordCheckpoint, RecordResults, engineVars, requestVars, userVars, shipVars
  <2>2. CheckpointBatch.defers = Shipping
    BY <2>1 DEF CheckpointBatch, EmptyBatch, Shipping
  <2>3. DefersKept
    BY <2>1 DEF DeferInv, Running
  <2>4. DefersKept'
    BY <2>1, <2>2, <2>3 DEF DefersKept, Shipping, ReturnQueued
  <2>5. QED BY <2>1, <2>4 DEF DeferInv
<1>4. CASE Dispatch
  <2>1. /\ priorDefers' = received /\ seenDefers' = {} /\ queue' = <<>> /\ recorded' = FALSE
        /\ pc' = PcAt("loop") /\ UNCHANGED <<received, outcome>>
    BY <1>4 DEF Dispatch, StartRequest, serverVars
  <2>2. pc'.at = "loop" /\ ~ReturnQueued'
    <3>1. DOMAIN queue' = {}
      BY <2>1
    <3>2. QED BY <2>1, <3>1 DEF PcAt, ReturnQueued
  <2>3. DefersKept'
    BY <2>1, <2>2 DEF DefersKept
  <2>4. QED BY <2>1, <2>2, <2>3 DEF DeferInv
<1>5. CASE ApplyResponse
  <2>1. pc.at = "done" /\ pc'.at = "off" /\ stale' = stale
    BY <1>5 DEF ApplyResponse, PcAt
  <2>2. CASE stale
    BY <1>5, <2>1, <2>2 DEF ApplyResponse, serverVars, DeferInv, Running
  <2>3. CASE ~stale
    <3>1. received' = received \cup response.batch.defers
      BY <1>5, <2>3 DEF ApplyResponse, RecordResults
    <3>2. outcome' = "completed" => response.batch.end = "complete"
      <4>1. outcome = "running"
        BY <2>1 DEF PromiseInv, Server
      <4>2. QED BY <1>5, <2>3, <4>1 DEF ApplyResponse, Retry
    <3>3. QED BY <2>1, <2>3, <3>1, <3>2 DEF DeferInv, Running
  <2>4. QED BY <2>2, <2>3
<1>6. CASE Crash
  <2>1. pc'.at = "off" /\ UNCHANGED <<received, outcome>>
    BY <1>6 DEF Crash, PcAt, serverVars
  <2>2. QED BY <2>1 DEF DeferInv, Running
<1>7. CASE GiveUp
  BY <1>7 DEF GiveUp, serverVars, DeferInv
<1>8. CASE Ended \/ UNCHANGED vars \/ \E w \in Waits : WaitEnds(w)
  <2>1. UNCHANGED <<priorDefers, seenDefers, lazy, queue, buffer, pc, response, received, outcome,
                    stale, recorded>>
    BY <1>8 DEF Ended, WaitEnds, vars, engineVars, requestVars, userVars, shipVars, serverVars
  <2>2. Shipping' = Shipping /\ ReturnQueued' = ReturnQueued
    BY <2>1 DEF Shipping, ReturnQueued
  <2>3. DefersKept' = DefersKept
    BY <2>1, <2>2 DEF DefersKept
  <2>4. QED BY <2>1, <2>3 DEF DeferInv, Running
<1>9. QED BY <1>1, <1>2, <1>3, <1>4, <1>5, <1>6, <1>7, <1>8 DEF Next

\* A complete run has every defer user code called, in whichever of its requests, whether
\* shipped by a checkpoint that may have failed, with the steps of an answer or with the end
\* of the run; of a function that returns after all its defers and has no checkpointing
\* interval (with one, a checkpoint of defers alone can be lost).
THEOREM DefersNotLost == NoInterval /\ DefersCalled => (Spec => []DefersReachServer)
<1> SUFFICES ASSUME NoInterval, DefersCalled PROVE Spec => []DefersReachServer
  OBVIOUS
<1> DEFINE Inv == TimersInv /\ DeferInv
<1>1. Init => Inv
  <2>1. ASSUME Init PROVE pc.at = "off" /\ outcome = "running"
    BY <2>1 DEF Init, PcAt
  <2>2. QED BY <2>1 DEF TimersInv, DeferInv, Running
<1>2. RunTypeOK /\ PromiseInv /\ Inv /\ [Next]_vars => Inv'
  BY TimersStep, DeferStep
<1>3. RunTypeOK /\ Inv => DefersReachServer
  BY DEF DeferInv, DefersReachServer, RunTypeOK, History
<1> HIDE DEF Inv
<1>4. QED BY <1>1, <1>2, <1>3, PromiseHolds, PTL DEF Spec

-----------------------------------------------------------------------------
(* What a crash can make the run repeat.                                   *)

\* The results of the request, given up or not, are recorded or in a bounded buffer.
WindowInv ==
  /\ recorded => \A k \in DOMAIN buffer : memo[buffer[k].step] # "none"
  /\ Running => Held /\ Len(buffer) <= Max({1, BufferedSteps})

LEMMA StepsOfSequence ==
  ASSUME NEW S, NEW b \in Seq(Result), \A s \in S : \E k \in DOMAIN b : b[k].step = s
  PROVE  IsFiniteSet(S) /\ Cardinality(S) <= Len(b)
<1> DEFINE D == {k \in DOMAIN b : b[k].step \in S}
           f == [k \in D |-> b[k].step]
<1>1. D \subseteq 1 .. Len(b) /\ Len(b) \in Nat
  OBVIOUS
<1>2. IsFiniteSet(1 .. Len(b)) /\ Cardinality(1 .. Len(b)) = Len(b)
  <2>1. /\ IsFiniteSet(1 .. Len(b))
        /\ Cardinality(1 .. Len(b)) = IF 1 > Len(b) THEN 0 ELSE Len(b) - 1 + 1
    BY <1>1, FS_Interval
  <2>2. QED BY <1>1, <2>1
<1>3. IsFiniteSet(D) /\ Cardinality(D) <= Len(b)
  BY <1>1, <1>2, FS_Subset
<1>4. f \in Surjection(D, S)
  BY DEF Surjection
<1>5. IsFiniteSet(S) /\ Cardinality(S) <= Cardinality(D)
  BY <1>3, <1>4, FS_Surjection
<1>6. Cardinality(S) \in Nat /\ Cardinality(D) \in Nat
  BY <1>3, <1>5, FS_CardinalityType
<1>7. QED BY <1>1, <1>3, <1>5, <1>6

LEMMA BodyWindow ==
  ASSUME RunTypeOK, RunTypeOK', StaleInv, WindowInv, StepSucceeds \/ StepThrows
  PROVE  WindowInv'
<1>1. /\ TypeOK /\ (BodySucceeds \/ BodyThrows) /\ UNCHANGED <<memo, recorded>>
      /\ buffer \in Seq(Result) /\ buffer' \in Seq(Result)
  BY DEF StepSucceeds, StepThrows, serverVars, RunTypeOK, TypeOK
<1>2. /\ pc.at = "exec" /\ pc'.at \in {"loop", "checkpoint", "done"} /\ pc.step \in Steps
  BY <1>1, BodyEnds, RunningStep
<1>3. Held /\ Len(buffer) < Max({1, BufferedSteps}) /\ ~recorded
  BY <1>2 DEF WindowInv, StaleInv, Running
<1>4. Len(buffer) \in Nat /\ Max({1, BufferedSteps}) \in Nat
  BY <1>1, Limit
<1>5. CASE pc'.at = "done"
  BY <1>1, <1>3, <1>5 DEF WindowInv, Running
<1>6. CASE StepThrows /\ pc'.at # "done"
  <2>1. history'.ranHere = history.ranHere
    BY <1>6 DEF StepThrows, RunTypeOK, History
  <2>2. buffer' = buffer
    BY <1>6 DEF StepThrows, BodyThrows, AsyncStepEnds, CheckpointingStepThrows
  <2>3. QED BY <1>1, <1>3, <1>4, <2>1, <2>2 DEF WindowInv, Held, InBuffer
<1>7. CASE StepSucceeds /\ pc'.at # "done"
  <2> DEFINE result == [step |-> pc.step, kind |-> "ok"]
  <2>1. ~AsyncStepEnds("ok") /\ ~StepRan(result)
    BY <1>7, AsyncBodyAnswers, StepRanAnswers
  <2>2. buffer' = Append(buffer, result)
    BY <1>7, <2>1 DEF StepSucceeds, BodySucceeds, CheckpointingStepEnds, ResumeUser
  <2>3. history'.ranHere \subseteq history.ranHere \cup {pc.step}
    BY <1>7, RanHereAfter DEF StepSucceeds
  <2>4. /\ \A k \in DOMAIN buffer : k \in DOMAIN buffer' /\ buffer'[k] = buffer[k]
        /\ Len(buffer) + 1 \in DOMAIN buffer' /\ buffer'[Len(buffer) + 1] = result
        /\ Len(buffer') = Len(buffer) + 1
    BY <1>1, <2>2
  <2>5. ASSUME NEW s \in history'.ranHere
        PROVE  memo'[s] # "none" \/ \E k \in DOMAIN buffer' : buffer'[k].step = s
    <3>1. CASE s = pc.step
      BY <2>4, <3>1
    <3>2. CASE s \in history.ranHere
      BY <1>1, <1>3, <2>4, <3>2 DEF Held, InBuffer
    <3>3. QED BY <2>3, <3>1, <3>2
  <2>6. Held'
    BY <2>5 DEF Held, InBuffer
  <2>7. QED BY <1>1, <1>3, <1>4, <2>4, <2>6 DEF WindowInv
<1>8. QED BY <1>5, <1>6, <1>7

LEMMA WindowStep ==
  ASSUME RunTypeOK, RunTypeOK', PromiseInv, StaleInv, WindowInv, [Next]_vars
  PROVE  WindowInv'
<1>1. CASE EngineMoves
  <2>1. UNCHANGED <<memo, recorded>> /\ EngineStep /\ buffer' = buffer
    BY <1>1, EngineBuffer DEF EngineMoves, serverVars
  <2>2. Running
    BY <2>1, EngineLocation DEF RunTypeOK
  <2>3. history'.ranHere = history.ranHere
    BY <1>1, RanHereObserved DEF RunTypeOK, EngineMoves
  <2>4. QED BY <2>1, <2>2, <2>3 DEF WindowInv, Held, InBuffer
<1>2. CASE StepSucceeds \/ StepThrows
  BY <1>2, BodyWindow
<1>3. CASE CheckpointOk \/ CheckpointLost
  <2>1. pc.at = "checkpoint" /\ buffer' = <<>> /\ ~recorded' /\ UNCHANGED <<memo, history>>
    BY <1>3 DEF CheckpointOk, CheckpointLost, CheckpointSucceeds, CheckpointFails, serverVars
  <2>2. Held
    BY <2>1 DEF WindowInv, Running
  <2>3. CASE CheckpointOk \/ buffer = <<>>
    <3>1. \A k \in DOMAIN buffer : memo[buffer[k].step] # "none"
      <4>1. buffer = <<>> => DOMAIN buffer = {}
        OBVIOUS
      <4>2. QED BY <2>3, <4>1 DEF CheckpointOk, WindowInv
    <3>2. Held'
      BY <2>1, <2>2, <3>1 DEF Held, InBuffer
    <3>3. Len(buffer') = 0
      BY <2>1
    <3>4. QED BY <2>1, <3>2, <3>3, Limit DEF WindowInv
  <2>4. CASE CheckpointLost /\ buffer # <<>>
    <3>1. pc'.at = "done"
      BY <2>4 DEF CheckpointLost, CheckpointFails, Return, PcAt
    <3>2. QED BY <2>1, <3>1 DEF WindowInv, Running
  <2>5. QED BY <1>3, <2>3, <2>4
<1>4. CASE Dispatch
  <2>1. history'.ranHere = {} /\ buffer' = <<>> /\ ~recorded'
    BY <1>4 DEF Dispatch, StartRequest, RunTypeOK, History
  <2>2. Len(buffer') = 0
    BY <2>1
  <2>3. QED BY <2>1, <2>2, Limit DEF WindowInv, Held
<1>5. CASE ApplyResponse \/ Crash \/ CheckpointRefused
  <2>1. pc'.at \in {"off", "done"}
    BY <1>5 DEF ApplyResponse, Crash, CheckpointRefused, CheckpointIsStale, Return, PcAt
  <2>2. ~recorded'
    BY <1>5 DEF ApplyResponse, Crash, CheckpointRefused, StaleInv
  <2>3. QED BY <2>1, <2>2 DEF WindowInv, Running
<1>6. CASE RecordCheckpoint \/ \E w \in Waits : WaitEnds(w)
  <2>1. \A s \in Steps : memo[s] # "none" => memo'[s] = memo[s]
    BY <1>6, MemoKept
  <2>2. UNCHANGED <<pc, buffer, history>>
    BY <1>6 DEF RecordCheckpoint, WaitEnds, engineVars, shipVars
  <2>3. history.ranHere \subseteq Steps /\ \A k \in DOMAIN buffer : buffer[k].step \in Steps
    BY ResultFields DEF RunTypeOK, TypeOK, History
  <2>4. (Running => Held /\ Len(buffer) <= Max({1, BufferedSteps}))'
    BY <2>1, <2>2, <2>3 DEF WindowInv, Held, InBuffer, Running
  <2>5. CASE RecordCheckpoint
    <3>1. pc.at = "checkpoint" /\ ~stale /\ ~recorded /\ RecordResults(CheckpointBatch)
      BY <2>5 DEF RecordCheckpoint
    <3>2. InOrder(memo, buffer) /\ AllOk(buffer) /\ AllNew(buffer)
      BY <3>1 DEF PromiseInv, Running, Buffered
    <3>3. CheckpointBatch \in Batch
      BY EmptyBatchType DEF CheckpointBatch, Batch, RunTypeOK, TypeOK, Pc
    <3>4. CheckpointBatch.ran = buffer
      BY BatchFields DEF CheckpointBatch
    <3>5. \A k \in DOMAIN buffer : memo'[buffer[k].step] = "ok"
      BY <3>1, <3>2, <3>3, <3>4, Recording DEF PromiseInv
    <3>6. QED BY <2>2, <2>4, <3>5 DEF WindowInv
  <2>6. CASE \E w \in Waits : WaitEnds(w)
    <3>1. recorded' = recorded
      BY <2>6 DEF WaitEnds
    <3>2. QED BY <2>1, <2>2, <2>3, <2>4, <3>1 DEF WindowInv
  <2>7. QED BY <1>6, <2>5, <2>6
<1>7. CASE GiveUp \/ Ended \/ UNCHANGED vars
  <2>1. UNCHANGED <<pc, buffer, recorded, history, memo>>
    BY <1>7 DEF GiveUp, Ended, vars, engineVars, shipVars, serverVars
  <2>2. QED BY <2>1 DEF WindowInv, Held, InBuffer, Running
<1>8. QED BY <1>1, <1>2, <1>3, <1>4, <1>5, <1>6, <1>7 DEF Next

\* Whatever happens to a request, no more results than the buffer holds, or one, are known to
\* it and not to the server: a crash makes the run repeat no more bodies than that.
THEOREM CrashRepeatsFew == Spec => []LossWindow
<1>1. Init => WindowInv
  <2>1. ASSUME Init PROVE pc.at = "off" /\ ~recorded
    BY <2>1 DEF Init, PcAt
  <2>2. QED BY <2>1 DEF WindowInv, Running
<1>2. RunTypeOK /\ PromiseInv /\ (RunTypeOK /\ PromiseInv)' /\ StaleInv /\ WindowInv /\ [Next]_vars
        => WindowInv'
  BY WindowStep
<1>3. RunTypeOK /\ WindowInv => LossWindow
  <2> SUFFICES ASSUME RunTypeOK, WindowInv, Running
               PROVE  Cardinality({s \in history.ranHere : memo[s] = "none"}) <= Max({1, BufferedSteps})
    BY DEF LossWindow
  <2> DEFINE lost == {s \in history.ranHere : memo[s] = "none"}
  <2>1. buffer \in Seq(Result) /\ Len(buffer) <= Max({1, BufferedSteps})
    BY DEF RunTypeOK, TypeOK, WindowInv
  <2>2. \A s \in lost : \E k \in DOMAIN buffer : buffer[k].step = s
    BY DEF WindowInv, Held, InBuffer
  <2>3. IsFiniteSet(lost) /\ Cardinality(lost) <= Len(buffer)
    BY <2>1, <2>2, StepsOfSequence
  <2>4. Cardinality(lost) \in Nat /\ Len(buffer) \in Nat
    BY <2>1, <2>3, FS_CardinalityType
  <2>5. QED BY <2>1, <2>3, <2>4, Limit
<1>4. QED BY <1>1, <1>2, <1>3, PromiseHolds, StaleHolds, PTL DEF Spec

-----------------------------------------------------------------------------
(* What a completed run has recorded.                                      *)

\* A run completes only with every result its function returned on, whatever was buffered
\* when it returned, and nothing is recorded afterwards.
THEOREM CompletesWithResults == Spec => []CompleteHasResults
<1>1. Init => CompleteHasResults
  BY DEF Init, CompleteHasResults
<1>2. ASSUME RunTypeOK, RunTypeOK', PromiseInv, CompleteHasResults, [Next]_vars
      PROVE  CompleteHasResults'
  <2>1. CASE UNCHANGED <<memo, outcome>>
    BY <1>2, <2>1 DEF CompleteHasResults
  <2>2. CASE ApplyResponse /\ outcome' = "completed"
    <3>1. pc.at = "done" /\ outcome = "running"
      BY <1>2, <2>2 DEF ApplyResponse, PromiseInv, Server
    <3>2. ~stale /\ response.batch.end = "complete"
      BY <2>2, <3>1 DEF ApplyResponse, Retry, serverVars
    <3>3. Promise!Enough(memo', ReturnAfter)
      BY <1>2, <2>2, <3>2, CompleteEnough
    <3>4. PICK A \in ReturnAfter : A \subseteq Promise!Passed(memo')
      BY <3>3 DEF Promise!Enough
    <3>5. \A s \in A : memo'[s] # "none"
      BY <3>4 DEF Promise!Passed
    <3>6. QED BY <3>5 DEF CompleteHasResults
  <2>3. CASE outcome' # "completed"
    BY <2>3 DEF CompleteHasResults
  <2>4. CASE RecordCheckpoint \/ \E w \in Waits : WaitEnds(w)
    <3>1. outcome' = "running"
      BY <1>2, <2>4 DEF RecordCheckpoint, WaitEnds, PromiseInv, Server
    <3>2. QED BY <3>1 DEF CompleteHasResults
  <2>5. CASE ~(RecordCheckpoint \/ ApplyResponse \/ \E w \in Waits : WaitEnds(w))
    <3>1. UNCHANGED <<memo, outcome>>
      BY <1>2, <2>5 DEF Next, Dispatch, EngineMoves, StepSucceeds, StepThrows, CheckpointOk,
         CheckpointRefused, CheckpointLost, Crash, GiveUp, Ended, vars, serverVars
    <3>2. QED BY <2>1, <3>1
  <2>6. QED BY <2>2, <2>3, <2>4, <2>5
<1>3. QED BY <1>1, <1>2, PromiseHolds, PTL DEF Spec

-----------------------------------------------------------------------------
(***************************************************************************)
(* Retries.  A discovery request is sent again when the one body it ran    *)
(* threw.  The step that it runs next is the same one, and no other step   *)
(* inherits its attempts, when what user code waits for is decided by the  *)
(* recorded results alone: because user code reports all the steps it can  *)
(* reach at once, or because it never has two of them under way.           *)
(***************************************************************************)
\* User code never has two steps under way.
OneAtATime ==
  \A F \in SUBSET Steps, S \in SUBSET Steps : CalledOn(F, S) => \A s, t \in F \ S : s = t

ReportsTogether == (PromptUser /\ IsFiniteSet(Steps)) \/ OneAtATime

\* The steps user code calls, given results m: the least set closed under what they let it call.
Closed(m, F) == \A s \in Steps : (\E A \in CallAfter[s] : \A x \in A : x \in F /\ Passes(m, x)) => s \in F
Least(m, F) == Closed(m, F) /\ \A G \in SUBSET Steps : Closed(m, G) => F \subseteq G

\* With results m user code waits for s alone.
Stuck(m, s) == \E F \in SUBSET Steps : Least(m, F) /\ {x \in F : m[x] = "none"} = {s}

LEMMA StuckOnce ==
  ASSUME NEW m, NEW s, NEW t, Stuck(m, s), Stuck(m, t)
  PROVE  s = t
<1>1. PICK F \in SUBSET Steps : Least(m, F) /\ {x \in F : m[x] = "none"} = {s}
  BY DEF Stuck
<1>2. PICK G \in SUBSET Steps : Least(m, G) /\ {x \in G : m[x] = "none"} = {t}
  BY DEF Stuck
<1>3. F \subseteq G /\ G \subseteq F
  BY <1>1, <1>2 DEF Least
<1>4. QED BY <1>1, <1>2, <1>3

Waiting == {s \in found : stepState[s] = "none"}
Reports == {i \in DOMAIN queue : queue[i].type = "steps-found"}
Quiet == toReport = {} /\ ReadyCalls = {}

\* User code has called no step that its results do not let it call.
LeastInv == \A G \in SUBSET Steps : Closed(stepState, G) => found \subseteq G

\* Whose body a request runs.
EarlyInv ==
  pc.at = "exec" => IF req.step = NoStep THEN ~req.die /\ stepState[pc.step] = "none"
                    ELSE pc.step = req.step

\* The core loop is dealing with a report, or with the rest of its queue.
Acting == pc.at = "exec" \/ (pc.at = "checkpoint" /\ pc.then \in {"plan", "planAll", "stepRan"})
Looping == pc.at = "loop" \/ (pc.at = "checkpoint" /\ pc.then \notin {"plan", "planAll", "stepRan"})

Prompts == PromptUser /\ IsFiniteSet(Steps)

\* Prompt user code has nothing to do until what it has reported is dealt with, and the core
\* loop goes on only from a report whose steps all have results.
PromptInv ==
  /\ \A s \in Steps : stepState[s] # "none" => s \in ToSet(order) \cup ToSet(resolved)
  /\ (found \ toReport) \cap ToSet(order) \subseteq ToSet(resolved)
  /\ Reports # {} \/ Acting => Quiet
  /\ \A i, j \in Reports : i = j
  /\ pc.at = "exec" => Reports = {}
  /\ req.step = NoStep =>
       /\ \A i \in Reports : Waiting \subseteq queue[i].steps
       /\ pc.at = "exec" => Waiting = {pc.step}
       /\ Looping => Waiting \subseteq toReport \/ Reports # {}
  /\ pc.at = "checkpoint" /\ pc.then \in {"plan", "planAll"} =>
       req.step = NoStep /\ NewSteps(IF pc.then = "plan" THEN pc.steps ELSE found) # {}

UserInv == LeastInv /\ EarlyInv /\ (Prompts => PromptInv)

FoundInv == Running /\ ~stale => UserInv

\* While a body runs that was found in a discovery request, user code waits for it alone.
ExecInv == pc.at = "exec" /\ req.step = NoStep /\ ~stale => Stuck(stepState, pc.step)

LEMMA ExecStuck ==
  ASSUME ReportsTogether, TypeOK, PromiseInv, FoundInv
  PROVE  ExecInv
<1> SUFFICES ASSUME pc.at = "exec", req.step = NoStep, ~stale PROVE Stuck(stepState, pc.step)
  BY DEF ExecInv
<1>1. Known /\ Entitled /\ LeastInv /\ EarlyInv /\ (Prompts => PromptInv)
  BY DEF PromiseInv, FoundInv, UserInv, Running
<1>2. stepState[pc.step] = "none" /\ pc.step \in found /\ found \in SUBSET Steps
  BY <1>1 DEF EarlyInv, Entitled, TypeOK
<1>3. CASE Prompts
  <2>1. PromptInv /\ Quiet /\ Waiting = {pc.step}
    BY <1>1, <1>3 DEF PromptInv, Acting
  <2>2. Closed(stepState, found)
    <3> SUFFICES ASSUME NEW s \in Steps, NEW A \in CallAfter[s],
                        \A x \in A : x \in found /\ Passes(stepState, x)
                 PROVE  s \in found
      BY DEF Closed
    <3>1. A \subseteq Settled
      <4> SUFFICES ASSUME NEW x \in A PROVE x \in Settled
        OBVIOUS
      <4>1. x \in found /\ x \in Steps /\ Passes(stepState, x) /\ stepState[x] # "none"
        BY <1>2 DEF Passes
      <4>2. x \in ToSet(resolved)
        BY <2>1, <4>1 DEF PromptInv, Quiet, Acting
      <4>3. QED BY <4>1, <4>2 DEF Settled, Passes
    <3>2. s \notin ReadyCalls
      BY <2>1 DEF Quiet
    <3>3. QED BY <3>1, <3>2 DEF ReadyCalls, Reached
  <2>3. Least(stepState, found)
    BY <1>1, <2>2 DEF Least, LeastInv
  <2>4. QED BY <1>2, <2>1, <2>3 DEF Stuck, Waiting
<1>4. CASE OneAtATime
  <2>1. CalledOn(found, Settled)
    BY <1>1, CalledOnSettled
  <2>2. Settled \in SUBSET Steps /\ pc.step \notin Settled
    BY <1>1, <1>2, <2>1 DEF CalledOn, Settled, ToSet, Known
  <2>3. \A s \in found \ Settled : s = pc.step
    BY <1>2, <1>4, <2>1, <2>2 DEF OneAtATime
  <2>4. Closed(stepState, found)
    <3> SUFFICES ASSUME NEW s \in Steps, NEW A \in CallAfter[s],
                        \A x \in A : x \in found /\ Passes(stepState, x), s \notin found
                 PROVE  FALSE
      BY DEF Closed
    <3>1. A \subseteq Settled
      BY <1>2, <2>3 DEF Passes
    <3>2. CalledOn(found \cup {s}, Settled)
      BY <2>1, <3>1 DEF CalledOn
    <3>3. s \notin Settled /\ Settled \subseteq found
      BY <2>1 DEF CalledOn
    <3>4. /\ found \cup {s} \in SUBSET Steps /\ Settled \in SUBSET Steps
          /\ s \in (found \cup {s}) \ Settled /\ pc.step \in (found \cup {s}) \ Settled
      BY <1>2, <2>2, <3>3
    <3>5. s = pc.step
      BY <1>4, <3>2, <3>4 DEF OneAtATime
    <3>6. QED BY <1>2, <3>5
  <2>5. {x \in found : stepState[x] = "none"} = {pc.step}
    <3>1. \A x \in Settled : stepState[x] # "none"
      BY <1>1 DEF Settled, ToSet, Known
    <3>2. QED BY <1>2, <2>3, <3>1
  <2>6. Least(stepState, found)
    BY <1>1, <2>4 DEF Least, LeastInv
  <2>7. QED BY <1>2, <2>5, <2>6 DEF Stuck
<1>5. QED BY <1>3, <1>4 DEF ReportsTogether, Prompts

-----------------------------------------------------------------------------
(* What user code has found.                                               *)

UserSame == UNCHANGED <<req, order, stepState, found, resolved, toReport, seenDefers>>

LEMMA SameUser ==
  ASSUME UserSame
  PROVE  /\ LeastInv' <=> LeastInv
         /\ Waiting' = Waiting /\ ReadyCalls' = ReadyCalls /\ (Quiet' <=> Quiet)
         /\ \A S : NewSteps(S)' = NewSteps(S)
<1>1. LeastInv' <=> LeastInv
  BY DEF UserSame, LeastInv, Closed, Passes
<1>2. ReadyCalls' = ReadyCalls
  BY DEF UserSame, ReadyCalls, Reached, Settled
<1>3. Waiting' = Waiting /\ \A S : NewSteps(S)' = NewSteps(S)
  BY DEF UserSame, Waiting, NewSteps
<1>4. QED BY <1>1, <1>2, <1>3 DEF Quiet, UserSame

\* The reports in the queue stay in it.
ReportsKept ==
  /\ \A i \in Reports' : \E j \in Reports : queue'[i] = queue[j]
  /\ (\A i, j \in Reports : i = j) => \A i, j \in Reports' : i = j
  /\ Reports # {} => Reports' # {}

LEMMA ReportsStay ==
  ASSUME TypeOK
  PROVE  /\ queue' = queue => ReportsKept
         /\ \A c : SetCheckpoint(c) /\ c.type # "steps-found" => ReportsKept
         /\ \A type : TakeCheckpoint(type) /\ type # "steps-found" => ReportsKept
         /\ TakeCheckpoint("steps-found") =>
              /\ Reports # {} /\ \E i \in Reports : Head(queue) = queue[i]
              /\ (\A i, j \in Reports : i = j) => Reports' = {}
<1>1. queue \in Seq(Checkpoint)
  BY DEF TypeOK
<1>2. queue' = queue => ReportsKept
  BY DEF ReportsKept, Reports
<1>3. ASSUME NEW c, SetCheckpoint(c), c.type # "steps-found"
      PROVE  ReportsKept
  <2>1. queue' = Append(queue, c)
    BY <1>3 DEF SetCheckpoint
  <2>2. /\ DOMAIN queue' = DOMAIN queue \cup {Len(queue) + 1}
        /\ queue'[Len(queue) + 1] = c /\ \A i \in DOMAIN queue : queue'[i] = queue[i]
    BY <1>1, <2>1
  <2>3. Reports' = Reports /\ \A i \in Reports : queue'[i] = queue[i]
    BY <1>3, <2>2 DEF Reports
  <2>4. QED BY <2>3 DEF ReportsKept
<1>4. ASSUME NEW type, TakeCheckpoint(type)
      PROVE  /\ Len(queue) \in Nat /\ DOMAIN queue = 1 .. Len(queue) /\ 1 \in DOMAIN queue
             /\ queue[1] = Head(queue) /\ Head(queue).type = type
             /\ DOMAIN queue' = 1 .. Len(queue) - 1
             /\ \A i \in DOMAIN queue' : i + 1 \in DOMAIN queue /\ queue'[i] = queue[i + 1]
  <2>1. queue # <<>> /\ queue' = Tail(queue) /\ Head(queue).type = type
    BY <1>4 DEF TakeCheckpoint
  <2>2. QED BY <1>1, <2>1
<1>5. ASSUME NEW type, TakeCheckpoint(type), type # "steps-found"
      PROVE  ReportsKept
  <2>1. \A i \in Reports' : i + 1 \in Reports /\ queue'[i] = queue[i + 1] /\ i \in Nat
    BY <1>4, <1>5 DEF Reports
  <2>2. \A i \in Reports : i - 1 \in Reports'
    <3> SUFFICES ASSUME NEW i \in Reports PROVE i - 1 \in Reports'
      OBVIOUS
    <3>1. i # 1 /\ i \in 1 .. Len(queue) /\ queue[i].type = "steps-found"
      BY <1>4, <1>5 DEF Reports
    <3>2. i - 1 \in DOMAIN queue' /\ queue'[i - 1] = queue[i]
      BY <1>4, <1>5, <3>1
    <3>3. QED BY <3>1, <3>2 DEF Reports
  <2>3. (\A i, j \in Reports : i = j) => \A i, j \in Reports' : i = j
    <3> SUFFICES ASSUME \A i, j \in Reports : i = j, NEW i \in Reports', NEW j \in Reports' PROVE i = j
      OBVIOUS
    <3>1. i + 1 = j + 1 /\ i \in Nat /\ j \in Nat
      BY <2>1
    <3>2. QED BY <3>1
  <2>4. QED BY <2>1, <2>2, <2>3 DEF ReportsKept
<1>6. ASSUME TakeCheckpoint("steps-found")
      PROVE  /\ Reports # {} /\ \E i \in Reports : Head(queue) = queue[i]
             /\ (\A i, j \in Reports : i = j) => Reports' = {}
  <2>1. 1 \in Reports /\ Head(queue) = queue[1]
    BY <1>4, <1>6 DEF Reports
  <2>2. \A i \in Reports' : i + 1 \in Reports /\ i + 1 # 1
    BY <1>4, <1>6 DEF Reports
  <2>3. QED BY <2>1, <2>2
<1>7. QED BY <1>2, <1>3, <1>5, <1>6

\* The core loop goes on, or to a checkpoint that only answers.
PromptGoes ==
  \/ pc' = pc
  \/ Looping /\ Looping'
  \/ Acting /\ pc'.at = "checkpoint" /\ pc'.then = "stepRan"
  \/ pc'.at = "done"

LEMMA PromptCore ==
  ASSUME PromptInv, UserSame, ReportsKept, PromptGoes, pc'.at # "done"
  PROVE  PromptInv'
<1>1. /\ Waiting' = Waiting /\ ReadyCalls' = ReadyCalls /\ (Quiet' <=> Quiet)
      /\ \A S : NewSteps(S)' = NewSteps(S)
  BY SameUser
<1>2. /\ \A s \in Steps : stepState'[s] # "none" => s \in ToSet(order)' \cup ToSet(resolved)'
      /\ (found' \ toReport') \cap ToSet(order)' \subseteq ToSet(resolved)'
  BY DEF PromptInv, UserSame
<1>3. Reports' # {} => Reports # {}
  BY DEF ReportsKept
<1>4. /\ pc'.at = "exec" => pc' = pc
      /\ Acting' => Acting
      /\ Looping' => Looping
      /\ pc'.at = "checkpoint" /\ pc'.then \in {"plan", "planAll"} => pc' = pc
  BY DEF PromptGoes, Acting, Looping
<1>5. Reports' # {} \/ Acting' => Quiet'
  BY <1>1, <1>3, <1>4 DEF PromptInv
<1>6. \A i, j \in Reports' : i = j
  BY DEF PromptInv, ReportsKept
<1>7. pc'.at = "exec" => Reports' = {}
  BY <1>3, <1>4 DEF PromptInv
<1>8. ASSUME req'.step = NoStep
      PROVE  /\ \A i \in Reports' : Waiting' \subseteq queue'[i].steps
             /\ pc'.at = "exec" => Waiting' = {pc'.step}
             /\ Looping' => Waiting' \subseteq toReport' \/ Reports' # {}
  <2>1. req.step = NoStep
    BY <1>8 DEF UserSame
  <2>2. \A i \in Reports' : Waiting' \subseteq queue'[i].steps
    BY <1>1, <2>1 DEF PromptInv, ReportsKept
  <2>3. pc'.at = "exec" => Waiting' = {pc'.step}
    BY <1>1, <1>4, <2>1 DEF PromptInv
  <2>4. QED BY <1>1, <1>4, <2>1, <2>2, <2>3 DEF PromptInv, ReportsKept, UserSame
<1>9. ASSUME pc'.at = "checkpoint", pc'.then \in {"plan", "planAll"}
      PROVE  req'.step = NoStep /\ NewSteps(IF pc.then = "plan" THEN pc.steps ELSE found)' # {}
  <2>1. pc' = pc
    BY <1>4, <1>9
  <2>2. req.step = NoStep /\ NewSteps(IF pc.then = "plan" THEN pc.steps ELSE found) # {}
    BY <1>9, <2>1 DEF PromptInv
  <2>3. QED BY <1>1, <2>1, <2>2 DEF UserSame, NewSteps
<1>10. QED BY <1>2, <1>5, <1>6, <1>7, <1>8, <1>9 DEF PromptInv

\* So does what is said of user code that is not prompt.
LEMMA UserGoes ==
  ASSUME UserInv, UserSame, ReportsKept, PromptGoes, pc'.at # "done"
  PROVE  UserInv'
<1>1. LeastInv'
  BY SameUser DEF UserInv
<1>2. pc'.at = "exec" => pc' = pc
  BY DEF PromptGoes, Looping
<1>3. EarlyInv'
  BY <1>2 DEF UserInv, EarlyInv, UserSame
<1>4. QED BY <1>1, <1>3, PromptCore DEF UserInv

-----------------------------------------------------------------------------
(* What user code does.                                                    *)

LEMMA UserCallsFound ==
  ASSUME TypeOK, RequestInv, UserInv, UserCalls
  PROVE  UserInv'
<1>1. PICK C \in SUBSET ReadyCalls :
        /\ PromptUser => C = ReadyCalls
        /\ found' = found \cup (C \cap Steps) /\ toReport' = toReport \cup (C \cap Steps)
  BY DEF UserCalls
<1>2. ReadyCalls # {} /\ UNCHANGED <<req, order, stepState, resolved, queue, pc>>
  BY DEF UserCalls, requestVars
<1>3. LeastInv'
  <2> SUFFICES ASSUME NEW G \in SUBSET Steps, Closed(stepState, G), NEW s \in C \cap Steps
               PROVE  s \in G
    BY <1>1, <1>2 DEF UserInv, LeastInv, Closed
  <2>1. PICK A \in CallAfter[s] : A \subseteq Settled
    BY DEF ReadyCalls, Reached
  <2>2. \A x \in A : x \in G /\ Passes(stepState, x)
    <3> TAKE x \in A
    <3>1. x \in ToSet(resolved) /\ x \in found /\ (stepState[x] = "ok" \/ x \in Caught)
      BY <2>1 DEF Settled, RequestInv, Entitled
    <3>2. x \in Steps /\ stepState[x] \in {"ok", "err"}
      BY <3>1 DEF TypeOK, RequestInv, Known, ToSet, StepValue
    <3>3. x \in G
      BY <3>1 DEF UserInv, LeastInv
    <3>4. QED BY <3>1, <3>2, <3>3 DEF Passes
  <2>3. QED BY <2>1, <2>2 DEF Closed
<1>4. EarlyInv'
  BY <1>2 DEF UserInv, EarlyInv
<1>5. ASSUME Prompts
      PROVE  PromptInv'
  <2>1. PromptInv /\ Reports = {} /\ ~Acting
    BY <1>2, <1>5 DEF UserInv, PromptInv, Quiet
  <2>2. Reports' = {} /\ ~Acting' /\ pc'.at # "exec"
    BY <1>2, <2>1 DEF Reports, Acting
  <2>3. /\ \A s \in Steps : stepState'[s] # "none" => s \in ToSet(order)' \cup ToSet(resolved)'
        /\ (found' \ toReport') \cap ToSet(order)' \subseteq ToSet(resolved)'
    BY <1>1, <1>2, <2>1 DEF PromptInv
  <2>4. req'.step = NoStep /\ Looping' => Waiting' \subseteq toReport'
    <3>1. Waiting' \subseteq Waiting \cup (C \cap Steps)
      BY <1>1, <1>2 DEF Waiting
    <3>2. req'.step = NoStep /\ Looping' => Waiting \subseteq toReport
      BY <1>2, <2>1 DEF PromptInv, Looping
    <3>3. QED BY <1>1, <3>1, <3>2
  <2>5. ~(pc'.at = "checkpoint" /\ pc'.then \in {"plan", "planAll"})
    BY <2>2 DEF Acting
  <2>6. QED BY <2>2, <2>3, <2>4, <2>5 DEF PromptInv
<1>6. QED BY <1>3, <1>4, <1>5 DEF UserInv

LEMMA HandleMemoizedFound ==
  ASSUME TypeOK, UserInv, HandleMemoized
  PROVE  UserInv'
<1>1. UNCHANGED <<req, order, stepState, found, toReport, queue, pc>>
  BY DEF HandleMemoized, requestVars
<1>2. PICK i \in Handleable : resolved' = Append(resolved, order[i])
  BY DEF HandleMemoized
<1>3. ToSet(resolved) \subseteq ToSet(resolved') /\ toReport # {}
  <2>1. order[i] \in Steps /\ toReport # {}
    BY <1>2 DEF Handleable, TypeOK
  <2>2. \A k \in DOMAIN resolved : k \in DOMAIN resolved' /\ resolved'[k] = resolved[k]
    BY <1>2, <2>1 DEF TypeOK
  <2>3. QED BY <2>1, <2>2 DEF ToSet
<1>4. LeastInv' /\ EarlyInv'
  BY <1>1 DEF UserInv, LeastInv, Closed, Passes, EarlyInv
<1>5. ASSUME Prompts
      PROVE  PromptInv'
  <2>1. PromptInv /\ Reports = {} /\ ~Acting
    BY <1>3, <1>5 DEF UserInv, PromptInv, Quiet
  <2>2. Reports' = {} /\ ~Acting' /\ pc'.at # "exec"
    BY <1>1, <2>1 DEF Reports, Acting
  <2>3. /\ \A s \in Steps : stepState'[s] # "none" => s \in ToSet(order)' \cup ToSet(resolved)'
        /\ (found' \ toReport') \cap ToSet(order)' \subseteq ToSet(resolved)'
    BY <1>1, <1>3, <2>1 DEF PromptInv
  <2>4. req'.step = NoStep /\ Looping' => Waiting' \subseteq toReport'
    BY <1>1, <2>1 DEF PromptInv, Looping, Waiting
  <2>5. ~(pc'.at = "checkpoint" /\ pc'.then \in {"plan", "planAll"})
    BY <2>2 DEF Acting
  <2>6. QED BY <2>2, <2>3, <2>4, <2>5 DEF PromptInv
<1>6. QED BY <1>4, <1>5 DEF UserInv

LEMMA ReportFoundFound ==
  ASSUME TypeOK, UserInv, ReportFound, Running
  PROVE  UserInv'
<1>1. /\ UNCHANGED <<req, order, stepState, found, resolved, seenDefers, pc>>
      /\ PromptUser => ReadyCalls = {}
      /\ Handleable = {} /\ toReport' = {}
  BY DEF ReportFound, requestVars, UserIsDone
<1>2. CASE toReport = {}
  <2>1. UserSame /\ queue' = queue
    BY <1>1, <1>2 DEF ReportFound, UserSame
  <2>2. ReportsKept /\ PromptGoes /\ pc'.at # "done"
    BY <1>1, <2>1, ReportsStay DEF PromptGoes, Running
  <2>3. QED BY <2>1, <2>2, UserGoes
<1>3. CASE toReport # {}
  <2> DEFINE c == [CheckpointOf("steps-found") EXCEPT !.steps = toReport]
  <2>1. queue' = Append(queue, c)
    BY <1>3 DEF ReportFound
  <2>2. c.type = "steps-found" /\ c.steps = toReport
    BY CheckpointFields
  <2> HIDE DEF c
  <2>3. LeastInv' /\ EarlyInv'
    BY <1>1 DEF UserInv, LeastInv, Closed, Passes, EarlyInv
  <2>4. ASSUME Prompts
        PROVE  PromptInv'
    <3>1. PromptInv /\ Reports = {} /\ ~Acting
      BY <1>3, <2>4 DEF UserInv, PromptInv, Quiet
    <3>2. Looping' /\ ~Acting' /\ Looping
      BY <1>1, <3>1 DEF Looping, Acting, Running
    <3>3. Reports' = {Len(queue) + 1} /\ queue'[Len(queue) + 1] = c
      <4>1. queue \in Seq(Checkpoint)
        BY DEF TypeOK
      <4>2. /\ DOMAIN queue' = DOMAIN queue \cup {Len(queue) + 1}
            /\ queue'[Len(queue) + 1] = c /\ \A i \in DOMAIN queue : queue'[i] = queue[i]
        BY <2>1, <4>1
      <4>3. QED BY <2>2, <3>1, <4>2 DEF Reports
    <3>4. ReadyCalls' = ReadyCalls
      BY <1>1 DEF ReadyCalls, Reached, Settled
    <3>5. Quiet'
      BY <1>1, <2>4, <3>4 DEF Quiet, Prompts
    <3>6. \A s \in Steps : stepState'[s] # "none" => s \in ToSet(order)' \cup ToSet(resolved)'
      BY <1>1, <3>1 DEF PromptInv
    <3>7. (found' \ toReport') \cap ToSet(order)' \subseteq ToSet(resolved)'
      <4>1. toReport \cap ToSet(order) \subseteq ToSet(resolved)
        BY <1>1 DEF Handleable, ToSet
      <4>2. QED BY <1>1, <3>1, <4>1 DEF PromptInv
    <3>8. req'.step = NoStep => \A i \in Reports' : Waiting' \subseteq queue'[i].steps
      <4>1. Waiting' = Waiting /\ req' = req
        BY <1>1 DEF Waiting
      <4>2. req.step = NoStep => Waiting \subseteq toReport
        BY <3>1, <3>2 DEF PromptInv
      <4>3. QED BY <2>2, <3>3, <4>1, <4>2
    <3>9. pc'.at # "exec" /\ ~(pc'.at = "checkpoint" /\ pc'.then \in {"plan", "planAll"})
      BY <3>2 DEF Acting
    <3>10. Reports' # {} /\ \A i, j \in Reports' : i = j
      BY <3>3
    <3>11. QED BY <3>5, <3>6, <3>7, <3>8, <3>9, <3>10 DEF PromptInv
  <2>5. QED BY <2>3, <2>4 DEF UserInv
<1>4. QED BY <1>2, <1>3

LEMMA OtherUserFound ==
  ASSUME TypeOK, UserInv, FunctionReturns \/ FunctionThrows \/ TimerFires
  PROVE  UserInv'
<1>1. UserSame /\ pc' = pc /\ Running
  BY DEF FunctionReturns, FunctionThrows, TimerFires, UserSame, requestVars, userVars
<1>2. CASE FunctionReturns
  <2>1. SetCheckpoint(CheckpointOf("function-resolved"))
        /\ CheckpointOf("function-resolved").type # "steps-found"
    BY <1>2, CheckpointFields DEF FunctionReturns
  <2>2. QED BY <1>1, <2>1, ReportsStay, UserGoes DEF PromptGoes, Running
<1>3. CASE FunctionThrows
  <2>1. PICK f \in BOOLEAN : SetCheckpoint([CheckpointOf("function-rejected") EXCEPT !.final = f])
    BY <1>3 DEF FunctionThrows
  <2>2. [CheckpointOf("function-rejected") EXCEPT !.final = f].type # "steps-found"
    BY CheckpointFields
  <2>3. QED BY <1>1, <2>1, <2>2, ReportsStay, UserGoes DEF PromptGoes, Running
<1>4. CASE TimerFires
  <2>1. PICK t \in timers : SetCheckpoint(CheckpointOf(TimerCheckpoint[t]))
    BY <1>4 DEF TimerFires
  <2>2. CheckpointOf(TimerCheckpoint[t]).type # "steps-found"
    BY CheckpointFields, TimerTypes DEF TypeOK
  <2>3. QED BY <1>1, <2>1, <2>2, ReportsStay, UserGoes DEF PromptGoes, Running
<1>5. QED BY <1>2, <1>3, <1>4

-----------------------------------------------------------------------------
(* What the core loop does.                                                *)

LEMMA OtherCoreFound ==
  ASSUME TypeOK, UserInv, pc'.at # "done",
         \/ AsyncFunctionResolved \/ CheckpointingFunctionResolved
         \/ AsyncFunctionRejected \/ CheckpointingFunctionRejected
         \/ StepNotFound \/ RuntimeReached \/ BufferIntervalReached
  PROVE  UserInv'
<1>1. UserSame
  BY DEF UserSame, requestVars, userVars, AsyncFunctionResolved, CheckpointingFunctionResolved,
     ResolvedAs, AsyncFunctionRejected, CheckpointingFunctionRejected, StepNotFound, RuntimeReached,
     BufferIntervalReached
<1>2. PICK type \in CheckpointType \ {"steps-found"} : TakeCheckpoint(type)
  BY DEF CheckpointType, AsyncFunctionResolved, CheckpointingFunctionResolved, ResolvedAs,
     AsyncFunctionRejected, CheckpointingFunctionRejected, StepNotFound, RuntimeReached,
     BufferIntervalReached
<1>3. ReportsKept /\ pc.at = "loop" /\ Looping
  BY <1>2, ReportsStay DEF TakeCheckpoint, Looping
<1>4. ASSUME NEW f, StartCheckpoint([PcAt("loop") EXCEPT !.then = "reject", !.final = f])
      PROVE  Looping'
  <2>1. pc'.at = "checkpoint" /\ pc'.then = "reject"
    BY <1>4 DEF StartCheckpoint, PcAt
  <2>2. QED BY <2>1 DEF Looping
<1>5. ASSUME StartCheckpoint([PcAt("loop") EXCEPT !.then = "loop"])
      PROVE  Looping'
  <2>1. pc'.at = "checkpoint" /\ pc'.then = "loop"
    BY <1>5 DEF StartCheckpoint, PcAt
  <2>2. QED BY <2>1 DEF Looping
<1>6. \A t, batch, retriable : ~Return(t, batch, retriable)
  BY DEF Return, PcAt
<1>7. \A final, defers : ~Reject(final, defers)
  BY <1>6 DEF Reject
<1>8. CASE AsyncFunctionResolved \/ CheckpointingFunctionResolved
  BY <1>6, <1>8 DEF AsyncFunctionResolved, CheckpointingFunctionResolved, ResolvedAs
<1>9. CASE AsyncFunctionRejected \/ StepNotFound
  BY <1>6, <1>7, <1>9 DEF AsyncFunctionRejected, StepNotFound
<1>10. CASE CheckpointingFunctionRejected
  <2>1. Looping'
    BY <1>4, <1>7, <1>10 DEF CheckpointingFunctionRejected
  <2>2. QED BY <1>1, <1>3, <2>1, UserGoes DEF PromptGoes
<1>11. CASE RuntimeReached
  <2>1. pc' = pc
    BY <1>11 DEF RuntimeReached
  <2>2. QED BY <1>1, <1>3, <2>1, UserGoes DEF PromptGoes
<1>12. CASE BufferIntervalReached
  <2>1. Looping'
    BY <1>5, <1>12 DEF BufferIntervalReached
  <2>2. QED BY <1>1, <1>3, <2>1, UserGoes DEF PromptGoes
<1>13. QED BY <1>8, <1>9, <1>10, <1>11, <1>12

\* What the core loop does with a report of steps.
Dealt(steps) ==
  \/ pc'.at = "done"
  \/ pc'.at = "loop" /\ (req.step = NoStep => NewSteps(steps) = {})
  \/ /\ pc'.at = "exec"
     /\ IF req.step = NoStep
          THEN ~req.die /\ stepState[pc'.step] = "none" /\ (Prompts => NewSteps(steps) = {pc'.step})
          ELSE pc'.step = req.step
  \/ /\ pc'.at = "checkpoint" /\ pc'.then \in {"plan", "planAll"} /\ req.step = NoStep
     /\ NewSteps(IF pc'.then = "plan" THEN pc'.steps ELSE found) # {}

LEMMA ReportDealt ==
  ASSUME TypeOK, RequestInv, UserInv, UserSame, TakeCheckpoint("steps-found"),
         Dealt(Head(queue).steps), pc'.at # "done"
  PROVE  UserInv'
<1> DEFINE steps == Head(queue).steps
<1>1. LeastInv'
  BY SameUser DEF UserInv
<1>2. EarlyInv'
  BY DEF EarlyInv, Dealt, UserSame
<1>3. ASSUME Prompts
      PROVE  PromptInv'
  <2>1. PromptInv
    BY <1>3 DEF UserInv
  <2>2. Reports' = {} /\ Quiet /\ (req.step = NoStep => Waiting \subseteq steps)
    BY <2>1, ReportsStay DEF PromptInv
  <2>3. steps \subseteq found
    BY TakenSteps
  <2>4. req.step = NoStep => Waiting = NewSteps(steps)
    BY <2>2, <2>3 DEF Waiting, NewSteps
  <2>5. /\ Waiting' = Waiting /\ (Quiet' <=> Quiet) /\ req' = req
        /\ \A S : NewSteps(S)' = NewSteps(S)
    BY SameUser DEF UserSame
  <2>6. /\ \A s \in Steps : stepState'[s] # "none" => s \in ToSet(order)' \cup ToSet(resolved)'
        /\ (found' \ toReport') \cap ToSet(order)' \subseteq ToSet(resolved)'
    BY <2>1 DEF PromptInv, UserSame
  <2>7. ASSUME req'.step = NoStep
        PROVE  /\ pc'.at = "exec" => Waiting' = {pc'.step}
               /\ Looping' => Waiting' \subseteq toReport'
    <3>1. pc'.at = "exec" => Waiting' = {pc'.step}
      BY <1>3, <2>4, <2>5, <2>7 DEF Dealt
    <3>2. Looping' => Waiting' = {}
      BY <2>4, <2>5, <2>7 DEF Dealt, Looping
    <3>3. QED BY <3>1, <3>2
  <2>8. ASSUME pc'.at = "checkpoint", pc'.then \in {"plan", "planAll"}
        PROVE  req'.step = NoStep /\ NewSteps(IF pc.then = "plan" THEN pc.steps ELSE found)' # {}
    <3>1. req.step = NoStep /\ NewSteps(IF pc'.then = "plan" THEN pc'.steps ELSE found) # {}
      BY <2>8 DEF Dealt
    <3>2. QED BY <2>5, <3>1 DEF UserSame, NewSteps
  <2>9. QED BY <2>2, <2>5, <2>6, <2>7, <2>8 DEF PromptInv
<1>4. QED BY <1>1, <1>2, <1>3 DEF UserInv

\* Immediate execution runs the one new step of a report.
LEMMA EarlyAlone ==
  ASSUME NEW steps \in SUBSET Steps, EarlyStep(steps) # NoStep
  PROVE  ~req.die /\ (Prompts => NewSteps(steps) = {EarlyStep(steps)})
<1>1. ~req.die /\ Cardinality(NewSteps(steps)) = 1 /\ EarlyStep(steps) = CHOOSE s \in NewSteps(steps) : TRUE
  BY DEF EarlyStep
<1>2. ASSUME Prompts
      PROVE  NewSteps(steps) = {EarlyStep(steps)}
  <2>1. IsFiniteSet(NewSteps(steps))
    <3>1. NewSteps(steps) \in SUBSET Steps
      BY DEF NewSteps
    <3>2. QED BY <1>2, <3>1, FS_Subset DEF Prompts
  <2>2. PICK x : NewSteps(steps) = {x}
    BY <1>1, <2>1, FS_Singleton
  <2>3. QED BY <1>1, <2>2
<1>3. QED BY <1>1, <1>2

LEMMA MaybePlans ==
  ASSUME NEW steps, MaybeReturnNewSteps(steps)
  PROVE  pc'.at = "done" \/ (pc'.at = "loop" /\ PlannedSteps(steps) = {})
<1>1. pc' = PcAt("done") \/ (pc' = PcAt("loop") /\ PlannedSteps(steps) = {})
  BY DEF MaybeReturnNewSteps, Return
<1>2. QED BY <1>1 DEF PcAt

LEMMA AsyncStepsFoundFound ==
  ASSUME TypeOK, RequestInv, UserInv, AsyncStepsFound, pc'.at # "done"
  PROVE  UserInv'
<1> DEFINE steps == Head(queue).steps
<1>1. UserSame /\ TakeCheckpoint("steps-found") /\ steps \in SUBSET Steps
  BY HeadStepsType DEF AsyncStepsFound, UserSame, requestVars, userVars
<1>2. CASE StepToRun(steps) # NoStep
  <2>1. StartStep(StepToRun(steps))
    BY <1>2 DEF AsyncStepsFound
  <2>2. pc'.at = "exec" /\ pc'.step = StepToRun(steps)
    BY <2>1 DEF StartStep, PcAt
  <2>3. CASE req.step # NoStep
    BY <1>1, <1>2, <2>2, <2>3, ReportDealt DEF Dealt, StepToRun
  <2>4. CASE req.step = NoStep
    <3>1. StepToRun(steps) = EarlyStep(steps)
      BY <2>4 DEF StepToRun
    <3>2. stepState[EarlyStep(steps)] = "none" /\ ~req.die
          /\ (Prompts => NewSteps(steps) = {EarlyStep(steps)})
      BY <1>1, <1>2, <3>1, EarlyIsNew, EarlyAlone
    <3>3. Dealt(steps)
      BY <2>2, <2>4, <3>1, <3>2 DEF Dealt
    <3>4. QED BY <1>1, <3>3, ReportDealt
  <2>5. QED BY <2>3, <2>4
<1>3. CASE StepToRun(steps) = NoStep
  <2>1. MaybeReturnNewSteps(steps)
    BY <1>3 DEF AsyncStepsFound
  <2>2. Dealt(steps)
    BY <2>1, MaybePlans DEF Dealt, PlannedSteps
  <2>3. QED BY <1>1, <2>2, ReportDealt
<1>4. QED BY <1>2, <1>3

LEMMA CheckpointingStepsFoundFound ==
  ASSUME TypeOK, RequestInv, UserInv, CheckpointingStepsFound, pc'.at # "done"
  PROVE  UserInv'
<1> DEFINE steps == Head(queue).steps
           early == EarlyStep(NewSteps(steps))
<1>1. UserSame /\ TakeCheckpoint("steps-found") /\ steps \in SUBSET Steps
  BY HeadStepsType DEF CheckpointingStepsFound, UserSame, requestVars, userVars
<1>2. pc.at = "loop" /\ req.step = NoStep /\ steps \subseteq found
  BY <1>1, TakenSteps DEF TakeCheckpoint, CheckpointingStepsFound, StepMode
<1>3. CASE NewSteps(steps) = {}
  <2>1. pc' = pc
    BY <1>3 DEF CheckpointingStepsFound
  <2>2. Dealt(steps)
    BY <1>2, <1>3, <2>1 DEF Dealt
  <2>3. QED BY <1>1, <2>2, ReportDealt
<1>4. CASE NewSteps(steps) # {} /\ ~exceeded /\ early # NoStep
  <2>1. StartStep(early)
    BY <1>4 DEF CheckpointingStepsFound
  <2>2. pc'.at = "exec" /\ pc'.step = early
    BY <2>1 DEF StartStep, PcAt
  <2>3. NewSteps(NewSteps(steps)) = NewSteps(steps) /\ NewSteps(steps) \in SUBSET Steps
    BY <1>1 DEF NewSteps
  <2>4. stepState[early] = "none" /\ ~req.die /\ (Prompts => NewSteps(steps) = {early})
    BY <1>4, <2>3, EarlyIsNew, EarlyAlone
  <2>5. Dealt(steps)
    BY <1>2, <2>2, <2>4 DEF Dealt
  <2>6. QED BY <1>1, <2>5, ReportDealt
<1>5. CASE NewSteps(steps) # {} /\ ~(~exceeded /\ early # NoStep)
  <2> DEFINE plan == IF exceeded THEN [PcAt("loop") EXCEPT !.then = "planAll"]
                     ELSE [PcAt("loop") EXCEPT !.then = "plan", !.steps = steps]
  <2>1. IF buffer # <<>> THEN StartCheckpoint(plan)
        ELSE MaybeReturnNewSteps(IF exceeded THEN found ELSE steps)
    BY <1>5 DEF CheckpointingStepsFound
  <2>2. NewSteps(found) # {}
    BY <1>2, <1>5 DEF NewSteps
  <2>3. CASE StartCheckpoint(plan)
    <3>1. /\ pc'.at = "checkpoint"
          /\ IF exceeded THEN pc'.then = "planAll" ELSE pc'.then = "plan" /\ pc'.steps = steps
      BY <2>3 DEF StartCheckpoint, PcAt
    <3>2. Dealt(steps)
      BY <1>2, <1>5, <2>2, <3>1 DEF Dealt
    <3>3. QED BY <1>1, <3>2, ReportDealt
  <2>4. CASE MaybeReturnNewSteps(IF exceeded THEN found ELSE steps)
    <3>1. PlannedSteps(IF exceeded THEN found ELSE steps) # {}
      BY <1>2, <1>5, <2>2 DEF PlannedSteps
    <3>2. QED BY <2>4, <3>1, MaybePlans
  <2>5. QED BY <2>1, <2>3, <2>4
<1>6. QED BY <1>3, <1>4, <1>5

LEMMA ResumeUserFound ==
  ASSUME TypeOK, RequestInv, UserInv, NEW limit, ResumeUser(limit), pc.at = "exec",
         StepMode(req) = "AsyncCheckpointing",
         UNCHANGED <<req, order, found, toReport, seenDefers, queue>>
  PROVE  UserInv'
<1>1. /\ stepState' = [stepState EXCEPT ![pc.step] = "ok"] /\ resolved' = Append(resolved, pc.step)
      /\ \/ StartCheckpoint([PcAt("loop") EXCEPT !.then = "loop"]) \/ pc' = PcAt("loop")
  BY DEF ResumeUser
<1>2. req.step = NoStep /\ pc.step \in Steps /\ stepState[pc.step] = "none"
  BY RunningStep DEF StepMode, UserInv, EarlyInv
<1>3. /\ stepState'[pc.step] = "ok" /\ \A x \in Steps \ {pc.step} : stepState'[x] = stepState[x]
  BY <1>1, <1>2 DEF TypeOK
<1>4. pc'.at # "exec" /\ Looping' /\ ~Acting'
  <2>1. pc'.at \in {"loop", "checkpoint"} /\ (pc'.at = "checkpoint" => pc'.then = "loop")
    <3> DEFINE then == [PcAt("loop") EXCEPT !.then = "loop"]
    <3>1. then.then = "loop" /\ then \in Pc /\ PcAt("loop").at = "loop"
      BY DEF PcAt, Pc, Location, Continuation, ResultKind
    <3>2. CASE pc' = PcAt("loop")
      BY <3>1, <3>2
    <3>3. CASE StartCheckpoint(then)
      BY <3>1, <3>3 DEF StartCheckpoint, Pc
    <3>4. QED BY <1>1, <3>2, <3>3
  <2>2. QED BY <2>1 DEF Looping, Acting
<1>5. LeastInv'
  <2>1. \A G \in SUBSET Steps : Closed(stepState', G) => Closed(stepState, G)
    <3> SUFFICES ASSUME NEW G \in SUBSET Steps, Closed(stepState', G), NEW s \in Steps,
                        NEW A \in CallAfter[s], \A x \in A : x \in G /\ Passes(stepState, x)
                 PROVE  s \in G
      BY DEF Closed
    <3>1. \A x \in A : x \in G /\ Passes(stepState', x)
      BY <1>2, <1>3 DEF Passes
    <3>2. QED BY <3>1 DEF Closed
  <2>2. \A G \in SUBSET Steps : Closed(stepState', G) => found' \subseteq G
    BY <2>1 DEF UserInv, LeastInv
  <2>3. QED BY <2>2 DEF LeastInv
<1>6. EarlyInv'
  BY <1>4 DEF EarlyInv
<1>7. ASSUME Prompts
      PROVE  PromptInv'
  <2>1. PromptInv /\ Reports = {} /\ Waiting = {pc.step}
    BY <1>2, <1>7 DEF UserInv, PromptInv
  <2>2. Reports' = {} /\ Waiting' = {}
    <3>1. Reports' = Reports
      BY DEF Reports
    <3>2. Waiting' \subseteq Waiting \ {pc.step}
      <4> SUFFICES ASSUME NEW x \in found, stepState'[x] = "none" PROVE x # pc.step /\ stepState[x] = "none"
        BY DEF Waiting
      <4>1. QED BY <1>2, <1>3 DEF TypeOK
    <3>3. QED BY <2>1, <3>1, <3>2
  <2>3. ToSet(resolved') = ToSet(resolved) \cup {pc.step}
    <3>1. resolved \in Seq(Steps)
      BY DEF TypeOK
    <3>2. /\ DOMAIN resolved' = DOMAIN resolved \cup {Len(resolved) + 1}
          /\ resolved'[Len(resolved) + 1] = pc.step
          /\ \A k \in DOMAIN resolved : resolved'[k] = resolved[k]
      BY <1>1, <1>2, <3>1
    <3>3. QED BY <3>2 DEF ToSet
  <2>4. /\ \A s \in Steps : stepState'[s] # "none" => s \in ToSet(order)' \cup ToSet(resolved)'
        /\ (found' \ toReport') \cap ToSet(order)' \subseteq ToSet(resolved)'
    BY <1>3, <2>1, <2>3 DEF PromptInv
  <2>5. ~(pc'.at = "checkpoint" /\ pc'.then \in {"plan", "planAll"})
    BY <1>4 DEF Acting
  <2>6. QED BY <1>4, <2>2, <2>4, <2>5 DEF PromptInv
<1>8. QED BY <1>5, <1>6, <1>7 DEF UserInv

LEMMA BodyFound ==
  ASSUME TypeOK, RequestInv, UserInv, BodySucceeds \/ BodyThrows, pc'.at # "done"
  PROVE  UserInv'
<1>1. PICK kind \in ResultKind :
        CheckpointingStepEnds \/ AsyncStepEnds(kind) \/ CheckpointingStepThrows(kind)
  BY DEF BodySucceeds, BodyThrows, ResultKind
<1>2. ~AsyncStepEnds(kind) /\ \A result : ~StepRan(result)
  BY AsyncBodyAnswers, StepRanAnswers
<1>3. CASE CheckpointingStepThrows(kind)
  <2>1. UserSame /\ queue' = queue /\ pc.at = "exec"
    BY <1>3 DEF CheckpointingStepThrows, UserSame, requestVars, userVars
  <2>2. StartCheckpoint([PcAt("loop") EXCEPT !.then = "stepRan", !.step = pc.step, !.kind = kind])
    BY <1>2, <1>3 DEF CheckpointingStepThrows
  <2>3. pc'.at = "checkpoint" /\ pc'.then = "stepRan"
    BY <2>2 DEF StartCheckpoint, PcAt
  <2>4. PromptGoes
    BY <2>1, <2>3 DEF PromptGoes, Acting
  <2>5. QED BY <2>1, <2>4, ReportsStay, UserGoes
<1>4. CASE CheckpointingStepEnds
  <2>1. /\ ResumeUser(BufferedSteps) /\ pc.at = "exec" /\ StepMode(req) = "AsyncCheckpointing"
        /\ UNCHANGED <<req, order, found, toReport, seenDefers, queue>>
    BY <1>2, <1>4 DEF CheckpointingStepEnds, requestVars
  <2>2. QED BY <2>1, ResumeUserFound
<1>5. QED BY <1>1, <1>2, <1>3, <1>4

-----------------------------------------------------------------------------
(* The end of a checkpoint, and the rest of the system.                    *)

LEMMA ContinueFound ==
  ASSUME TypeOK, UserInv, pc.at = "checkpoint", Continue,
         UNCHANGED <<requestVars, userVars, queue>>, pc'.at # "done"
  PROVE  UserInv'
<1>1. UserSame /\ ReportsKept
  BY ReportsStay DEF UserSame, requestVars, userVars
<1>2. pc'.at = "loop"
  BY ContinueLocation
<1>3. Looping'
  BY <1>2 DEF Looping
<1>4. CASE pc.then = "loop"
  <2>1. Looping
    BY <1>4 DEF Looping
  <2>2. QED BY <1>1, <1>3, <2>1, UserGoes DEF PromptGoes
<1>5. CASE pc.then \in {"plan", "planAll"}
  <2> DEFINE steps == IF pc.then = "plan" THEN pc.steps ELSE found
  <2>1. MaybeReturnNewSteps(steps)
    BY <1>5 DEF Continue
  <2>2. PlannedSteps(steps) = {}
    BY <2>1, MaybePlans
  <2>3. ~Prompts
    BY <1>5, <2>2 DEF UserInv, PromptInv, PlannedSteps
  <2>4. LeastInv' /\ EarlyInv'
    BY <1>1, <1>2, SameUser DEF UserInv, EarlyInv
  <2>5. QED BY <2>3, <2>4 DEF UserInv
<1>6. CASE pc.then = "stepRan"
  <2>1. StepRan([step |-> pc.step, kind |-> pc.kind])
    BY <1>6 DEF Continue
  <2>2. QED BY <2>1, StepRanAnswers
<1>7. CASE pc.then \notin {"loop", "plan", "planAll", "stepRan"}
  <2>1. Reject(pc.final, {})
    BY <1>7 DEF Continue
  <2>2. QED BY <2>1, RejectsWithout
<1>8. QED BY <1>4, <1>5, <1>6, <1>7

LEMMA EngineFound ==
  ASSUME TypeOK, RequestInv, UserInv, EngineStep, pc'.at # "done"
  PROVE  UserInv'
<1>1. CASE UserCalls \/ HandleMemoized \/ ReportFound
  BY <1>1, EngineLocation, UserCallsFound, HandleMemoizedFound, ReportFoundFound
<1>2. CASE FunctionReturns \/ FunctionThrows \/ TimerFires
  BY <1>2, OtherUserFound
<1>3. CASE AsyncStepsFound \/ CheckpointingStepsFound
  BY <1>3, AsyncStepsFoundFound, CheckpointingStepsFoundFound
<1>4. CASE \/ AsyncFunctionResolved \/ CheckpointingFunctionResolved
           \/ AsyncFunctionRejected \/ CheckpointingFunctionRejected
           \/ StepNotFound \/ RuntimeReached \/ BufferIntervalReached
  BY <1>4, OtherCoreFound
<1>5. QED BY <1>1, <1>2, <1>3, <1>4 DEF EngineStep

LEMMA DispatchFound ==
  ASSUME RunTypeOK, PromiseInv, Dispatch
  PROVE  UserInv'
<1>1. /\ stepState' = memo /\ order' = completion /\ found' = {} /\ toReport' = {} /\ resolved' = <<>>
      /\ queue' = <<>> /\ pc' = PcAt("loop")
  BY DEF Dispatch, StartRequest
<1>2. pc'.at = "loop" /\ Reports' = {} /\ Waiting' = {} /\ ~Acting'
  <2>1. pc'.at = "loop"
    BY <1>1 DEF PcAt
  <2>2. DOMAIN queue' = {}
    BY <1>1
  <2>3. QED BY <1>1, <2>1, <2>2 DEF Reports, Waiting, Acting
<1>3. LeastInv' /\ EarlyInv'
  BY <1>1, <1>2 DEF LeastInv, EarlyInv
<1>4. \A s \in Steps : stepState'[s] # "none" => s \in ToSet(order)'
  BY <1>1 DEF PromiseInv, Server, ToSet
<1>5. PromptInv'
  BY <1>1, <1>2, <1>4 DEF PromptInv
<1>6. QED BY <1>3, <1>5 DEF UserInv

LEMMA FoundStep ==
  ASSUME RunTypeOK, PromiseInv, FoundInv, [Next]_vars
  PROVE  FoundInv'
<1> SUFFICES ASSUME Running', ~stale' PROVE UserInv'
  BY DEF FoundInv
<1>0. TypeOK /\ pc'.at # "done" /\ pc'.at # "off"
  BY DEF RunTypeOK, Running
<1>1. ASSUME Running, ~stale
      PROVE  RequestInv /\ UserInv
  BY <1>1 DEF PromiseInv, RequestInv, FoundInv
<1>2. CASE EngineMoves \/ StepSucceeds \/ StepThrows
  <2>1. (EngineStep \/ BodySucceeds \/ BodyThrows) /\ ~stale
    BY <1>2 DEF EngineMoves, StepSucceeds, StepThrows
  <2>2. RequestInv /\ UserInv
    BY <1>1, <2>1, EngineLocation
  <2>3. QED BY <1>0, <2>1, <2>2, EngineFound, BodyFound
<1>3. CASE Dispatch
  BY <1>3, DispatchFound
<1>4. CASE CheckpointOk \/ CheckpointLost \/ CheckpointRefused
  <2>1. /\ ~stale /\ pc.at = "checkpoint"
        /\ requestVars' = requestVars /\ userVars' = userVars /\ queue' = queue
    <3>1. ~stale /\ ~CheckpointRefused
      BY <1>4 DEF CheckpointOk, CheckpointLost, CheckpointRefused
    <3>2. CheckpointSucceeds \/ CheckpointFails
      BY <1>4, <3>1 DEF CheckpointOk, CheckpointLost
    <3>3. QED BY <3>1, <3>2 DEF CheckpointSucceeds, CheckpointFails
  <2>2. Continue
    <3>1. \A t, batch, retriable : ~Return(t, batch, retriable)
      BY <1>0 DEF Return, PcAt
    <3>2. QED BY <1>4, <2>1, <3>1 DEF CheckpointOk, CheckpointLost, CheckpointRefused,
                CheckpointSucceeds, CheckpointFails
  <2>3. QED BY <1>0, <1>1, <2>1, <2>2, ContinueFound DEF Running
<1>5. CASE ApplyResponse \/ Crash
  BY <1>0, <1>5 DEF ApplyResponse, Crash, PcAt
<1>6. CASE RecordCheckpoint \/ GiveUp \/ Ended \/ UNCHANGED vars \/ \E w \in Waits : WaitEnds(w)
  <2>1. UNCHANGED <<requestVars, userVars, queue, pc>> /\ ~stale
    BY <1>6 DEF RecordCheckpoint, GiveUp, Ended, WaitEnds, vars, engineVars
  <2>2. UserSame /\ PromptGoes /\ ReportsKept
    BY <1>0, <2>1, ReportsStay DEF UserSame, requestVars, userVars, PromptGoes
  <2>3. Running
    BY <2>1 DEF Running
  <2>4. QED BY <1>0, <1>1, <2>1, <2>2, <2>3, UserGoes
<1>7. QED BY <1>2, <1>3, <1>4, <1>5, <1>6 DEF Next

LEMMA FoundHolds == Spec => []FoundInv
<1>1. Init => FoundInv
  BY DEF Init, PcAt, FoundInv, Running
<1>2. RunTypeOK /\ PromiseInv /\ FoundInv /\ [Next]_vars => FoundInv'
  BY FoundStep
<1>3. QED BY <1>1, <1>2, PromiseHolds, PTL DEF Spec

LEMMA ExecHolds == ReportsTogether => (Spec => []ExecInv)
<1> SUFFICES ASSUME ReportsTogether PROVE Spec => []ExecInv
  OBVIOUS
<1>1. RunTypeOK /\ PromiseInv /\ FoundInv => ExecInv
  BY ExecStuck DEF RunTypeOK
<1>2. QED BY <1>1, PromiseHolds, FoundHolds, PTL

-----------------------------------------------------------------------------
(* User code that throws nothing of its own is only ever rejected for good. *)

Goes == {"loop", "plan", "planAll", "stepRan"}

RejectInv ==
  /\ \A i \in DOMAIN queue : queue[i].type = "function-rejected" => queue[i].final
  /\ pc.at = "checkpoint" /\ pc.then \notin Goes => pc.final
  /\ response.batch.end # "error"

EndsWell ==
  /\ pc'.at = "checkpoint" /\ pc'.then \notin Goes => pc'.final
  /\ response'.batch.end # "error"

LEMMA ReturnsWell ==
  ASSUME NEW type, NEW batch, NEW retriable, Return(type, batch, retriable), batch.end # "error"
  PROVE  EndsWell
<1>1. pc' = PcAt("done") /\ response' = [type |-> type, batch |-> batch, retriable |-> retriable]
  BY DEF Return
<1>2. QED BY <1>1 DEF PcAt, EndsWell

LEMMA MaybeReturnsWell ==
  ASSUME NEW steps, MaybeReturnNewSteps(steps), RejectInv
  PROVE  EndsWell
<1> DEFINE batch == [EmptyBatch EXCEPT !.plan = PlannedSteps(steps), !.defers = lazy]
<1>1. CASE pc' = PcAt("loop") /\ response' = response
  BY <1>1 DEF PcAt, EndsWell, RejectInv
<1>2. CASE Return("steps-found", batch, FALSE)
  <2>1. batch.end # "error"
    BY BatchFields
  <2>2. QED BY <1>2, <2>1, ReturnsWell
<1>3. QED BY <1>1, <1>2 DEF MaybeReturnNewSteps

LEMMA RejectsWell ==
  ASSUME NEW final, NEW defers, Reject(final, defers), final
  PROVE  EndsWell
<1> DEFINE batch == [EmptyBatch EXCEPT !.defers = defers, !.end = IF final THEN "failed" ELSE "error"]
<1>1. batch.end # "error"
  BY BatchFields
<1>2. PICK type, retriable : Return(type, batch, retriable)
  BY DEF Reject
<1> HIDE DEF batch
<1>3. QED BY <1>1, <1>2, ReturnsWell

LEMMA ChecksWell ==
  ASSUME RejectInv
  PROVE  /\ \A f \in BOOLEAN : f /\ StartCheckpoint([PcAt("loop") EXCEPT !.then = "reject", !.final = f])
              => EndsWell
         /\ StartCheckpoint([PcAt("loop") EXCEPT !.then = "loop"]) => EndsWell
         /\ StartCheckpoint([PcAt("loop") EXCEPT !.then = "planAll"]) => EndsWell
         /\ \A steps : StartCheckpoint([PcAt("loop") EXCEPT !.then = "plan", !.steps = steps]) => EndsWell
         /\ \A s, kind : StartCheckpoint([PcAt("loop") EXCEPT !.then = "stepRan", !.step = s, !.kind = kind])
              => EndsWell
<1>1. \A f \in BOOLEAN : f /\ StartCheckpoint([PcAt("loop") EXCEPT !.then = "reject", !.final = f])
              => EndsWell
  BY DEF StartCheckpoint, PcAt, EndsWell, RejectInv
<1>2. StartCheckpoint([PcAt("loop") EXCEPT !.then = "loop"]) => EndsWell
  BY DEF StartCheckpoint, PcAt, EndsWell, RejectInv, Goes
<1>3. StartCheckpoint([PcAt("loop") EXCEPT !.then = "planAll"]) => EndsWell
  BY DEF StartCheckpoint, PcAt, EndsWell, RejectInv, Goes
<1>4. \A steps : StartCheckpoint([PcAt("loop") EXCEPT !.then = "plan", !.steps = steps]) => EndsWell
  BY DEF StartCheckpoint, PcAt, EndsWell, RejectInv, Goes
<1>5. \A s, kind : StartCheckpoint([PcAt("loop") EXCEPT !.then = "stepRan", !.step = s, !.kind = kind])
              => EndsWell
  BY DEF StartCheckpoint, PcAt, EndsWell, RejectInv, Goes
<1>6. QED BY <1>1, <1>2, <1>3, <1>4, <1>5

LEMMA StepRanWell ==
  ASSUME NEW result, StepRan(result)
  PROVE  EndsWell
<1>1. pc'.at = "done" /\ response'.batch.end = "none"
  BY StepRanAnswers
<1>2. QED BY <1>1 DEF EndsWell

LEMMA ContinueWell ==
  ASSUME RejectInv, pc.at = "checkpoint", Continue
  PROVE  EndsWell
<1>1. CASE pc.then = "loop"
  BY <1>1 DEF Continue, PcAt, EndsWell, RejectInv
<1>2. CASE pc.then \in {"plan", "planAll"}
  BY <1>2, MaybeReturnsWell DEF Continue
<1>3. CASE pc.then = "stepRan"
  BY <1>3, StepRanWell DEF Continue
<1>4. CASE pc.then \notin Goes
  <2>1. Reject(pc.final, {}) /\ pc.final
    BY <1>4 DEF Continue, RejectInv, Goes
  <2>2. QED BY <2>1, RejectsWell
<1>5. QED BY <1>1, <1>2, <1>3, <1>4 DEF Goes

LEMMA CoreWell ==
  ASSUME TypeOK, RejectInv,
         \/ AsyncStepsFound \/ CheckpointingStepsFound
         \/ AsyncFunctionResolved \/ CheckpointingFunctionResolved
         \/ AsyncFunctionRejected \/ CheckpointingFunctionRejected
         \/ StepNotFound \/ RuntimeReached \/ BufferIntervalReached
  PROVE  RejectInv'
<1>1. PICK type : TakeCheckpoint(type)
  BY DEF AsyncStepsFound, CheckpointingStepsFound, AsyncFunctionResolved, CheckpointingFunctionResolved,
     ResolvedAs, AsyncFunctionRejected, CheckpointingFunctionRejected, StepNotFound, RuntimeReached,
     BufferIntervalReached
<1>2. \A i \in DOMAIN queue' : queue'[i].type = "function-rejected" => queue'[i].final
  BY <1>1, TakesCheckpoint DEF RejectInv
<1>3. SUFFICES EndsWell
  BY <1>2 DEF EndsWell, RejectInv
<1>4. ASSUME UNCHANGED <<pc, response>>
      PROVE  EndsWell
  BY <1>4 DEF EndsWell, RejectInv
<1>5. ASSUME NEW s, StartStep(s)
      PROVE  EndsWell
  BY <1>5 DEF StartStep, PcAt, EndsWell, RejectInv
<1>6. CASE AsyncStepsFound
  BY <1>5, <1>6, MaybeReturnsWell DEF AsyncStepsFound
<1>7. CASE CheckpointingStepsFound
  BY <1>4, <1>5, <1>7, MaybeReturnsWell, ChecksWell DEF CheckpointingStepsFound
<1>8. CASE AsyncFunctionResolved \/ CheckpointingFunctionResolved
  <2> DEFINE planning == [EmptyBatch EXCEPT !.plan = PlannedSteps(found), !.defers = lazy]
             alone == [EmptyBatch EXCEPT !.defers = lazy, !.end = "complete"]
             complete == [EmptyBatch EXCEPT !.ran = buffer, !.defers = lazy, !.end = "complete"]
  <2>1. planning.end # "error" /\ alone.end # "error" /\ complete.end # "error"
    BY BatchFields
  <2>2. \E t : Return(t, planning, FALSE) \/ Return(t, alone, FALSE) \/ Return(t, complete, FALSE)
    BY <1>8 DEF AsyncFunctionResolved, CheckpointingFunctionResolved, ResolvedAs
  <2> HIDE DEF planning, alone, complete
  <2>3. QED BY <2>1, <2>2, ReturnsWell
<1>9. ASSUME TakeCheckpoint("function-rejected")
      PROVE  Head(queue).final = TRUE
  BY <1>9, TakesCheckpoint, HeadStepsType DEF RejectInv
<1>10. CASE AsyncFunctionRejected
  <2>1. Head(queue).final = TRUE /\ Reject(Head(queue).final, lazy)
    BY <1>9, <1>10 DEF AsyncFunctionRejected
  <2>2. QED BY <2>1, RejectsWell
<1>11. CASE CheckpointingFunctionRejected
  <2>1. Head(queue).final = TRUE
    BY <1>9, <1>11 DEF CheckpointingFunctionRejected
  <2>2. \/ StartCheckpoint([PcAt("loop") EXCEPT !.then = "reject", !.final = Head(queue).final])
        \/ Reject(Head(queue).final, {})
    BY <1>11 DEF CheckpointingFunctionRejected
  <2>3. QED BY <2>1, <2>2, RejectsWell, ChecksWell
<1>12. CASE StepNotFound
  <2>1. Return("step-not-found", EmptyBatch, TRUE) /\ EmptyBatch.end # "error"
    BY <1>12, BatchFields DEF StepNotFound
  <2>2. QED BY <2>1, ReturnsWell
<1>13. CASE RuntimeReached
  BY <1>4, <1>13 DEF RuntimeReached
<1>14. CASE BufferIntervalReached
  BY <1>14, ChecksWell DEF BufferIntervalReached
<1>15. QED BY <1>6, <1>7, <1>8, <1>10, <1>11, <1>12, <1>13, <1>14

LEMMA UserWell ==
  ASSUME TypeOK, RejectInv, ~MayThrow,
         UserCalls \/ FunctionReturns \/ FunctionThrows \/ HandleMemoized \/ ReportFound \/ TimerFires
  PROVE  RejectInv'
<1>1. UNCHANGED <<pc, response>>
  BY DEF UserCalls, FunctionReturns, FunctionThrows, HandleMemoized, ReportFound, TimerFires
<1>2. SUFFICES \A i \in DOMAIN queue' : queue'[i].type = "function-rejected" => queue'[i].final
  BY <1>1 DEF RejectInv
<1>3. ASSUME NEW c, SetCheckpoint(c), c.type = "function-rejected" => c.final
      PROVE  \A i \in DOMAIN queue' : queue'[i].type = "function-rejected" => queue'[i].final
  BY <1>3, SetsCheckpoint DEF RejectInv
<1>4. ASSUME queue' = queue
      PROVE  \A i \in DOMAIN queue' : queue'[i].type = "function-rejected" => queue'[i].final
  BY <1>4 DEF RejectInv
<1>5. CASE UserCalls \/ HandleMemoized
  BY <1>4, <1>5 DEF UserCalls, HandleMemoized
<1>6. CASE FunctionReturns
  <2>1. SetCheckpoint(CheckpointOf("function-resolved"))
    BY <1>6 DEF FunctionReturns
  <2>2. CheckpointOf("function-resolved").type = "function-resolved"
    BY CheckpointFields
  <2>3. QED BY <1>3, <2>1, <2>2
<1>7. CASE FunctionThrows
  <2> DEFINE c == [CheckpointOf("function-rejected") EXCEPT !.final = TRUE]
  <2>1. SetCheckpoint(c)
    BY <1>7 DEF FunctionThrows
  <2>2. c.final
    BY DEF CheckpointOf
  <2> HIDE DEF c
  <2>3. QED BY <1>3, <2>1, <2>2
<1>8. CASE ReportFound
  <2> DEFINE c == [CheckpointOf("steps-found") EXCEPT !.steps = toReport]
  <2>1. queue' = queue \/ SetCheckpoint(c)
    BY <1>8 DEF ReportFound, SetCheckpoint
  <2>2. c.type = "steps-found"
    BY CheckpointFields
  <2> HIDE DEF c
  <2>3. QED BY <1>3, <1>4, <2>1, <2>2
<1>9. CASE TimerFires
  <2>1. PICK t \in timers : SetCheckpoint(CheckpointOf(TimerCheckpoint[t]))
    BY <1>9 DEF TimerFires
  <2>2. TimerCheckpoint[t] # "function-rejected"
    BY TimerTypes DEF TypeOK
  <2>3. CheckpointOf(TimerCheckpoint[t]).type = TimerCheckpoint[t]
    BY DEF CheckpointOf
  <2>4. QED BY <1>3, <2>1, <2>2, <2>3
<1>10. QED BY <1>5, <1>6, <1>7, <1>8, <1>9

LEMMA BodyWell ==
  ASSUME TypeOK, RejectInv, BodySucceeds \/ BodyThrows
  PROVE  RejectInv'
<1>1. PICK kind \in ResultKind :
        CheckpointingStepEnds \/ AsyncStepEnds(kind) \/ CheckpointingStepThrows(kind)
  BY DEF BodySucceeds, BodyThrows, ResultKind
<1>2. queue' = queue
  BY <1>1 DEF CheckpointingStepEnds, AsyncStepEnds, CheckpointingStepThrows
<1>3. SUFFICES EndsWell
  BY <1>2 DEF EndsWell, RejectInv
<1>4. CASE AsyncStepEnds(kind)
  <2>1. pc'.at = "done" /\ response'.batch.end = "none"
    BY <1>4, AsyncBodyAnswers
  <2>2. QED BY <2>1 DEF EndsWell
<1>5. CASE CheckpointingStepThrows(kind)
  BY <1>5, StepRanWell, ChecksWell DEF CheckpointingStepThrows
<1>6. CASE CheckpointingStepEnds
  <2>1. pc' = PcAt("loop") /\ response' = response => EndsWell
    BY DEF PcAt, EndsWell, RejectInv
  <2>2. QED BY <1>6, <2>1, StepRanWell, ChecksWell DEF CheckpointingStepEnds, ResumeUser
<1>7. QED BY <1>1, <1>4, <1>5, <1>6

LEMMA RejectStep ==
  ASSUME RunTypeOK, RejectInv, ~MayThrow, [Next]_vars
  PROVE  RejectInv'
<1>0. TypeOK
  BY DEF RunTypeOK
<1>1. CASE EngineMoves \/ StepSucceeds \/ StepThrows
  <2>1. EngineStep \/ BodySucceeds \/ BodyThrows
    BY <1>1 DEF EngineMoves, StepSucceeds, StepThrows
  <2>2. QED BY <1>0, <2>1, CoreWell, UserWell, BodyWell DEF EngineStep
<1>2. CASE CheckpointOk \/ CheckpointRefused \/ CheckpointLost
  <2>1. queue' = queue /\ pc.at = "checkpoint"
    BY <1>2 DEF CheckpointOk, CheckpointRefused, CheckpointLost, CheckpointSucceeds, CheckpointFails,
                CheckpointIsStale
  <2> DEFINE stuck == [EmptyBatch EXCEPT !.end = "failed"]
             rest == [EmptyBatch EXCEPT !.ran = buffer]
  <2>2. stuck.end # "error" /\ rest.end # "error"
    BY BatchFields
  <2>3. \E type : Continue \/ Return(type, stuck, FALSE) \/ Return(type, rest, FALSE)
    BY <1>2 DEF CheckpointOk, CheckpointRefused, CheckpointLost, CheckpointSucceeds, CheckpointFails,
                CheckpointIsStale
  <2> HIDE DEF stuck, rest
  <2>4. EndsWell
    BY <2>1, <2>2, <2>3, ContinueWell, ReturnsWell
  <2>5. QED BY <2>1, <2>4 DEF EndsWell, RejectInv
<1>3. CASE Dispatch
  <2>1. queue' = <<>> /\ pc' = PcAt("loop") /\ response' = NoResponse
    BY <1>3 DEF Dispatch, StartRequest
  <2>2. DOMAIN queue' = {} /\ pc'.at = "loop" /\ response'.batch.end = "none"
    BY <2>1, BatchFields DEF PcAt, NoResponse
  <2>3. QED BY <2>2 DEF RejectInv
<1>4. CASE ApplyResponse \/ Crash
  <2>1. pc'.at = "off" /\ UNCHANGED <<queue, response>>
    BY <1>4 DEF ApplyResponse, Crash, PcAt
  <2>2. QED BY <2>1 DEF RejectInv
<1>5. CASE RecordCheckpoint \/ GiveUp \/ Ended \/ UNCHANGED vars \/ \E w \in Waits : WaitEnds(w)
  <2>1. UNCHANGED <<queue, response, pc>>
    BY <1>5 DEF RecordCheckpoint, GiveUp, Ended, WaitEnds, vars, engineVars
  <2>2. QED BY <2>1 DEF RejectInv
<1>6. QED BY <1>1, <1>2, <1>3, <1>4, <1>5 DEF Next

LEMMA RejectHolds == ~MayThrow => (Spec => []RejectInv)
<1> SUFFICES ASSUME ~MayThrow PROVE Spec => []RejectInv
  OBVIOUS
<1>1. Init => RejectInv
  <2>1. ASSUME Init
        PROVE  queue = <<>> /\ pc.at = "off" /\ response.batch.end = "none"
    BY <2>1, BatchFields DEF Init, PcAt, NoResponse
  <2>2. QED BY <2>1 DEF RejectInv
<1>2. RunTypeOK /\ RejectInv /\ [Next]_vars => RejectInv'
  BY RejectStep
<1>3. QED BY <1>1, <1>2, TypeCorrect, PTL DEF Spec

-----------------------------------------------------------------------------
(* Attempts.                                                               *)

\* Nothing but the bodies that threw has used attempts.
Calm == faults = 0 /\ ~history.notFound

\* A queue item has used no more attempts than its step has thrown; a request is at the
\* attempt of its item.
Tried ==
  /\ \A s \in Steps : attempts[s] <= history.throws[s]
  /\ pc.at # "off" => req.attempt = attempts[req.step]

\* Nothing is recorded beside a request that may run a body early.
Undisturbed ==
  Running /\ req.step = NoStep /\ ~req.die =>
    planned = {} /\ \A s \in Steps : stepState[s] = "none" => memo[s] = "none"

\* An error that is to be answered is that of the step the request asked for, or of the one
\* step user code waits for, which has thrown once more than its item had been tried.
Charged(m, s) ==
  /\ history.throws[s] > req.attempt
  /\ IF req.step = NoStep THEN planned = {} /\ Stuck(m, s) ELSE s = req.step

Answered(s) ==
  pc.at = "done" /\ \E i \in DOMAIN response.batch.ran :
                     response.batch.ran[i].step = s /\ response.batch.ran[i].kind = "error"

ErrorInv ==
  /\ pc.at = "checkpoint" /\ pc.then = "stepRan" => StepMode(req) = "AsyncCheckpointing"
  /\ pc.at = "done" => response.type # "step-not-found"
  /\ \A s \in Steps :
       /\ pc.at = "checkpoint" /\ pc.then = "stepRan" /\ pc.kind = "error" /\ pc.step = s
            => Charged(stepState, s)
       /\ Answered(s) => Charged(memo, s)

\* While discovery is being tried again the server has the results it was first tried with,
\* and user code waits for a step that has thrown at every attempt.
DiscoveryTried ==
  outcome = "running" /\ attempts[NoStep] > 0 =>
    /\ planned = {}
    /\ pc.at # "off" => req.step = NoStep
    /\ \E s \in Steps : Stuck(memo, s) /\ history.throws[s] >= attempts[NoStep]

RetryInv == Calm => ~stale /\ Tried /\ Undisturbed /\ ErrorInv /\ DiscoveryTried

\* User code is shown what the server has.
LEMMA SameState ==
  ASSUME RunTypeOK, Known, \A k \in DOMAIN buffer : memo[buffer[k].step] = "ok",
         \A s \in Steps : stepState[s] = "none" => memo[s] = "none"
  PROVE  memo = stepState
<1>1. memo \in [Steps -> StepValue] /\ stepState \in [Steps -> StepValue]
  BY DEF RunTypeOK, TypeOK
<1>2. \A s \in Steps : memo[s] = stepState[s]
  BY DEF Known
<1>3. QED BY <1>1, <1>2

LEMMA RetriedState ==
  ASSUME RunTypeOK, Known, Buffered, Undisturbed, Running, req.step = NoStep, ~req.die, req.attempt > 0
  PROVE  memo = stepState /\ buffer = <<>>
<1>1. buffer = <<>>
  BY DEF Buffered
<1>2. DOMAIN buffer = {}
  BY <1>1
<1>3. QED BY <1>1, <1>2, SameState DEF Undisturbed

\* A body starts at attempt n when it has thrown n times.
LEMMA BodyBudget ==
  ASSUME RunTypeOK, PromiseInv, FoundInv, ExecInv, RetryInv, Calm, pc.at = "exec"
  PROVE  history.throws[pc.step] >= req.attempt
<1>1. ~stale /\ Tried /\ Undisturbed /\ DiscoveryTried /\ Running
  BY DEF RetryInv, Running
<1>2. Known /\ Buffered /\ EarlyInv /\ outcome = "running"
  BY <1>1 DEF PromiseInv, Server, FoundInv, UserInv
<1>3. /\ pc.step \in Steps /\ history.throws[pc.step] \in Nat /\ req.attempt \in Nat
      /\ req.step \in Steps \cup {NoStep} /\ req.attempt = attempts[req.step]
  <2>1. pc.step \in Steps
    BY RunningStep DEF RunTypeOK
  <2>2. history.throws \in [Steps -> 0 .. MaxAttempts] /\ req \in Request
    BY DEF RunTypeOK, TypeOK, History
  <2>3. QED BY <1>1, <2>1, <2>2, OptionsAssumption DEF Request, Tried
<1>4. CASE req.step # NoStep
  <2>1. pc.step = req.step
    BY <1>2, <1>4 DEF EarlyInv
  <2>2. attempts[pc.step] <= history.throws[pc.step] /\ req.attempt = attempts[pc.step]
    BY <1>1, <1>3, <2>1 DEF Tried
  <2>3. QED BY <1>3, <2>2
<1>5. CASE req.step = NoStep /\ req.attempt > 0
  <2>1. ~req.die /\ Stuck(stepState, pc.step)
    BY <1>1, <1>2, <1>5 DEF EarlyInv, ExecInv
  <2>2. memo = stepState
    BY <1>1, <1>2, <1>5, <2>1, RetriedState
  <2>3. PICK s \in Steps : Stuck(memo, s) /\ history.throws[s] >= attempts[NoStep]
    BY <1>1, <1>2, <1>3, <1>5 DEF DiscoveryTried
  <2>4. s = pc.step
    BY <2>1, <2>2, <2>3, StuckOnce
  <2>5. QED BY <1>3, <1>5, <2>3, <2>4
<1>6. QED BY <1>3, <1>4, <1>5

\* What the engine does to what the invariant speaks of.
LEMMA EngineSame == ASSUME EngineStep PROVE UNCHANGED <<req, stepState, buffer>>
<1>1. CASE UserCalls \/ FunctionReturns \/ FunctionThrows \/ HandleMemoized \/ ReportFound \/ TimerFires
  BY <1>1 DEF UserCalls, FunctionReturns, FunctionThrows, HandleMemoized, ReportFound, TimerFires,
     requestVars, userVars, shipVars
<1>2. CASE ~(UserCalls \/ FunctionReturns \/ FunctionThrows \/ HandleMemoized \/ ReportFound \/ TimerFires)
  BY <1>2 DEF EngineStep, AsyncStepsFound, CheckpointingStepsFound,
     AsyncFunctionResolved, CheckpointingFunctionResolved, ResolvedAs, AsyncFunctionRejected,
     CheckpointingFunctionRejected, StepNotFound, RuntimeReached, BufferIntervalReached,
     requestVars, userVars, shipVars
<1>3. QED BY <1>1, <1>2

\* No step of the engine, before a body or a checkpoint has ended, answers with an error.
EngineGoes ==
  \/ pc' = pc
  \/ pc'.at \in {"loop", "exec"}
  \/ pc'.at = "checkpoint" /\ pc'.then # "stepRan"
  \/ pc.at = "loop" /\ pc'.at = "done" /\ response'.batch.ran \in {<<>>, buffer}

LEMMA EngineGoesOn == ASSUME TypeOK, EngineStep PROVE EngineGoes
<1>1. ASSUME NEW steps, MaybeReturnNewSteps(steps), pc.at = "loop"
      PROVE  EngineGoes
  BY <1>1, MaybeReturnsNothing DEF EngineGoes
<1>2. ASSUME NEW s, StartStep(s)
      PROVE  EngineGoes
  BY <1>2 DEF StartStep, PcAt, EngineGoes
<1>3. ASSUME NEW final, NEW defers, Reject(final, defers), pc.at = "loop"
      PROVE  EngineGoes
  BY <1>3, RejectsWithout DEF EngineGoes
<1>4. ASSUME NEW f, StartCheckpoint([PcAt("loop") EXCEPT !.then = "reject", !.final = f])
      PROVE  EngineGoes
  BY <1>4 DEF StartCheckpoint, PcAt, EngineGoes
<1>5. ASSUME NEW steps, StartCheckpoint([PcAt("loop") EXCEPT !.then = "plan", !.steps = steps])
      PROVE  EngineGoes
  BY <1>5 DEF StartCheckpoint, PcAt, EngineGoes
<1>6. ASSUME StartCheckpoint([PcAt("loop") EXCEPT !.then = "planAll"])
             \/ StartCheckpoint([PcAt("loop") EXCEPT !.then = "loop"])
      PROVE  EngineGoes
  BY <1>6 DEF StartCheckpoint, PcAt, EngineGoes
<1>7. ASSUME pc' = pc
      PROVE  EngineGoes
  BY <1>7 DEF EngineGoes
<1>8. CASE UserCalls \/ FunctionReturns \/ FunctionThrows \/ HandleMemoized \/ ReportFound \/ TimerFires
           \/ RuntimeReached
  <2>1. pc' = pc
    BY <1>8 DEF UserCalls, FunctionReturns, FunctionThrows, HandleMemoized, ReportFound, TimerFires,
       RuntimeReached
  <2>2. QED BY <1>7, <2>1
<1>9. CASE AsyncStepsFound
  <2>1. pc.at = "loop" /\ \E s : StartStep(s) \/ MaybeReturnNewSteps(s)
    BY <1>9 DEF AsyncStepsFound, TakeCheckpoint
  <2>2. QED BY <1>1, <1>2, <2>1
<1>10. CASE CheckpointingStepsFound
  <2> DEFINE steps == Head(queue).steps
             plan == IF exceeded THEN [PcAt("loop") EXCEPT !.then = "planAll"]
                     ELSE [PcAt("loop") EXCEPT !.then = "plan", !.steps = steps]
  <2>1. /\ pc.at = "loop"
        /\ \/ pc' = pc \/ (\E s : StartStep(s) \/ MaybeReturnNewSteps(s))
           \/ StartCheckpoint(plan)
    BY <1>10 DEF CheckpointingStepsFound, TakeCheckpoint
  <2>2. StartCheckpoint(plan) => EngineGoes
    <3>1. CASE exceeded
      BY <1>6, <3>1
    <3>2. CASE ~exceeded
      BY <1>5, <3>2
    <3>3. QED BY <3>1, <3>2
  <2> HIDE DEF plan
  <2>3. QED BY <1>1, <1>2, <1>7, <2>1, <2>2
<1>11. CASE AsyncFunctionResolved \/ AsyncFunctionRejected
  BY <1>11, FunctionEndsEmpty DEF EngineGoes
<1>12. CASE CheckpointingFunctionResolved
  <2> DEFINE planning == [EmptyBatch EXCEPT !.plan = PlannedSteps(found), !.defers = lazy]
             complete == [EmptyBatch EXCEPT !.ran = buffer, !.defers = lazy, !.end = "complete"]
  <2>1. planning.ran = <<>> /\ complete.ran = buffer
    BY BatchFields
  <2>2. pc.at = "loop" /\ (Return("steps-found", planning, FALSE) \/ Return("steps-found", complete, FALSE))
    BY <1>12 DEF CheckpointingFunctionResolved, ResolvedAs, TakeCheckpoint
  <2> HIDE DEF planning, complete
  <2>3. pc' = PcAt("done") /\ response'.batch \in {planning, complete}
    BY <2>2 DEF Return
  <2>4. QED BY <2>1, <2>2, <2>3 DEF EngineGoes, PcAt
<1>13. CASE CheckpointingFunctionRejected
  <2>1. /\ pc.at = "loop"
        /\ \/ StartCheckpoint([PcAt("loop") EXCEPT !.then = "reject", !.final = Head(queue).final])
           \/ Reject(Head(queue).final, {})
    BY <1>13 DEF CheckpointingFunctionRejected, TakeCheckpoint
  <2>2. QED BY <1>3, <1>4, <2>1
<1>14. CASE StepNotFound
  <2>1. pc.at = "loop" /\ Return("step-not-found", EmptyBatch, TRUE) /\ EmptyBatch.ran = <<>>
    BY <1>14, BatchFields DEF StepNotFound, TakeCheckpoint
  <2>2. QED BY <2>1, ReturnsNothing DEF EngineGoes
<1>15. CASE BufferIntervalReached
  BY <1>6, <1>15 DEF BufferIntervalReached
<1>16. QED BY <1>8, <1>9, <1>10, <1>11, <1>12, <1>13, <1>14, <1>15 DEF EngineStep

\* The invariant is about the server's results, the results user code is shown and what
\* the bodies have thrown.
LEMMA StuckSame ==
  ASSUME memo' = memo, NEW s
  PROVE  Stuck(memo, s)' <=> Stuck(memo, s)
BY DEF Stuck, Least, Closed, Passes

LEMMA ChargedSame ==
  ASSUME UNCHANGED <<req, planned, history.throws>>, NEW s
  PROVE  /\ stepState' = stepState => (Charged(stepState, s)' <=> Charged(stepState, s))
         /\ memo' = memo => (Charged(memo, s)' <=> Charged(memo, s))
<1>1. stepState' = stepState => (Stuck(stepState, s)' <=> Stuck(stepState, s))
  BY DEF Stuck, Least, Closed, Passes
<1>2. QED BY <1>1, StuckSame DEF Charged

LEMMA ThrowsType ==
  ASSUME RunTypeOK
  PROVE  /\ history.throws \in [Steps -> Nat] /\ attempts \in [Steps \cup {NoStep} -> Nat]
         /\ req.attempt \in Nat /\ req.step \in Steps \cup {NoStep} /\ req.attempt < MaxAttempts
         /\ MaxAttempts \in Nat /\ faults \in Nat
         /\ memo \in [Steps -> StepValue] /\ stepState \in [Steps -> StepValue]
<1>1. /\ history.throws \in [Steps -> 0 .. MaxAttempts] /\ req \in Request
      /\ attempts \in [Steps \cup {NoStep} -> 0 .. MaxAttempts - 1] /\ MaxAttempts \in Nat
      /\ faults \in 0 .. MaxFaults /\ MaxFaults \in Nat
  BY OptionsAssumption, MaxFaultsAssumption DEF RunTypeOK, TypeOK, History
<1>2. 0 .. MaxAttempts \subseteq Nat /\ 0 .. MaxAttempts - 1 \subseteq Nat
  OBVIOUS
<1>3. history.throws \in [Steps -> Nat] /\ attempts \in [Steps \cup {NoStep} -> Nat]
  BY <1>1, <1>2
<1>4. QED BY <1>1, <1>3 DEF Request, RunTypeOK, TypeOK

\* A step that leaves the server alone.
LEMMA ServerAlone ==
  ASSUME RunTypeOK, RunTypeOK', Calm, RetryInv, Running,
         UNCHANGED <<req, memo, planned, attempts, outcome, stale>>,
         \A s \in Steps : history.throws[s] <= history'.throws[s],
         \A s \in Steps : stepState'[s] = "none" => stepState[s] = "none",
         ErrorInv'
  PROVE  RetryInv'
<1>1. ~stale /\ Tried /\ Undisturbed /\ DiscoveryTried
  BY DEF RetryInv
<1>2. pc.at # "off"
  BY DEF Running
<1>3. /\ history.throws \in [Steps -> Nat] /\ attempts \in [Steps \cup {NoStep} -> Nat]
      /\ history'.throws \in [Steps -> Nat]
  <2>1. history.throws \in [Steps -> Nat] /\ attempts \in [Steps \cup {NoStep} -> Nat]
    BY ThrowsType
  <2>2. history'.throws \in [Steps -> Nat]
    <3>1. history'.throws \in [Steps -> 0 .. MaxAttempts] /\ 0 .. MaxAttempts \subseteq Nat
      BY DEF RunTypeOK, History
    <3>2. QED BY <3>1
  <2>3. QED BY <2>1, <2>2
<1>4. Tried'
  <2>1. \A s \in Steps : attempts'[s] <= history'.throws[s]
    BY <1>1, <1>3 DEF Tried
  <2>2. QED BY <1>1, <1>2, <2>1 DEF Tried
<1>5. Undisturbed'
  BY <1>1 DEF Undisturbed
<1>6. DiscoveryTried'
  <2> SUFFICES ASSUME outcome' = "running", attempts'[NoStep] > 0
               PROVE  /\ planned' = {}
                      /\ pc'.at # "off" => req'.step = NoStep
                      /\ \E s \in Steps : Stuck(memo, s)' /\ history'.throws[s] >= attempts'[NoStep]
    BY DEF DiscoveryTried
  <2>1. planned = {} /\ req.step = NoStep
    BY <1>1, <1>2 DEF DiscoveryTried
  <2>2. PICK s \in Steps : Stuck(memo, s) /\ history.throws[s] >= attempts[NoStep]
    BY <1>1 DEF DiscoveryTried
  <2>3. history'.throws[s] >= attempts'[NoStep]
    BY <1>3, <2>2
  <2>4. Stuck(memo, s)'
    BY <2>2, StuckSame
  <2>5. QED BY <2>1, <2>3, <2>4
<1>7. QED BY <1>1, <1>4, <1>5, <1>6 DEF RetryInv

LEMMA EngineRetry ==
  ASSUME RunTypeOK, RunTypeOK', PromiseInv, RetryInv, Calm, Calm', EngineMoves
  PROVE  RetryInv'
<1>1. /\ EngineStep /\ history' = Observed(history) /\ TypeOK
      /\ UNCHANGED <<memo, planned, attempts, outcome, stale>>
  BY DEF EngineMoves, serverVars, RunTypeOK
<1>2. UNCHANGED <<req, stepState, buffer>> /\ EngineGoes /\ Running
  BY <1>1, EngineSame, EngineGoesOn, EngineLocation
<1>3. history'.throws = history.throws
  BY <1>1 DEF Observed, RunTypeOK, History
<1>4. pc.at = "loop" /\ pc'.at = "done" => response'.type # "step-not-found"
  <2>1. history \in History
    BY DEF RunTypeOK
  <2>2. history'.notFound =
          (history.notFound \/ (pc.at = "loop" /\ pc'.at = "done" /\ response'.type = "step-not-found"))
    BY <1>1, <2>1 DEF Observed, History
  <2>3. QED BY <2>2 DEF Calm
<1>5. ErrorInv'
  <2>1. ASSUME pc'.at = "checkpoint", pc'.then = "stepRan"
        PROVE  /\ StepMode(req)' = "AsyncCheckpointing"
               /\ \A s \in Steps : pc'.kind = "error" /\ pc'.step = s => Charged(stepState, s)'
    <3>1. pc' = pc
      BY <1>2, <2>1 DEF EngineGoes
    <3>2. /\ StepMode(req) = "AsyncCheckpointing"
          /\ \A s \in Steps : pc.kind = "error" /\ pc.step = s => Charged(stepState, s)
      BY <2>1, <3>1 DEF RetryInv, ErrorInv
    <3>3. \A s \in Steps : Charged(stepState, s)' <=> Charged(stepState, s)
      BY <1>1, <1>2, <1>3, ChargedSame
    <3>4. QED BY <1>2, <3>1, <3>2, <3>3 DEF StepMode
  <2>2. ASSUME pc'.at = "done"
        PROVE  response'.type # "step-not-found" /\ \A s \in Steps : ~Answered(s)'
    <3>1. pc.at = "loop" /\ response'.batch.ran \in {<<>>, buffer}
      BY <1>2, <2>2 DEF EngineGoes, Running
    <3>2. AllOk(buffer)
      BY <1>2 DEF RetryInv, PromiseInv, Buffered
    <3>3. DOMAIN <<>> = {}
      OBVIOUS
    <3>4. QED BY <1>4, <2>2, <3>1, <3>2, <3>3 DEF AllOk, Answered
  <2>3. pc'.at # "done" => \A s \in Steps : ~Answered(s)'
    BY DEF Answered
  <2>4. QED BY <2>1, <2>2, <2>3 DEF ErrorInv
<1>6. \A s \in Steps : history.throws[s] <= history'.throws[s]
  <2>1. history.throws \in [Steps -> Nat]
    BY ThrowsType
  <2>2. QED BY <1>3, <2>1
<1>7. QED BY <1>1, <1>2, <1>5, <1>6, ServerAlone

\* A body that succeeds has a result; one that throws leaves what user code is shown.
LEMMA BodyState ==
  ASSUME TypeOK
  PROVE  /\ BodyThrows => stepState' = stepState
         /\ BodySucceeds => \A s \in Steps : stepState'[s] = "none" => stepState[s] = "none"
<1>1. BodyThrows => stepState' = stepState
  BY DEF BodyThrows, AsyncStepEnds, CheckpointingStepThrows, userVars
<1>2. ASSUME BodySucceeds, NEW s \in Steps, stepState'[s] = "none"
      PROVE  stepState[s] = "none"
  <2>1. stepState' = stepState \/ stepState' = [stepState EXCEPT ![pc.step] = "ok"]
    BY <1>2 DEF BodySucceeds, AsyncStepEnds, CheckpointingStepEnds, ResumeUser, userVars
  <2>2. stepState \in [Steps -> StepValue]
    BY DEF TypeOK
  <2>3. QED BY <1>2, <2>1, <2>2
<1>3. QED BY <1>1, <1>2

\* A body that throws has thrown once more than its request had been tried.
LEMMA ThrownMore ==
  ASSUME RunTypeOK, StepThrows, pc.step \in Steps
  PROVE  /\ \A s \in Steps : history.throws[s] <= history'.throws[s]
         /\ history.throws[pc.step] >= req.attempt => history'.throws[pc.step] > req.attempt
<1>1. /\ history.throws \in [Steps -> 0 .. MaxAttempts] /\ MaxAttempts \in Nat
      /\ req.attempt \in Nat /\ req.attempt < MaxAttempts
  BY ThrowsType DEF RunTypeOK, History
<1>2. history'.throws = [history.throws EXCEPT ![pc.step] = Capped(@ + 1, MaxAttempts)]
  BY DEF StepThrows, RunTypeOK, History
<1>3. Capped(history.throws[pc.step] + 1, MaxAttempts) \in Nat
  BY <1>1 DEF Capped
<1>4. /\ Capped(history.throws[pc.step] + 1, MaxAttempts) >= history.throws[pc.step]
      /\ history.throws[pc.step] >= req.attempt =>
           Capped(history.throws[pc.step] + 1, MaxAttempts) > req.attempt
  BY <1>1 DEF Capped
<1>5. \A s \in Steps : history'.throws[s] = IF s = pc.step THEN Capped(history.throws[pc.step] + 1, MaxAttempts)
                                            ELSE history.throws[s]
  BY <1>1, <1>2
<1>6. \A s \in Steps : history.throws[s] \in Nat
  BY <1>1
<1>7. QED BY <1>4, <1>5, <1>6

LEMMA BodyRetry ==
  ASSUME RunTypeOK, RunTypeOK', PromiseInv, FoundInv, ExecInv, RetryInv, Calm, Calm',
         StepSucceeds \/ StepThrows
  PROVE  RetryInv'
<1>1. /\ BodySucceeds \/ BodyThrows
      /\ UNCHANGED <<memo, planned, attempts, outcome, stale>> /\ TypeOK
  BY DEF StepSucceeds, StepThrows, serverVars, RunTypeOK
<1>2. pc.at = "exec" /\ pc.step \in Steps
  BY <1>1, BodyEnds, RunningStep
<1>3. ~stale /\ Undisturbed /\ Running
  BY <1>2 DEF RetryInv, Running
<1>4. RequestInv /\ Known /\ Buffered /\ EarlyInv
  BY <1>3 DEF PromiseInv, RequestInv, FoundInv, UserInv
<1>5. PICK kind \in ResultKind :
        /\ req' = req /\ (BodySucceeds => kind = "ok")
        /\ BodyAnswers(kind) \/ BodyIsBuffered(kind) \/ BodyWaits(kind)
  BY <1>1, <1>4, BodyEndsAs
<1>6. history.throws \in [Steps -> Nat] /\ req.attempt \in Nat
  BY ThrowsType
<1>7. \A s \in Steps : history.throws[s] <= history'.throws[s]
  <2>1. StepSucceeds => history'.throws = history.throws
    BY DEF StepSucceeds, Observed, RunTypeOK, History
  <2>2. StepThrows => \A s \in Steps : history.throws[s] <= history'.throws[s]
    BY <1>2, ThrownMore
  <2>3. QED BY <1>6, <2>1, <2>2
<1>8. \A s \in Steps : stepState'[s] = "none" => stepState[s] = "none"
  BY <1>1, BodyState
<1>9. ASSUME kind = "error"
      PROVE  /\ stepState' = stepState /\ history'.throws[pc.step] > req.attempt
             /\ IF req.step = NoStep THEN planned = {} /\ Stuck(stepState, pc.step) ELSE pc.step = req.step
  <2>1. ~BodySucceeds /\ StepThrows /\ BodyThrows
    BY <1>1, <1>5, <1>9 DEF StepSucceeds
  <2>2. stepState' = stepState /\ history'.throws[pc.step] > req.attempt
    BY <1>1, <1>2, <2>1, BodyState, BodyBudget, ThrownMore
  <2>3. req.step = NoStep => ~req.die /\ planned = {} /\ Stuck(stepState, pc.step)
    BY <1>2, <1>3, <1>4 DEF EarlyInv, Undisturbed, ExecInv
  <2>4. req.step # NoStep => pc.step = req.step
    BY <1>2, <1>4 DEF EarlyInv
  <2>5. QED BY <2>2, <2>3, <2>4
<1>10. ASSUME NEW s \in Steps, s = pc.step, kind = "error"
       PROVE  Charged(stepState, s)' /\ (memo = stepState => Charged(memo, s)')
  <2>1. /\ history'.throws[s] > req'.attempt
        /\ IF req'.step = NoStep THEN planned' = {} /\ Stuck(stepState, s) ELSE s = req'.step
    BY <1>1, <1>5, <1>9, <1>10
  <2>2. Stuck(stepState, s)' <=> Stuck(stepState, s)
    BY <1>9, <1>10 DEF Stuck, Least, Closed, Passes
  <2>3. memo = stepState => (Stuck(memo, s)' <=> Stuck(stepState, s))
    BY <1>1, StuckSame
  <2>4. QED BY <2>1, <2>2, <2>3 DEF Charged
<1>11. ErrorInv'
  <2>1. CASE BodyIsBuffered(kind)
    <3>1. pc'.at # "done" /\ ~(pc'.at = "checkpoint" /\ pc'.then = "stepRan")
      BY <2>1 DEF BodyIsBuffered
    <3>2. QED BY <3>1 DEF ErrorInv, Answered
  <2>2. CASE BodyWaits(kind)
    <3>1. StepMode(req)' = "AsyncCheckpointing" /\ pc'.at # "done" /\ pc'.step = pc.step /\ pc'.kind = kind
      BY <1>5, <2>2 DEF BodyWaits, StepMode
    <3>2. QED BY <1>10, <3>1 DEF ErrorInv, Answered
  <2>3. CASE BodyAnswers(kind)
    <3>1. /\ buffer = <<>> /\ pc'.at = "done" /\ response'.type # "step-not-found"
          /\ response'.batch.ran = <<[step |-> pc.step, kind |-> kind]>>
      BY <2>3 DEF BodyAnswers
    <3>2. ASSUME kind = "error", req.step = NoStep
          PROVE  memo = stepState
      <4>1. ~req.die
        BY <1>2, <1>4, <3>2 DEF EarlyInv
      <4>2. DOMAIN buffer = {}
        BY <3>1
      <4>3. QED BY <1>3, <1>4, <3>2, <4>1, <4>2, SameState DEF Undisturbed
    <3>3. ASSUME NEW s \in Steps, Answered(s)'
          PROVE  s = pc.step /\ kind = "error"
      <4>1. PICK i \in DOMAIN response'.batch.ran :
              response'.batch.ran[i].step = s /\ response'.batch.ran[i].kind = "error"
        BY <3>3 DEF Answered
      <4>2. QED BY <3>1, <4>1
    <3>4. ASSUME NEW s \in Steps, Answered(s)'
          PROVE  Charged(memo, s)'
      <4>1. s = pc.step /\ kind = "error"
        BY <3>3, <3>4
      <4>2. CASE req.step = NoStep
        BY <1>10, <3>2, <4>1, <4>2
      <4>3. CASE req.step # NoStep
        BY <1>1, <1>5, <1>9, <4>1, <4>3 DEF Charged
      <4>4. QED BY <4>2, <4>3
    <3>5. QED BY <3>1, <3>4 DEF ErrorInv
  <2>4. QED BY <1>5, <2>1, <2>2, <2>3
<1>12. QED BY <1>1, <1>3, <1>5, <1>7, <1>8, <1>11, ServerAlone

LEMMA ContinueFinds ==
  ASSUME Continue
  PROVE  pc'.at = "done" => response'.type # "step-not-found"
<1>1. \A type, batch, retriable : Return(type, batch, retriable) => response'.type = type
  BY DEF Return
<1>2. ASSUME NEW steps, MaybeReturnNewSteps(steps)
      PROVE  pc'.at = "loop" \/ response'.type = "steps-found"
  <2>1. pc' = PcAt("loop") \/ \E batch : Return("steps-found", batch, FALSE)
    BY <1>2 DEF MaybeReturnNewSteps
  <2>2. PcAt("loop").at = "loop"
    BY DEF PcAt
  <2>3. CASE pc' = PcAt("loop")
    BY <2>2, <2>3
  <2>4. CASE \E batch : Return("steps-found", batch, FALSE)
    BY <1>1, <2>4
  <2>5. QED BY <2>1, <2>3, <2>4
<1>3. \A result : StepRan(result) => response'.type = "step-ran"
  BY <1>1 DEF StepRan
<1>4. \A final, defers : Reject(final, defers) => response'.type \in {"function-rejected", "steps-found"}
  BY <1>1 DEF Reject
<1>5. PcAt("loop").at = "loop"
  BY DEF PcAt
<1>6. QED BY <1>2, <1>3, <1>4, <1>5 DEF Continue

LEMMA CheckpointRetry ==
  ASSUME RunTypeOK, RunTypeOK', PromiseInv, RetryInv, Calm, CheckpointOk
  PROVE  RetryInv'
<1>1. /\ Continue /\ recorded /\ pc.at = "checkpoint"
      /\ UNCHANGED <<req, stepState, memo, planned, attempts, outcome, stale, history>>
  BY DEF CheckpointOk, CheckpointSucceeds, serverVars, requestVars, userVars
<1>2. ~stale /\ Undisturbed /\ ErrorInv /\ Running
  BY <1>1 DEF RetryInv, Running
<1>3. Known /\ Buffered
  BY <1>2 DEF PromiseInv
<1>4. ErrorInv'
  <2>1. pc'.at \in {"loop", "done"} /\ (pc'.at = "done" => response'.type # "step-not-found")
    BY <1>1, ContinueLocation, ContinueFinds
  <2>2. ASSUME NEW s \in Steps, Answered(s)'
        PROVE  Charged(memo, s)'
    <3>1. pc'.at = "done" /\ \E i \in DOMAIN response'.batch.ran :
            response'.batch.ran[i].step = s /\ response'.batch.ran[i].kind = "error"
      BY <2>2 DEF Answered
    <3>2. CASE response'.batch.ran = <<>>
      <4>1. DOMAIN response'.batch.ran = {}
        BY <3>2
      <4>2. QED BY <3>1, <4>1
    <3>3. CASE pc.then = "stepRan" /\ response'.batch.ran = <<[step |-> pc.step, kind |-> pc.kind]>>
      <4>1. pc.step = s /\ pc.kind = "error"
        BY <3>1, <3>3
      <4>2. Charged(stepState, s) /\ StepMode(req) = "AsyncCheckpointing"
        BY <1>1, <1>2, <3>3, <4>1 DEF ErrorInv
      <4>3. memo = stepState
        BY <1>1, <1>2, <1>3, <4>2, SameState DEF Undisturbed, StepMode, Buffered
      <4>4. Charged(memo, s)
        BY <4>2, <4>3
      <4>5. QED BY <1>1, <4>4, ChargedSame
    <3>4. QED BY <1>1, <3>1, <3>2, <3>3, ContinueAnswers DEF CheckpointAnswers
  <2>3. QED BY <2>1, <2>2 DEF ErrorInv
<1>5. \A s \in Steps : history.throws[s] <= history'.throws[s]
  <2>1. history.throws \in [Steps -> Nat]
    BY ThrowsType
  <2>2. QED BY <1>1, <2>1
<1>6. QED BY <1>1, <1>2, <1>4, <1>5, ServerAlone

LEMMA RecordRetry ==
  ASSUME RunTypeOK, RunTypeOK', PromiseInv, RetryInv, Calm, RecordCheckpoint
  PROVE  RetryInv'
<1>1. /\ pc.at = "checkpoint" /\ RecordResults(CheckpointBatch) /\ CheckpointBatch.ran = buffer
      /\ UNCHANGED <<req, pc, stepState, response, planned, attempts, outcome, stale, history>>
  BY BatchFields DEF RecordCheckpoint, CheckpointBatch, engineVars, requestVars, userVars
<1>2. ~stale /\ Tried /\ Undisturbed /\ ErrorInv /\ DiscoveryTried /\ Running
  BY <1>1 DEF RetryInv, Running
<1>3. Known /\ Buffered
  BY <1>2 DEF PromiseInv
<1>4. \A s \in Steps : memo'[s] # memo[s] => \E k \in DOMAIN buffer : buffer[k].step = s
  <2>1. CheckpointBatch \in Batch
    BY EmptyBatchType DEF CheckpointBatch, Batch, RunTypeOK, TypeOK, Pc
  <2>2. InOrder(memo, buffer) /\ AllOk(buffer)
    BY <1>3 DEF Buffered
  <2>3. QED BY <1>1, <2>1, <2>2, Recording DEF PromiseInv
<1>5. Undisturbed'
  <2>1. \A s \in Steps : stepState[s] = "none" => memo'[s] = memo[s]
    BY <1>3, <1>4 DEF Known
  <2>2. QED BY <1>1, <1>2, <2>1 DEF Undisturbed, Running
<1>6. Tried'
  BY <1>1, <1>2 DEF Tried
<1>7. ErrorInv'
  <2>1. \A s \in Steps : Charged(stepState, s)' <=> Charged(stepState, s)
    BY <1>1, ChargedSame
  <2>2. pc'.at # "done" /\ StepMode(req)' = StepMode(req)
    BY <1>1 DEF StepMode
  <2>3. QED BY <1>1, <1>2, <2>1, <2>2 DEF ErrorInv, Answered
<1>8. DiscoveryTried'
  <2> SUFFICES ASSUME outcome' = "running", attempts'[NoStep] > 0
               PROVE  /\ planned' = {}
                      /\ pc'.at # "off" => req'.step = NoStep
                      /\ \E s \in Steps : Stuck(memo, s)' /\ history'.throws[s] >= attempts'[NoStep]
    BY DEF DiscoveryTried
  <2>1. planned = {} /\ req.step = NoStep
    BY <1>1, <1>2 DEF DiscoveryTried
  <2>2. req.attempt > 0
    BY <1>1, <1>2, <2>1 DEF Tried
  <2>3. memo' = memo
    BY <1>1, <1>3, <2>2, RecordsNothing DEF Buffered
  <2>4. PICK s \in Steps : Stuck(memo, s) /\ history.throws[s] >= attempts[NoStep]
    BY <1>1, <1>2 DEF DiscoveryTried
  <2>5. Stuck(memo, s)'
    BY <2>3, <2>4, StuckSame
  <2>6. QED BY <1>1, <2>1, <2>4, <2>5
<1>9. QED BY <1>1, <1>2, <1>5, <1>6, <1>7, <1>8 DEF RetryInv

\* A wait ends only beside requests that are not tried again.
LEMMA WaitRetry ==
  ASSUME RunTypeOK, RetryInv, Calm, NEW w \in Waits, WaitEnds(w)
  PROVE  RetryInv'
<1>1. /\ w \in planned /\ outcome = "running"
      /\ UNCHANGED <<req, pc, stepState, response, attempts, outcome, stale, history>>
  BY DEF WaitEnds, engineVars, requestVars, userVars
<1>2. ~stale /\ Tried /\ Undisturbed /\ ErrorInv /\ DiscoveryTried
  BY DEF RetryInv
<1>3. Tried'
  BY <1>1, <1>2 DEF Tried
<1>4. Undisturbed' /\ DiscoveryTried'
  BY <1>1, <1>2 DEF Undisturbed, DiscoveryTried, Running
<1>5. ErrorInv'
  <2>1. ASSUME NEW s \in Steps, NEW m, Charged(m, s)
        PROVE  /\ history'.throws[s] > req'.attempt /\ req'.step # NoStep /\ s = req'.step
    BY <1>1, <2>1 DEF Charged
  <2>2. \A s \in Steps : Charged(stepState, s) => Charged(stepState, s)'
    BY <2>1 DEF Charged
  <2>3. \A s \in Steps : Charged(memo, s) => Charged(memo, s)'
    BY <2>1 DEF Charged
  <2>4. StepMode(req)' = StepMode(req) /\ \A s : Answered(s)' <=> Answered(s)
    BY <1>1 DEF StepMode, Answered
  <2>5. QED BY <1>1, <1>2, <2>2, <2>3, <2>4 DEF ErrorInv
<1>6. QED BY <1>1, <1>2, <1>3, <1>4, <1>5 DEF RetryInv

LEMMA DispatchRetry ==
  ASSUME RunTypeOK, PromiseInv, RetryInv, Calm, Dispatch
  PROVE  RetryInv'
<1>1. /\ stepState' = memo /\ pc' = PcAt("loop") /\ stale' = FALSE /\ pc.at = "off"
      /\ UNCHANGED <<memo, planned, attempts, outcome>>
  BY DEF Dispatch, StartRequest, serverVars
<1>2. PICK item \in (planned \ Waits) \cup (IF discovery > 0 THEN {NoStep} ELSE {}) :
        req' = [step |-> item, attempt |-> attempts[item], die |-> planned # {}]
  BY DEF Dispatch, StartRequest
<1>3. history'.throws = history.throws
  BY DEF Dispatch, RunTypeOK, History
<1>4. pc'.at = "loop" /\ Tried /\ DiscoveryTried
  BY <1>1 DEF PcAt, RetryInv
<1>5. Tried'
  BY <1>1, <1>2, <1>3, <1>4 DEF Tried
<1>6. Undisturbed'
  BY <1>1, <1>2 DEF Undisturbed
<1>7. ErrorInv'
  BY <1>4 DEF ErrorInv, Answered
<1>8. DiscoveryTried'
  <2> SUFFICES ASSUME outcome' = "running", attempts'[NoStep] > 0
               PROVE  /\ planned' = {}
                      /\ pc'.at # "off" => req'.step = NoStep
                      /\ \E s \in Steps : Stuck(memo, s)' /\ history'.throws[s] >= attempts'[NoStep]
    BY DEF DiscoveryTried
  <2>1. planned = {} /\ req'.step = NoStep
    BY <1>1, <1>2, <1>4 DEF DiscoveryTried
  <2>2. PICK s \in Steps : Stuck(memo, s) /\ history.throws[s] >= attempts[NoStep]
    BY <1>1, <1>4 DEF DiscoveryTried
  <2>3. Stuck(memo, s)'
    BY <1>1, <2>2, StuckSame
  <2>4. QED BY <1>1, <1>3, <2>1, <2>2, <2>3
<1>9. QED BY <1>1, <1>5, <1>6, <1>7, <1>8 DEF RetryInv

\* A queue item is tried again only when the step it was for, or the one step user code
\* waits for, has thrown.
LEMMA ApplyRetry ==
  ASSUME RunTypeOK, RunTypeOK', PromiseInv, RejectInv, RetryInv, Calm, ApplyResponse
  PROVE  RetryInv'
<1> DEFINE batch == response.batch
           item == req.step
           thrown == \E i \in DOMAIN batch.ran : batch.ran[i].kind = "error"
<1>1. pc.at = "done" /\ pc' = PcAt("off") /\ UNCHANGED <<req, stale, history>>
  BY DEF ApplyResponse, requestVars
<1>2. ~stale /\ Tried /\ ErrorInv /\ DiscoveryTried
  BY DEF RetryInv
<1>3. pc'.at = "off"
  BY <1>1 DEF PcAt
<1>4. Undisturbed' /\ ErrorInv'
  BY <1>3 DEF Undisturbed, ErrorInv, Answered, Running
<1>5. /\ item \in Steps \cup {NoStep} /\ history.throws \in [Steps -> Nat]
      /\ attempts \in [Steps \cup {NoStep} -> Nat] /\ memo \in [Steps -> StepValue]
      /\ outcome = "running" /\ req.attempt = attempts[item]
  <2>1. outcome = "running"
    BY <1>1 DEF PromiseInv, Server
  <2>2. QED BY <1>1, <1>2, <2>1, ThrowsType DEF Tried
<1>6. item # NoStep => attempts[NoStep] = 0
  <2>1. attempts[NoStep] > 0 => item = NoStep
    BY <1>1, <1>2, <1>5 DEF DiscoveryTried
  <2>2. QED BY <1>5, <2>1
<1>7. CASE batch.end \in {"complete", "failed"}
  <2>1. outcome' # "running" /\ attempts' = attempts
    BY <1>2, <1>7 DEF ApplyResponse
  <2>2. QED BY <1>1, <1>2, <1>3, <1>4, <2>1 DEF RetryInv, Tried, DiscoveryTried
<1>8. CASE batch.end \notin {"complete", "failed"} /\ ~thrown
  <2>1. response.type # "step-not-found" /\ batch.end # "error"
    BY <1>1, <1>2 DEF ErrorInv, RejectInv
  <2>2. attempts' = [attempts EXCEPT ![item] = 0]
    BY <1>2, <1>8, <2>1 DEF ApplyResponse
  <2>3. attempts'[NoStep] = 0
    BY <1>5, <1>6, <2>2
  <2>4. Tried'
    BY <1>1, <1>2, <1>3, <1>5, <2>2 DEF Tried
  <2>5. DiscoveryTried'
    BY <2>3 DEF DiscoveryTried
  <2>6. QED BY <1>1, <1>2, <1>4, <2>4, <2>5 DEF RetryInv
<1>9. CASE batch.end \notin {"complete", "failed"} /\ thrown
  <2>1. RecordResults(batch) /\ Retry(item) /\ planned' = planned
    BY <1>2, <1>9 DEF ApplyResponse
  <2>2. PICK i \in DOMAIN batch.ran : batch.ran[i].kind = "error"
    BY <1>9
  <2>3. PICK s \in Steps : s = batch.ran[i].step
    <3>1. batch.ran \in Seq(Result)
      BY DEF RunTypeOK, TypeOK, Response, Batch
    <3>2. QED BY <3>1, ResultFields
  <2>4. Charged(memo, s)
    BY <1>1, <1>2, <2>2, <2>3 DEF ErrorInv, Answered
  <2>5. memo' = memo
    <3>1. NewResults(batch.ran) = <<>> /\ DOMAIN <<>> = {}
      BY <2>2 DEF NewResults
    <3>2. memo' = [t \in Steps |-> memo[t]]
      BY <2>1, <3>1 DEF RecordResults
    <3>3. QED BY <1>5, <3>2
  <2>6. CASE attempts[item] + 1 < MaxAttempts
    <3>1. attempts' = [attempts EXCEPT ![item] = @ + 1]
      BY <2>1, <2>6 DEF Retry
    <3>2. history.throws[s] >= attempts[item] + 1
      BY <1>5, <2>4 DEF Charged
    <3>3. Tried'
      <4>1. ASSUME NEW t \in Steps
            PROVE  attempts'[t] <= history.throws[t]
        <5>1. CASE t = item
          <6>1. s = item
            BY <2>4, <5>1, NoStepAssumption DEF Charged
          <6>2. QED BY <1>5, <3>1, <3>2, <5>1, <6>1
        <5>2. CASE t # item
          BY <1>2, <1>5, <3>1, <5>2 DEF Tried
        <5>3. QED BY <5>1, <5>2
      <4>2. QED BY <1>1, <1>3, <4>1 DEF Tried
    <3>4. DiscoveryTried'
      <4>1. CASE item # NoStep
        <5>1. attempts'[NoStep] = 0
          BY <1>5, <1>6, <3>1, <4>1
        <5>2. QED BY <5>1 DEF DiscoveryTried
      <4>2. CASE item = NoStep
        <5>1. planned' = {} /\ Stuck(memo, s)
          BY <2>1, <2>4, <4>2 DEF Charged
        <5>2. Stuck(memo, s)'
          BY <2>5, <5>1, StuckSame
        <5>3. history'.throws[s] >= attempts'[NoStep]
          BY <1>1, <1>5, <3>1, <3>2, <4>2
        <5>4. QED BY <1>3, <5>1, <5>2, <5>3 DEF DiscoveryTried
      <4>3. QED BY <4>1, <4>2
    <3>5. QED BY <1>1, <1>2, <1>4, <3>3, <3>4 DEF RetryInv
  <2>7. CASE ~(attempts[item] + 1 < MaxAttempts)
    <3>1. outcome' # "running" /\ attempts' = attempts
      BY <2>1, <2>7 DEF Retry
    <3>2. QED BY <1>1, <1>2, <1>3, <1>4, <3>1 DEF RetryInv, Tried, DiscoveryTried
  <2>8. QED BY <2>6, <2>7
<1>10. QED BY <1>7, <1>8, <1>9

LEMMA RetryStep ==
  ASSUME RunTypeOK, RunTypeOK', PromiseInv, FoundInv, ExecInv, RejectInv, RetryInv, [Next]_vars
  PROVE  RetryInv'
<1> SUFFICES ASSUME Calm' PROVE RetryInv'
  BY DEF RetryInv
<1>1. faults \in Nat /\ history \in History
  BY ThrowsType DEF RunTypeOK
<1>2. ~(CheckpointLost \/ Crash \/ GiveUp)
  BY <1>1 DEF CheckpointLost, Crash, GiveUp, Fault, Calm
<1>3. Calm
  <2>1. CASE EngineMoves \/ StepSucceeds
    BY <1>1, <2>1 DEF EngineMoves, StepSucceeds, Observed, Calm, History
  <2>2. CASE StepThrows \/ Dispatch
    BY <1>1, <2>2 DEF StepThrows, Dispatch, Calm, History
  <2>3. CASE UNCHANGED <<faults, history>>
    BY <2>3 DEF Calm
  <2>4. UNCHANGED <<faults, history>> \/ EngineMoves \/ StepSucceeds \/ StepThrows \/ Dispatch
    BY <1>2 DEF Next, RecordCheckpoint, CheckpointOk, CheckpointRefused, ApplyResponse, WaitEnds, Ended, vars
  <2>5. QED BY <2>1, <2>2, <2>3, <2>4
<1>4. CASE Ended \/ UNCHANGED vars
  <2>1. /\ UNCHANGED <<req, pc, stepState, response, memo, planned, attempts, outcome, stale, history>>
        /\ ~stale /\ Tried /\ Undisturbed /\ ErrorInv /\ DiscoveryTried
    BY <1>3, <1>4 DEF Ended, vars, engineVars, requestVars, userVars, serverVars, RetryInv
  <2>2. Tried' /\ Undisturbed'
    BY <2>1 DEF Tried, Undisturbed, Running
  <2>3. ErrorInv'
    <3>1. \A s \in Steps : /\ Charged(stepState, s)' <=> Charged(stepState, s)
                           /\ Charged(memo, s)' <=> Charged(memo, s)
      BY <2>1, ChargedSame
    <3>2. StepMode(req)' = StepMode(req) /\ \A s : Answered(s)' <=> Answered(s)
      BY <2>1 DEF StepMode, Answered
    <3>3. QED BY <2>1, <3>1, <3>2 DEF ErrorInv
  <2>4. DiscoveryTried'
    <3>1. \A s \in Steps : Stuck(memo, s)' <=> Stuck(memo, s)
      BY <2>1, StuckSame
    <3>2. QED BY <2>1, <3>1 DEF DiscoveryTried
  <2>5. QED BY <2>1, <2>2, <2>3, <2>4 DEF RetryInv
<1>5. CASE EngineMoves
  BY <1>3, <1>5, EngineRetry
<1>6. CASE StepSucceeds \/ StepThrows
  BY <1>3, <1>6, BodyRetry
<1>7. CASE Dispatch
  BY <1>3, <1>7, DispatchRetry
<1>8. CASE ApplyResponse
  BY <1>3, <1>8, ApplyRetry
<1>9. CASE RecordCheckpoint \/ CheckpointOk
  BY <1>3, <1>9, RecordRetry, CheckpointRetry
<1>10. CASE \E w \in Waits : WaitEnds(w)
  BY <1>3, <1>10, WaitRetry
<1>11. CASE CheckpointRefused
  BY <1>3, <1>11 DEF CheckpointRefused, RetryInv
<1>12. QED BY <1>2, <1>4, <1>5, <1>6, <1>7, <1>8, <1>9, <1>10, <1>11 DEF Next

\* Without faults a step's body starts at attempt n only when it has thrown n times: a
\* discovery request that is tried again comes to the step whose error it answered with,
\* and every other step starts afresh.  Of user code that never has two steps under way,
\* or that reports together all the steps it reaches.
THEOREM RetryBudgetKept == ReportsTogether => (Spec => []FullRetryBudget)
<1> SUFFICES ASSUME ReportsTogether PROVE Spec => []FullRetryBudget
  OBVIOUS
<1>1. CASE MayThrow
  <2>1. FullRetryBudget
    BY <1>1 DEF FullRetryBudget
  <2>2. QED BY <1>1, <2>1, PTL
<1>2. CASE ~MayThrow
  <2>1. Spec => []RejectInv
    BY <1>2, RejectHolds
  <2>2. Spec => []ExecInv
    BY ExecHolds
  <2>3. Init => RetryInv
    <3>1. ASSUME Init
          PROVE  /\ pc.at = "off" /\ stale = FALSE /\ \A i \in Steps \cup {NoStep} : attempts[i] = 0
                 /\ \A s \in Steps : history.throws[s] = 0
      BY <3>1 DEF Init, PcAt
    <3>2. QED BY <3>1 DEF RetryInv, Tried, Undisturbed, ErrorInv, Answered, DiscoveryTried, Running
  <2>4. RunTypeOK /\ RunTypeOK' /\ PromiseInv /\ FoundInv /\ ExecInv /\ RejectInv /\ RetryInv /\ [Next]_vars
          => RetryInv'
    BY RetryStep
  <2>5. RunTypeOK /\ PromiseInv /\ FoundInv /\ ExecInv /\ RetryInv => FullRetryBudget
    BY BodyBudget DEF FullRetryBudget, Calm
  <2>6. QED BY <2>1, <2>2, <2>3, <2>4, <2>5, PromiseHolds, FoundHolds, PTL DEF Spec
<1>3. QED BY <1>1, <1>2

-----------------------------------------------------------------------------
(***************************************************************************)
(* Replay.  The order in which prompt user code sees results is decided by *)
(* the order in which the server records them: it always sees the first    *)
(* one that it can ask for.  Results are only ever recorded behind those   *)
(* that are recorded or buffered, so what user code has seen it will see   *)
(* again, in the same order.                                               *)
(***************************************************************************)
StepsOf(ran) == [k \in DOMAIN ran |-> ran[k].step]

\* The results in the order of the server: those buffered will be behind those recorded.
Pending == IF recorded \/ ~Running THEN <<>> ELSE StepsOf(buffer)
Completes == completion \o Pending

\* What user code can ask for once it has been shown some results, m being all there are.
Open(m, shown) ==
  {s \in Steps \ shown : \E A \in CallAfter[s] : \A x \in A : x \in shown /\ (m[x] # "err" \/ x \in Caught)}

FirstOf(done, open, s) ==
  \E i \in DOMAIN done : done[i] = s /\ s \in open /\ \A j \in 1 .. i - 1 : done[j] \notin open

Before(seen, n) == {seen[k] : k \in 1 .. n - 1}

\* User code has seen the first result it could ask for, each time.
Greedy(done, m, seen) == \A n \in DOMAIN seen : FirstOf(done, Open(m, Before(seen, n)), seen[n])

\* The run goes on, and the answer that ends it is not under way.
Ongoing == outcome = "running" /\ ~(pc.at = "done" /\ response.batch.end = "complete")

\* A request shows user code again what it has seen.
Shown == \A i \in DOMAIN resolved : i \in DOMAIN history.seen /\ history.seen[i] = resolved[i]

\* What user code has seen is kept, and is what it sees again.
Remembered == \A n \in DOMAIN history.seen : memo[history.seen[n]] # "none" \/ (Running /\ InBuffer(history.seen[n]))
Replayed == Ongoing => Remembered /\ Greedy(Completes, memo, history.seen)

\* A request is sent with all there is, and one that checkpoints with all there will be but its own.
Served ==
  Running =>
    /\ \A i \in DOMAIN order : i \in DOMAIN completion /\ completion[i] = order[i]
    /\ StepMode(req) = "AsyncCheckpointing" => \A s \in Steps : memo[s] # "none" => stepState[s] # "none"

SeenInv == faults = 0 => Shown /\ Replayed /\ Served

LEMMA GreedyMore ==
  ASSUME NEW done \in Seq(Steps), NEW more, NEW m, NEW m2, NEW seen \in Seq(Steps),
         \A i \in DOMAIN done : i \in DOMAIN more /\ more[i] = done[i],
         \A n \in DOMAIN seen : m2[seen[n]] = "err" <=> m[seen[n]] = "err",
         Greedy(done, m, seen)
  PROVE  Greedy(more, m2, seen)
<1> SUFFICES ASSUME NEW n \in DOMAIN seen PROVE FirstOf(more, Open(m2, Before(seen, n)), seen[n])
  BY DEF Greedy
<1>1. \A x \in Before(seen, n) : m2[x] = "err" <=> m[x] = "err"
  <2>1. \A k \in 1 .. n - 1 : k \in DOMAIN seen
    OBVIOUS
  <2>2. QED BY <2>1 DEF Before
<1>2. Open(m2, Before(seen, n)) = Open(m, Before(seen, n))
  BY <1>1 DEF Open
<1>3. PICK i \in DOMAIN done : /\ done[i] = seen[n] /\ seen[n] \in Open(m, Before(seen, n))
                               /\ \A j \in 1 .. i - 1 : done[j] \notin Open(m, Before(seen, n))
  BY DEF Greedy, FirstOf
<1>4. \A j \in 1 .. i - 1 : j \in DOMAIN done
  OBVIOUS
<1>5. QED BY <1>2, <1>3, <1>4 DEF FirstOf

LEMMA FirstOnce ==
  ASSUME NEW done \in Seq(Steps), NEW open, NEW s, NEW t, FirstOf(done, open, s), FirstOf(done, open, t)
  PROVE  s = t
<1>1. PICK i \in DOMAIN done : done[i] = s /\ s \in open /\ \A j \in 1 .. i - 1 : done[j] \notin open
  BY DEF FirstOf
<1>2. PICK k \in DOMAIN done : done[k] = t /\ t \in open /\ \A j \in 1 .. k - 1 : done[j] \notin open
  BY DEF FirstOf
<1>3. i \in Nat /\ k \in Nat /\ 1 <= i /\ 1 <= k
  OBVIOUS
<1>4. ~(i < k) /\ ~(k < i)
  BY <1>1, <1>2, <1>3
<1>5. QED BY <1>1, <1>2, <1>3, <1>4

\* User code is shown the first result it can ask for: it has seen it then before, or has seen
\* nothing else since.
LEMMA ShowsFirst ==
  ASSUME NEW done \in Seq(Steps), NEW m, NEW seen \in Seq(Steps), NEW shown \in Seq(Steps),
         NEW s \in Steps,
         \A i \in DOMAIN shown : i \in DOMAIN seen /\ seen[i] = shown[i],
         Greedy(done, m, seen), FirstOf(done, Open(m, ToSet(shown)), s)
  PROVE  LET more == IF s \in ToSet(seen) THEN seen ELSE Append(seen, s)
         IN /\ Greedy(done, m, more)
            /\ \A i \in DOMAIN Append(shown, s) : i \in DOMAIN more /\ more[i] = Append(shown, s)[i]
<1> DEFINE n == Len(shown) + 1
           more == IF s \in ToSet(seen) THEN seen ELSE Append(seen, s)
<1>1. /\ n - 1 = Len(shown) /\ n \in Nat /\ n >= 1 /\ DOMAIN shown = 1 .. n - 1
      /\ DOMAIN seen = 1 .. Len(seen) /\ Len(seen) \in Nat
      /\ DOMAIN Append(shown, s) = 1 .. n /\ Append(shown, s)[n] = s
      /\ \A i \in 1 .. n - 1 : Append(shown, s)[i] = shown[i]
  OBVIOUS
<1>2. n - 1 <= Len(seen)
  <2>1. CASE n = 1
    BY <1>1, <2>1
  <2>2. CASE n # 1
    <3>1. n - 1 \in 1 .. n - 1
      BY <1>1, <2>2
    <3>2. n - 1 \in DOMAIN seen
      BY <1>1, <3>1
    <3>3. QED BY <1>1, <3>2
  <2>3. QED BY <2>1, <2>2
<1>3. Before(seen, n) = ToSet(shown)
  BY <1>1 DEF Before, ToSet
<1>4. s \notin ToSet(shown)
  BY DEF FirstOf, Open
<1> HIDE DEF n
<1>5. CASE n \in DOMAIN seen
  <2>1. seen[n] = s
    <3>1. FirstOf(done, Open(m, ToSet(shown)), seen[n])
      BY <1>3, <1>5 DEF Greedy
    <3>2. QED BY <3>1, FirstOnce
  <2>2. more = seen
    BY <1>5, <2>1 DEF ToSet
  <2>3. \A i \in 1 .. n : i \in DOMAIN seen /\ seen[i] = Append(shown, s)[i]
    <3> TAKE i \in 1 .. n
    <3>1. CASE i = n
      BY <1>1, <1>5, <2>1, <3>1
    <3>2. CASE i # n
      <4>1. i \in 1 .. n - 1
        BY <1>1, <3>2
      <4>2. QED BY <1>1, <4>1
    <3>3. QED BY <3>1, <3>2
  <2>4. QED BY <1>1, <2>2, <2>3
<1>6. CASE n \notin DOMAIN seen
  <2>1. Len(seen) = n - 1
    BY <1>1, <1>2, <1>6
  <2>2. ToSet(seen) = ToSet(shown)
    BY <1>1, <2>1 DEF ToSet
  <2>3. more = Append(seen, s)
    BY <1>4, <2>2
  <2>4. /\ DOMAIN Append(seen, s) = 1 .. n /\ Append(seen, s)[n] = s
        /\ \A i \in 1 .. n - 1 : Append(seen, s)[i] = seen[i] /\ i \in DOMAIN seen
    BY <1>1, <2>1
  <2> HIDE DEF more
  <2>5. /\ DOMAIN more = 1 .. n /\ more[n] = s
        /\ \A i \in 1 .. n - 1 : more[i] = seen[i] /\ i \in DOMAIN seen
    BY <2>3, <2>4
  <2>6. Greedy(done, m, more)
    <3> SUFFICES ASSUME NEW k \in 1 .. n PROVE FirstOf(done, Open(m, Before(more, k)), more[k])
      BY <2>5 DEF Greedy
    <3>1. Before(more, k) = Before(seen, k)
      <4>1. \A j \in 1 .. k - 1 : more[j] = seen[j]
        BY <1>1, <2>5
      <4>2. QED BY <4>1 DEF Before
    <3>2. CASE k = n
      BY <1>3, <2>5, <3>1, <3>2
    <3>3. CASE k # n
      <4>1. k \in 1 .. n - 1
        BY <1>1, <3>3
      <4>2. k \in DOMAIN seen /\ more[k] = seen[k]
        BY <2>5, <4>1
      <4>3. QED BY <3>1, <4>2 DEF Greedy
    <3>4. QED BY <3>2, <3>3
  <2>7. \A i \in 1 .. n : i \in DOMAIN more /\ more[i] = Append(shown, s)[i]
    BY <1>1, <2>5
  <2>8. QED BY <1>1, <2>6, <2>7 DEF more
<1>7. QED BY <1>5, <1>6

\* The operators above, of this program.
LEMMA PendingType ==
  ASSUME RunTypeOK
  PROVE  /\ StepsOf(buffer) \in Seq(Steps) /\ Pending \in Seq(Steps) /\ Completes \in Seq(Steps)
         /\ DOMAIN StepsOf(buffer) = DOMAIN buffer
         /\ \A i \in DOMAIN completion : i \in DOMAIN Completes /\ Completes[i] = completion[i]
         /\ \A i \in DOMAIN Completes :
              \/ i \in DOMAIN completion
              \/ ~recorded /\ Running /\ InBuffer(Completes[i])
<1>1. completion \in Seq(Steps) /\ buffer \in Seq(Result)
  BY DEF RunTypeOK, TypeOK
<1>2. DOMAIN buffer = 1 .. Len(buffer) /\ Len(buffer) \in Nat /\ \A k \in DOMAIN buffer : buffer[k].step \in Steps
  BY <1>1, ResultFields
<1>3. StepsOf(buffer) \in Seq(Steps) /\ Len(StepsOf(buffer)) = Len(buffer)
      /\ DOMAIN StepsOf(buffer) = DOMAIN buffer
      /\ \A k \in DOMAIN buffer : StepsOf(buffer)[k] = buffer[k].step
  <2>1. StepsOf(buffer) \in [1 .. Len(buffer) -> Steps]
    BY <1>2 DEF StepsOf
  <2>2. StepsOf(buffer) \in Seq(Steps)
    BY <1>2, <2>1
  <2>3. QED BY <1>2, <2>1, <2>2 DEF StepsOf
<1>4. Pending \in Seq(Steps) /\ (Pending # <<>> => ~recorded /\ Running /\ Pending = StepsOf(buffer))
  BY <1>3 DEF Pending
<1>5. /\ Completes \in Seq(Steps) /\ DOMAIN Completes = 1 .. Len(completion) + Len(Pending)
      /\ \A i \in DOMAIN completion : i \in DOMAIN Completes /\ Completes[i] = completion[i]
      /\ \A i \in DOMAIN Completes : i \in DOMAIN completion
           \/ (i - Len(completion) \in DOMAIN Pending /\ Completes[i] = Pending[i - Len(completion)])
  BY <1>1, <1>4 DEF Completes
<1>6. ASSUME NEW i \in DOMAIN Completes, i \notin DOMAIN completion
      PROVE  ~recorded /\ Running /\ InBuffer(Completes[i])
  <2>1. i - Len(completion) \in DOMAIN Pending /\ Completes[i] = Pending[i - Len(completion)]
    BY <1>5, <1>6
  <2>2. Pending # <<>>
    BY <2>1
  <2>3. QED BY <1>3, <1>4, <2>1, <2>2 DEF InBuffer
<1>7. QED BY <1>3, <1>4, <1>5, <1>6

LEMMA OpenIs ==
  ASSUME RunTypeOK, RequestInv, NEW s \in Steps
  PROVE  s \in Open(memo, ToSet(resolved)) <=> s \notin ToSet(resolved) /\ Reached(CallAfter[s])
<1>1. \A x \in ToSet(resolved) : x \in Steps /\ (memo[x] = "err" <=> stepState[x] # "ok")
  <2> TAKE x \in ToSet(resolved)
  <2>1. x \in Steps /\ stepState[x] \in {"ok", "err"}
    BY DEF ToSet, RunTypeOK, TypeOK, RequestInv, Known, StepValue
  <2>2. memo[x] \in {"none", stepState[x]} /\ (memo[x] = "none" => stepState[x] = "ok")
    BY <2>1 DEF RequestInv, Known
  <2>3. QED BY <2>1, <2>2
<1>2. Settled = {x \in ToSet(resolved) : memo[x] # "err" \/ x \in Caught}
  BY <1>1 DEF Settled
<1>3. QED BY <1>2 DEF Open, Reached

\* What a step shows user code is added to what it has seen.
LEMMA SeenGrows ==
  ASSUME RunTypeOK, NEW s \in Steps, resolved' = Append(resolved, s)
  PROVE  SeenAfter(history.seen) = IF s \in ToSet(history.seen) THEN history.seen ELSE Append(history.seen, s)
<1>1. resolved \in Seq(Steps) /\ history.seen \in Seq(Steps)
  BY DEF RunTypeOK, TypeOK, History
<1>2. resolved' # resolved /\ Last(resolved') = s
  <2>1. Len(resolved') = Len(resolved) + 1 /\ resolved'[Len(resolved')] = s /\ Len(resolved) \in Nat
    BY <1>1
  <2>2. QED BY <2>1 DEF Last
<1>3. Contains(history.seen, s) <=> s \in ToSet(history.seen)
  BY <1>1 DEF Contains, ToSet
<1>4. QED BY <1>2, <1>3 DEF SeenAfter

LEMMA SeenObserved ==
  ASSUME RunTypeOK, EngineMoves \/ StepSucceeds
  PROVE  history'.seen = SeenAfter(history.seen)
<1>1. history \in History
  BY DEF RunTypeOK
<1>2. Observed(history).seen = SeenAfter(history.seen)
  BY <1>1 DEF Observed, History
<1>3. CASE EngineMoves
  BY <1>2, <1>3 DEF EngineMoves
<1>4. CASE StepSucceeds
  <2>1. TypeOK'
    BY <1>4, BodySucceedsType DEF StepSucceeds, RunTypeOK
  <2>2. Observed(history) \in History
    BY <1>4, <2>1, BodySucceedsResolvesOne, ObservedType DEF StepSucceeds, RunTypeOK
  <2>3. QED BY <1>2, <1>4, <2>2 DEF StepSucceeds, History
<1>5. QED BY <1>3, <1>4

\* A step that shows user code nothing, and records behind what there is.
LEMMA SeenStays ==
  ASSUME RunTypeOK, Shown, Replayed, resolved' \in {resolved, <<>>}, history'.seen = history.seen,
         Ongoing' =>
           /\ Ongoing
           /\ \A i \in DOMAIN Completes : i \in DOMAIN Completes' /\ Completes'[i] = Completes[i]
           /\ \A s \in Steps : memo[s] # "none" => memo'[s] = memo[s]
           /\ \A s \in Steps : memo[s] = "none" /\ Running /\ InBuffer(s) =>
                memo'[s] = "ok" \/ (memo'[s] = "none" /\ Running' /\ InBuffer(s)')
  PROVE  (Shown /\ Replayed)'
<1>1. history.seen \in Seq(Steps) /\ Completes \in Seq(Steps)
  BY PendingType DEF RunTypeOK, History
<1>2. Shown'
  <2>1. DOMAIN <<>> = {}
    OBVIOUS
  <2>2. QED BY <2>1 DEF Shown
<1>3. ASSUME Ongoing'
      PROVE  (Remembered /\ Greedy(Completes, memo, history.seen))'
  <2>1. Remembered /\ Greedy(Completes, memo, history.seen)
    BY <1>3 DEF Replayed
  <2>2. \A n \in DOMAIN history.seen : history.seen[n] \in Steps
    BY <1>1
  <2>3. \A n \in DOMAIN history.seen : memo'[history.seen[n]] = "err" <=> memo[history.seen[n]] = "err"
    BY <1>3, <2>1, <2>2 DEF Remembered
  <2>4. Greedy(Completes', memo', history'.seen)
    <3>1. Greedy(Completes', memo', history.seen)
      BY <1>1, <1>3, <2>1, <2>3, GreedyMore
    <3>2. QED BY <3>1
  <2>5. Greedy(Completes, memo, history.seen)'
    BY <2>4 DEF Greedy, FirstOf, Open, Before
  <2>6. Remembered'
    BY <1>3, <2>1, <2>2 DEF Remembered
  <2>7. QED BY <2>5, <2>6
<1>4. QED BY <1>2, <1>3 DEF Replayed

-----------------------------------------------------------------------------
(* A step of the engine shows user code the first result it can ask for.   *)

SeenFacts == Shown /\ Replayed /\ Served

LEMMA HandledSeen ==
  ASSUME RunTypeOK, PromiseInv, RequestInv, UserInv, Prompts, SeenFacts, EngineMoves, HandleMemoized
  PROVE  (Shown /\ Replayed)'
<1>1. /\ Running /\ ReadyCalls = {}
      /\ UNCHANGED <<pc, buffer, response, recorded, memo, completion, outcome>>
  BY DEF HandleMemoized, Prompts, UserIsDone, EngineMoves, serverVars, shipVars
<1>2. PICK i \in Handleable : (\A j \in Handleable : i <= j) /\ resolved' = Append(resolved, order[i])
  BY DEF HandleMemoized
<1> DEFINE s == order[i]
<1>3. order \in Seq(Steps) /\ resolved \in Seq(Steps) /\ history.seen \in Seq(Steps)
  BY DEF RunTypeOK, TypeOK, History
<1>4. i \in DOMAIN order /\ s \in Steps /\ s \in toReport /\ s \notin ToSet(resolved)
  BY <1>2, <1>3 DEF Handleable
<1>5. \A j \in DOMAIN order : j \in DOMAIN Completes /\ Completes[j] = order[j]
  BY <1>1, PendingType DEF SeenFacts, Served
<1>6. s \in Open(memo, ToSet(resolved))
  <2>1. Reached(CallAfter[s])
    BY <1>4 DEF RequestInv, Entitled
  <2>2. QED BY <1>4, <2>1, OpenIs
<1>7. \A j \in 1 .. i - 1 : Completes[j] \notin Open(memo, ToSet(resolved))
  <2> SUFFICES ASSUME NEW j \in 1 .. i - 1, order[j] \in Open(memo, ToSet(resolved)) PROVE FALSE
    <3>1. \A j \in 1 .. i - 1 : j \in DOMAIN order
      BY <1>3, <1>4
    <3>2. QED BY <1>5, <3>1
  <2>1. j \in DOMAIN order /\ order[j] \in Steps /\ j < i
    BY <1>3, <1>4
  <2>2. order[j] \notin ToSet(resolved) /\ Reached(CallAfter[order[j]])
    BY <2>1, OpenIs
  <2>3. order[j] \in found
    BY <1>1, <2>1, <2>2 DEF ReadyCalls
  <2>4. order[j] \in toReport
    BY <2>1, <2>2, <2>3 DEF UserInv, PromptInv, ToSet
  <2>5. j \in Handleable
    BY <2>1, <2>2, <2>4 DEF Handleable
  <2>6. i <= j /\ i \in Nat /\ j \in Nat
    BY <1>2, <1>3, <1>4, <2>5
  <2>7. QED BY <2>1, <2>6
<1>8. FirstOf(Completes, Open(memo, ToSet(resolved)), s)
  BY <1>4, <1>5, <1>6, <1>7 DEF FirstOf
<1>9. Ongoing
  BY <1>1 DEF Ongoing, PromiseInv, Server, Running
<1> DEFINE more == IF s \in ToSet(history.seen) THEN history.seen ELSE Append(history.seen, s)
<1>10. /\ Greedy(Completes, memo, more)
       /\ \A k \in DOMAIN Append(resolved, s) : k \in DOMAIN more /\ more[k] = Append(resolved, s)[k]
  <2>1. Greedy(Completes, memo, history.seen) /\ Shown
    BY <1>9 DEF SeenFacts, Replayed
  <2>2. QED BY <1>3, <1>4, <1>8, <2>1, PendingType, ShowsFirst DEF Shown
<1>11. history'.seen = more
  BY <1>2, <1>4, SeenGrows, SeenObserved
<1>12. memo[s] # "none"
  BY <1>1, <1>4 DEF SeenFacts, Served, PromiseInv, Server
<1>13. \A n \in DOMAIN more : memo[more[n]] # "none" \/ InBuffer(more[n])
  <2>1. \A n \in DOMAIN history.seen : memo[history.seen[n]] # "none" \/ InBuffer(history.seen[n])
    BY <1>9 DEF SeenFacts, Replayed, Remembered
  <2>2. \A n \in DOMAIN Append(history.seen, s) :
          \/ n \in DOMAIN history.seen /\ Append(history.seen, s)[n] = history.seen[n]
          \/ Append(history.seen, s)[n] = s
    BY <1>3
  <2>3. CASE s \in ToSet(history.seen)
    BY <2>1, <2>3
  <2>4. CASE s \notin ToSet(history.seen)
    BY <1>12, <2>1, <2>2, <2>4
  <2>5. QED BY <2>3, <2>4
<1> HIDE DEF more, s
<1>14. Shown'
  BY <1>2, <1>10, <1>11 DEF Shown, s
<1>15. Remembered'
  BY <1>1, <1>11, <1>13 DEF Remembered, InBuffer, Running
<1>16. Greedy(Completes, memo, history.seen)'
  <2>1. Completes' = Completes /\ memo' = memo
    BY <1>1 DEF Completes, Pending, StepsOf, Running
  <2>2. Greedy(Completes', memo', history'.seen)
    BY <1>10, <1>11, <2>1
  <2>3. QED BY <2>2 DEF Greedy, FirstOf, Open, Before
<1>17. QED BY <1>14, <1>15, <1>16 DEF Replayed

LEMMA ResumedSeen ==
  ASSUME RunTypeOK, PromiseInv, RequestInv, UserInv, Prompts, SeenFacts, StepSucceeds,
         StepMode(req) = "AsyncCheckpointing", pc.at = "exec", ResumeUser(BufferedSteps), Running'
  PROVE  (Shown /\ Replayed)'
<1>0. PICK s \in Steps : s = pc.step
  BY RunningStep DEF RunTypeOK
<1>1. /\ resolved' = Append(resolved, s)
      /\ buffer' = Append(buffer, [step |-> s, kind |-> "ok"])
      /\ UNCHANGED <<memo, completion, outcome, recorded>> /\ Running
  BY <1>0 DEF ResumeUser, StepSucceeds, serverVars, Running, RunTypeOK
<1>2. /\ completion \in Seq(Steps) /\ buffer \in Seq(Result) /\ resolved \in Seq(Steps)
      /\ history.seen \in Seq(Steps)
  BY DEF RunTypeOK, TypeOK, History
<1>3. ~recorded /\ ~recorded' /\ Ongoing
  BY <1>1 DEF PromiseInv, Server, Running, Ongoing
<1>4. stepState[s] = "none" /\ s \in found
  BY <1>0 DEF RequestInv, Entitled
\* The result comes behind all others.
<1>5. Completes \in Seq(Steps) /\ Completes' = Append(Completes, s)
  <2>1. StepsOf(buffer') = Append(StepsOf(buffer), s)
    <3>1. /\ DOMAIN buffer = 1 .. Len(buffer) /\ Len(buffer) \in Nat
          /\ DOMAIN buffer' = 1 .. Len(buffer) + 1
          /\ \A k \in 1 .. Len(buffer) : buffer'[k] = buffer[k]
          /\ buffer'[Len(buffer) + 1] = [step |-> s, kind |-> "ok"]
      BY <1>1, <1>2
    <3>2. /\ StepsOf(buffer) \in Seq(Steps) /\ DOMAIN StepsOf(buffer) = DOMAIN buffer
      BY PendingType
    <3>3. Len(StepsOf(buffer)) = Len(buffer)
      BY <3>1, <3>2
    <3>4. /\ Append(StepsOf(buffer), s) \in Seq(Steps)
          /\ DOMAIN Append(StepsOf(buffer), s) = 1 .. Len(buffer) + 1
          /\ \A k \in 1 .. Len(buffer) : Append(StepsOf(buffer), s)[k] = StepsOf(buffer)[k]
          /\ Append(StepsOf(buffer), s)[Len(buffer) + 1] = s
      BY <1>1, <3>2, <3>3
    <3>5. \A k \in 1 .. Len(buffer) : StepsOf(buffer)[k] = buffer[k].step
      BY <3>1 DEF StepsOf
    <3>6. \A k \in 1 .. Len(buffer) + 1 : Append(StepsOf(buffer), s)[k] = buffer'[k].step
      BY <3>1, <3>4, <3>5
    <3>7. Append(StepsOf(buffer), s) = [k \in 1 .. Len(buffer) + 1 |-> Append(StepsOf(buffer), s)[k]]
      <4> DEFINE f == Append(StepsOf(buffer), s)
      <4>1. f \in Seq(Steps) /\ DOMAIN f = 1 .. Len(buffer) + 1
        BY <3>4
      <4> HIDE DEF f
      <4>2. f = [k \in 1 .. Len(buffer) + 1 |-> f[k]]
        BY <4>1
      <4>3. QED BY <4>2 DEF f
    <3>8. QED BY <3>1, <3>6, <3>7 DEF StepsOf
  <2>2. Pending = StepsOf(buffer) /\ Pending' = StepsOf(buffer')
    BY <1>1, <1>3 DEF Pending, StepsOf
  <2>3. StepsOf(buffer) \in Seq(Steps) /\ Completes \in Seq(Steps)
    BY PendingType
  <2>4. completion \o Append(StepsOf(buffer), s) = Append(completion \o StepsOf(buffer), s)
    BY <1>1, <1>2, <2>3
  <2>5. QED BY <1>1, <2>1, <2>2, <2>3, <2>4 DEF Completes
<1>6. /\ Completes' \in Seq(Steps)
      /\ DOMAIN Completes = 1 .. Len(Completes) /\ Len(Completes) \in Nat
      /\ Len(Completes) + 1 \in DOMAIN Completes' /\ Completes'[Len(Completes) + 1] = s
      /\ \A i \in DOMAIN Completes : i \in DOMAIN Completes' /\ Completes'[i] = Completes[i]
  BY <1>1, <1>5
\* User code waits for this result alone.
<1>7. s \in Open(memo, ToSet(resolved))
  <2>1. s \notin ToSet(resolved) /\ Reached(CallAfter[s])
    BY <1>4 DEF RequestInv, Known, Entitled, ToSet
  <2>2. QED BY <1>1, <2>1, OpenIs
<1>8. \A i \in DOMAIN Completes : Completes[i] \notin Open(memo, ToSet(resolved))
  <2> SUFFICES ASSUME NEW i \in DOMAIN Completes, NEW t, t = Completes[i], t \in Open(memo, ToSet(resolved))
               PROVE  FALSE
    OBVIOUS
  <2>1. t \in Steps
    BY <1>5
  <2>2. stepState[t] # "none"
    <3>1. CASE i \in DOMAIN completion
      <4>1. completion[i] = t
        BY <3>1, PendingType
      <4>2. memo[t] # "none"
        BY <2>1, <3>1, <4>1 DEF PromiseInv, Server
      <4>3. QED BY <1>1, <2>1, <4>2 DEF SeenFacts, Served
    <3>2. CASE InBuffer(t)
      BY <3>2 DEF InBuffer, RequestInv, Known
    <3>3. QED BY <3>1, <3>2, PendingType
  <2>3. t \notin ToSet(resolved) /\ Reached(CallAfter[t])
    BY <2>1, OpenIs
  <2>4. toReport = {} /\ ReadyCalls = {}
    BY DEF UserInv, PromptInv, Acting, Quiet
  <2>5. t \in found
    BY <2>1, <2>3, <2>4 DEF ReadyCalls
  <2>6. t \in ToSet(order)
    BY <2>1, <2>2, <2>3 DEF UserInv, PromptInv
  <2>7. QED BY <2>3, <2>4, <2>5, <2>6 DEF UserInv, PromptInv
<1>9. FirstOf(Completes', Open(memo, ToSet(resolved)), s)
  <2>1. \A j \in 1 .. Len(Completes) + 1 - 1 : Completes'[j] \notin Open(memo, ToSet(resolved))
    BY <1>6, <1>8
  <2>2. QED BY <1>6, <1>7, <2>1 DEF FirstOf
<1>10. PICK seen \in Seq(Steps) : seen = history.seen
  BY <1>2
<1> DEFINE more == IF s \in ToSet(seen) THEN seen ELSE Append(seen, s)
<1>11. /\ Greedy(Completes', memo, more)
       /\ \A k \in DOMAIN Append(resolved, s) : k \in DOMAIN more /\ more[k] = Append(resolved, s)[k]
  <2>1. Greedy(Completes, memo, seen) /\ Shown
    BY <1>3, <1>10 DEF SeenFacts, Replayed
  <2>2. Greedy(Completes', memo, seen)
    BY <1>2, <1>5, <1>6, <2>1, GreedyMore
  <2>3. \A i \in DOMAIN resolved : i \in DOMAIN seen /\ seen[i] = resolved[i]
    BY <1>10, <2>1 DEF Shown
  <2> DEFINE done == Completes'
  <2>4. done \in Seq(Steps) /\ FirstOf(done, Open(memo, ToSet(resolved)), s) /\ Greedy(done, memo, seen)
    BY <1>6, <1>9, <2>2
  <2> HIDE DEF done
  <2>5. /\ Greedy(done, memo, more)
        /\ \A k \in DOMAIN Append(resolved, s) : k \in DOMAIN more /\ more[k] = Append(resolved, s)[k]
    BY <1>1, <1>2, <2>3, <2>4, ShowsFirst
  <2>6. QED BY <2>5 DEF done
<1>12. history'.seen = more
  BY <1>1, <1>10, SeenGrows, SeenObserved
<1>13. /\ \E k \in DOMAIN buffer' : buffer'[k].step = s
       /\ \A t : InBuffer(t) => \E k \in DOMAIN buffer' : buffer'[k].step = t
  <2>1. /\ \A k \in DOMAIN buffer : k \in DOMAIN buffer' /\ buffer'[k] = buffer[k]
        /\ Len(buffer) + 1 \in DOMAIN buffer' /\ buffer'[Len(buffer) + 1].step = s
    BY <1>1, <1>2
  <2>2. QED BY <2>1 DEF InBuffer
<1>14. \A n \in DOMAIN more : memo[more[n]] # "none" \/ \E k \in DOMAIN buffer' : buffer'[k].step = more[n]
  <2>1. \A n \in DOMAIN seen : memo[seen[n]] # "none" \/ InBuffer(seen[n])
    BY <1>3, <1>10 DEF SeenFacts, Replayed, Remembered
  <2>2. \A n \in DOMAIN Append(seen, s) :
          \/ n \in DOMAIN seen /\ Append(seen, s)[n] = seen[n]
          \/ Append(seen, s)[n] = s
    BY <1>1, <1>2
  <2>3. \A n \in DOMAIN seen :
          memo[seen[n]] # "none" \/ \E k \in DOMAIN buffer' : buffer'[k].step = seen[n]
    BY <1>13, <2>1
  <2>4. more = seen \/ more = Append(seen, s)
    OBVIOUS
  <2> HIDE DEF more
  <2>5. CASE more = seen
    BY <2>3, <2>5
  <2>6. CASE more = Append(seen, s)
    <3> SUFFICES ASSUME NEW n \in DOMAIN more
                 PROVE  memo[more[n]] # "none" \/ \E k \in DOMAIN buffer' : buffer'[k].step = more[n]
      OBVIOUS
    <3>1. CASE more[n] = s
      BY <1>13, <3>1
    <3>2. CASE n \in DOMAIN seen /\ more[n] = seen[n]
      BY <2>3, <3>2
    <3>3. QED BY <2>2, <2>6, <3>1, <3>2
  <2>7. QED BY <2>4, <2>5, <2>6
<1> HIDE DEF more
<1>15. Shown'
  BY <1>1, <1>11, <1>12 DEF Shown
<1>16. Remembered'
  BY <1>1, <1>12, <1>14 DEF Remembered, InBuffer
<1>17. Greedy(Completes, memo, history.seen)'
  <2>1. Greedy(Completes', memo', history'.seen)
    BY <1>1, <1>11, <1>12
  <2>2. QED BY <2>1 DEF Greedy, FirstOf, Open, Before
<1>18. QED BY <1>15, <1>16, <1>17 DEF Replayed

\* The other steps of the engine, and the ends of bodies, show user code nothing; the buffer
\* stays until it is recorded, or is in the answer that ends the run.
LEMMA BufferStays ==
  ASSUME RunTypeOK, PromiseInv, Shown, Replayed, Running, resolved' = resolved, history'.seen = history.seen,
         UNCHANGED <<buffer, memo, completion, outcome, recorded>>,
         Ongoing' => Running' \/ buffer = <<>>
  PROVE  (Shown /\ Replayed)'
<1>1. Ongoing
  BY DEF Running, Ongoing, PromiseInv, Server
<1>2. ASSUME Ongoing'
      PROVE  /\ \A i \in DOMAIN Completes : i \in DOMAIN Completes' /\ Completes'[i] = Completes[i]
             /\ \A s \in Steps : InBuffer(s) => Running' /\ \E k \in DOMAIN buffer' : buffer'[k].step = s
  <2>1. CASE Running'
    <3>1. Completes' = Completes
      BY <2>1 DEF Completes, Pending, StepsOf
    <3>2. QED BY <2>1, <3>1 DEF InBuffer
  <2>2. CASE buffer = <<>>
    <3>1. DOMAIN buffer = {}
      BY <2>2
    <3>2. StepsOf(buffer) = <<>>
      BY <2>2, <3>1 DEF StepsOf
    <3>3. Pending = <<>> /\ Pending' = <<>>
      BY <3>2 DEF Pending, StepsOf
    <3>4. Completes' = Completes
      BY <3>3 DEF Completes
    <3>5. QED BY <3>1, <3>4 DEF InBuffer
  <2>3. QED BY <1>2, <2>1, <2>2
<1>3. QED BY <1>1, <1>2, SeenStays DEF InBuffer

LEMMA EngineSeen ==
  ASSUME RunTypeOK, PromiseInv, UserInv, Prompts, RequestInv, TimersInv, StepsAwaited, NothingTwice,
         SeenFacts, EngineMoves
  PROVE  (Shown /\ Replayed)'
<1>1. CASE HandleMemoized
  BY <1>1, HandledSeen
<1>2. CASE ~HandleMemoized
  <2>1. EngineStep /\ UNCHANGED <<memo, completion, outcome, recorded>> /\ TypeOK
    BY DEF EngineMoves, serverVars, RunTypeOK
  <2>2. resolved' = resolved
    BY <1>2, <2>1 DEF EngineStep, UserCalls, FunctionReturns, FunctionThrows, ReportFound,
       TimerFires, AsyncStepsFound, CheckpointingStepsFound, AsyncFunctionResolved,
       CheckpointingFunctionResolved, ResolvedAs, AsyncFunctionRejected,
       CheckpointingFunctionRejected, StepNotFound, RuntimeReached, BufferIntervalReached, userVars
  <2>3. history'.seen = history.seen
    BY <2>2, SeenObserved DEF SeenAfter
  <2>4. buffer' = buffer /\ Running /\ MovesOn /\ AnswersAll
    BY <2>1, EngineBuffer, EngineLocation, EngineMovesOn, EngineAnswersAll
  <2>5. Ongoing' => Running' \/ buffer = <<>>
    BY <2>4 DEF MovesOn, AnswersAll, Ongoing, Running
  <2>6. QED BY <2>1, <2>2, <2>3, <2>4, <2>5, BufferStays DEF SeenFacts
<1>3. QED BY <1>1, <1>2

LEMMA BodySeen ==
  ASSUME RunTypeOK, PromiseInv, UserInv, Prompts, RequestInv, SeenFacts, StepSucceeds \/ StepThrows
  PROVE  (Shown /\ Replayed)'
<1>1. /\ BodySucceeds \/ BodyThrows
      /\ UNCHANGED <<memo, completion, outcome, recorded>> /\ TypeOK /\ Running
  BY EngineLocation DEF StepSucceeds, StepThrows, serverVars, RunTypeOK
<1>2. PICK kind \in ResultKind :
        /\ pc.at = "exec" /\ req' = req
        /\ BodyAnswers(kind) \/ BodyIsBuffered(kind) \/ BodyWaits(kind)
  BY <1>1, BodyEndsAs
<1>3. CASE StepSucceeds /\ CheckpointingStepEnds /\ ~(req.attempt > 0)
  <2>1. StepMode(req) = "AsyncCheckpointing" /\ ResumeUser(BufferedSteps)
    BY <1>3 DEF CheckpointingStepEnds
  <2>2. buffer' # buffer
    <3>1. buffer' = Append(buffer, [step |-> pc.step, kind |-> "ok"]) /\ buffer \in Seq(Result)
      BY <2>1 DEF ResumeUser, RunTypeOK, TypeOK
    <3>2. Len(buffer') = Len(buffer) + 1 /\ Len(buffer) \in Nat
      BY <3>1
    <3>3. QED BY <3>2
  <2>3. Running'
    BY <1>2, <2>2 DEF BodyAnswers, BodyIsBuffered, BodyWaits, Running
  <2>4. QED BY <1>2, <1>3, <2>1, <2>3, ResumedSeen
<1>4. CASE ~(StepSucceeds /\ CheckpointingStepEnds /\ ~(req.attempt > 0))
  <2>1. resolved' = resolved /\ buffer' = buffer
    BY <1>1, <1>4 DEF StepSucceeds, StepThrows, BodySucceeds, BodyThrows, CheckpointingStepEnds,
       AsyncStepEnds, CheckpointingStepThrows, userVars
  <2>2. history'.seen = history.seen
    <3>1. CASE StepSucceeds
      BY <2>1, <3>1, SeenObserved DEF SeenAfter
    <3>2. CASE StepThrows
      BY <3>2 DEF StepThrows, RunTypeOK, History
    <3>3. QED BY <3>1, <3>2
  <2>3. Ongoing' => Running' \/ buffer = <<>>
    BY <1>2 DEF BodyAnswers, BodyIsBuffered, BodyWaits, Running
  <2>4. QED BY <1>1, <2>1, <2>2, <2>3, BufferStays DEF SeenFacts
<1>5. QED BY <1>3, <1>4

-----------------------------------------------------------------------------
(* The server records behind what it has.                                  *)

LEMMA RecordsBehind ==
  ASSUME RunTypeOK, NEW batch \in Batch, RecordResults(batch)
  PROVE  \A i \in DOMAIN completion : i \in DOMAIN completion' /\ completion'[i] = completion[i]
<1> DEFINE new == NewResults(batch.ran)
<1>1. completion' = completion \o [i \in DOMAIN new |-> new[i].step] /\ completion \in Seq(Steps)
  BY DEF RecordResults, RunTypeOK
<1>2. new \in Seq(Result)
  BY EmptyBuffer DEF NewResults, Batch
<1> HIDE DEF new
<1>3. QED BY <1>1, <1>2, Appended

\* A checkpoint records the buffer, in its order.
LEMMA RecordedSeen ==
  ASSUME RunTypeOK, RunTypeOK', PromiseInv, Shown, Replayed, RecordCheckpoint
  PROVE  (Shown /\ Replayed)'
<1>1. /\ pc.at = "checkpoint" /\ ~stale /\ ~recorded /\ recorded' /\ RecordResults(CheckpointBatch)
      /\ UNCHANGED <<pc, buffer, response, resolved, outcome, history>> /\ Running
  BY DEF RecordCheckpoint, engineVars, userVars, shipVars, Running
<1>2. InOrder(memo, buffer) /\ AllOk(buffer) /\ AllNew(buffer)
  BY <1>1 DEF PromiseInv, Buffered
<1>3. CheckpointBatch \in Batch /\ CheckpointBatch.ran = buffer
  <2>1. CheckpointBatch \in Batch
    BY EmptyBatchType DEF CheckpointBatch, Batch, RunTypeOK, TypeOK, Pc
  <2>2. QED BY <2>1, BatchFields DEF CheckpointBatch
<1>4. NewResults(buffer) = buffer
  BY <1>2 DEF NewResults, AllOk, AllNew
<1>5. completion' = completion \o StepsOf(buffer)
  BY <1>1, <1>3, <1>4 DEF RecordResults, StepsOf
<1>6. Completes' = Completes
  <2>1. Pending = StepsOf(buffer) /\ Pending' = <<>>
    BY <1>1 DEF Pending
  <2>2. completion' \in Seq(Steps)
    BY DEF RunTypeOK
  <2>3. QED BY <1>5, <2>1, <2>2 DEF Completes
<1>7. /\ \A s \in Steps : memo[s] # "none" => memo'[s] = memo[s]
      /\ \A s \in Steps : InBuffer(s) => memo'[s] = "ok"
  <2>1. \A k \in DOMAIN buffer : memo'[buffer[k].step] = "ok"
    BY <1>1, <1>2, <1>3, Recording DEF PromiseInv
  <2>2. QED BY <2>1, MemoKept DEF InBuffer
<1>8. Ongoing
  BY <1>1 DEF Ongoing, PromiseInv, Server
<1>9. QED BY <1>1, <1>6, <1>7, <1>8, SeenStays

\* A wait is over while nothing is buffered.
LEMMA WaitSeen ==
  ASSUME RunTypeOK, RunTypeOK', PromiseInv, ~stale, NothingTwice, Shown, Replayed,
         NEW w \in Waits, WaitEnds(w)
  PROVE  (Shown /\ Replayed)'
<1>1. /\ outcome = "running" /\ planned # {} /\ completion' = Append(completion, w)
      /\ UNCHANGED <<pc, buffer, response, req, resolved, outcome, recorded, history>>
  BY DEF WaitEnds, engineVars, requestVars, userVars, shipVars
<1>2. Running => buffer = <<>>
  BY <1>1 DEF NothingTwice, StepMode, PromiseInv, Buffered
<1>3. Pending = <<>> /\ Pending' = <<>> /\ (Running => DOMAIN buffer = {})
  <2>1. Running => DOMAIN buffer = {}
    BY <1>2
  <2>2. Running => StepsOf(buffer) = <<>>
    BY <1>2, <2>1 DEF StepsOf
  <2>3. QED BY <1>1, <2>1, <2>2 DEF Pending, StepsOf, Running
<1>4. /\ \A i \in DOMAIN Completes : i \in DOMAIN Completes' /\ Completes'[i] = Completes[i]
      /\ \A s : ~(Running /\ InBuffer(s))
  <2>1. completion \in Seq(Steps) /\ completion' \in Seq(Steps) /\ w \in Steps
    BY UserCodeAssumption DEF RunTypeOK
  <2>2. Completes = completion /\ Completes' = completion'
    BY <1>3, <2>1 DEF Completes
  <2>3. QED BY <1>1, <1>3, <2>1, <2>2 DEF InBuffer
<1>5. \A s \in Steps : memo[s] # "none" => memo'[s] = memo[s]
  BY MemoKept
<1>6. Ongoing' => Ongoing
  BY <1>1 DEF Ongoing
<1>7. QED BY <1>1, <1>4, <1>5, <1>6, SeenStays

LEMMA AppliedSeen ==
  ASSUME RunTypeOK, RunTypeOK', PromiseInv, ~stale, NothingTwice, Shown, Replayed, ApplyResponse
  PROVE  (Shown /\ Replayed)'
<1>1. /\ pc.at = "done" /\ pc'.at = "off" /\ RecordResults(response.batch)
      /\ response.batch \in Batch /\ AllRecordable
      /\ UNCHANGED <<resolved, history>> /\ ~Running /\ ~Running'
  BY DEF ApplyResponse, PcAt, userVars, Running, RunTypeOK, TypeOK, Response, NothingTwice
<1>2. \A i \in DOMAIN completion : i \in DOMAIN completion' /\ completion'[i] = completion[i]
  BY <1>1, RecordsBehind
<1>3. \A i \in DOMAIN Completes : i \in DOMAIN Completes' /\ Completes'[i] = Completes[i]
  <2>1. completion \in Seq(Steps) /\ completion' \in Seq(Steps)
    BY DEF RunTypeOK
  <2>2. Pending = <<>> /\ Pending' = <<>>
    BY <1>1 DEF Pending
  <2>3. Completes = completion /\ Completes' = completion'
    BY <2>1, <2>2 DEF Completes
  <2>4. QED BY <1>2, <2>3
<1>4. \A s \in Steps : memo[s] # "none" => memo'[s] = memo[s]
  BY <1>1, AnswerRecorded
<1>5. Ongoing' => Ongoing
  BY <1>1 DEF ApplyResponse, Ongoing, PromiseInv, Server
<1>6. QED BY <1>1, <1>3, <1>4, <1>5, SeenStays

\* The buffer that has been recorded is emptied.
LEMMA CheckpointSeen ==
  ASSUME RunTypeOK, PromiseInv, ~stale, Shown, Replayed, CheckpointOk
  PROVE  (Shown /\ Replayed)'
<1>1. /\ pc.at = "checkpoint" /\ recorded /\ ~recorded' /\ buffer' = <<>> /\ Running
      /\ UNCHANGED <<resolved, memo, completion, outcome, history>>
  BY DEF CheckpointOk, CheckpointSucceeds, serverVars, userVars, Running
<1>2. Pending = <<>> /\ Pending' = <<>>
  <2>1. DOMAIN buffer' = {}
    BY <1>1
  <2>2. StepsOf(buffer') = <<>>
    BY <1>1, <2>1 DEF StepsOf
  <2>3. QED BY <1>1, <2>2 DEF Pending, StepsOf
<1>3. Completes' = Completes
  BY <1>1, <1>2 DEF Completes
<1>4. \A s \in Steps : memo[s] = "none" => ~InBuffer(s)
  BY <1>1 DEF PromiseInv, Buffered, InBuffer
<1>5. Ongoing
  BY <1>1 DEF Ongoing, PromiseInv, Server
<1>6. QED BY <1>1, <1>3, <1>4, <1>5, SeenStays

LEMMA DispatchSeen ==
  ASSUME RunTypeOK, Shown, Replayed, Dispatch
  PROVE  (Shown /\ Replayed)'
<1>1. /\ pc.at = "off" /\ buffer' = <<>> /\ resolved' = <<>> /\ outcome = "running"
      /\ UNCHANGED <<memo, completion, outcome>> /\ ~Running
  BY DEF Dispatch, StartRequest, serverVars, Running
<1>2. history'.seen = history.seen
  BY DEF Dispatch, RunTypeOK, History
<1>3. Pending = <<>> /\ Pending' = <<>>
  <2>1. DOMAIN buffer' = {}
    BY <1>1
  <2>2. StepsOf(buffer') = <<>>
    BY <1>1, <2>1 DEF StepsOf
  <2>3. QED BY <1>1, <2>2 DEF Pending, StepsOf
<1>4. Completes' = Completes
  BY <1>1, <1>3 DEF Completes
<1>5. Ongoing
  BY <1>1 DEF Ongoing
<1>6. QED BY <1>1, <1>2, <1>4, <1>5, SeenStays

LEMMA KnowsMore ==
  ASSUME TypeOK, EngineStep \/ BodySucceeds \/ BodyThrows
  PROVE  /\ UNCHANGED <<req, order>>
         /\ \A s \in Steps : stepState[s] # "none" => stepState'[s] # "none"
<1>1. CASE EngineStep
  BY <1>1 DEF EngineStep, UserCalls, FunctionReturns, FunctionThrows, HandleMemoized, ReportFound,
     TimerFires, AsyncStepsFound, CheckpointingStepsFound, AsyncFunctionResolved,
     CheckpointingFunctionResolved, ResolvedAs, AsyncFunctionRejected,
     CheckpointingFunctionRejected, StepNotFound, RuntimeReached, BufferIntervalReached,
     requestVars, userVars
<1>2. CASE BodySucceeds \/ BodyThrows
  BY <1>2 DEF BodySucceeds, BodyThrows, CheckpointingStepEnds, AsyncStepEnds, CheckpointingStepThrows,
     ResumeUser, TypeOK, requestVars, userVars
<1>3. QED BY <1>1, <1>2

LEMMA ServedStep ==
  ASSUME RunTypeOK, RunTypeOK', PromiseInv, ~stale, NothingTwice, Served, [Next]_vars
  PROVE  Served'
<1> SUFFICES ASSUME Running'
             PROVE  /\ \A i \in DOMAIN order' : i \in DOMAIN completion' /\ completion'[i] = order'[i]
                    /\ StepMode(req)' = "AsyncCheckpointing" =>
                         \A s \in Steps : memo'[s] # "none" => stepState'[s] # "none"
  BY DEF Served
<1>1. CASE Dispatch
  BY <1>1 DEF Dispatch, StartRequest, serverVars
<1>2. ASSUME UNCHANGED <<req, order, memo, completion>>, Running,
             \A s \in Steps : stepState[s] # "none" => stepState'[s] # "none"
      PROVE  Served'
  BY <1>2 DEF Served, StepMode
<1>3. CASE EngineMoves \/ StepSucceeds \/ StepThrows
  <2>1. EngineStep \/ BodySucceeds \/ BodyThrows
    BY <1>3 DEF EngineMoves, StepSucceeds, StepThrows
  <2>2. UNCHANGED <<memo, completion>> /\ TypeOK
    BY <1>3 DEF EngineMoves, StepSucceeds, StepThrows, serverVars, RunTypeOK
  <2>3. QED BY <1>2, <2>1, <2>2, KnowsMore, EngineLocation DEF Served
<1>4. CASE CheckpointOk \/ CheckpointRefused \/ CheckpointLost \/ GiveUp \/ Ended \/ UNCHANGED vars
  <2>1. UNCHANGED <<req, order, stepState, memo, completion>>
    BY <1>4 DEF CheckpointOk, CheckpointRefused, CheckpointLost, GiveUp, Ended, vars, CheckpointSucceeds,
       CheckpointIsStale, CheckpointFails, engineVars, requestVars, userVars, serverVars
  <2>2. Running
    BY <1>4 DEF CheckpointOk, CheckpointRefused, CheckpointLost, GiveUp, Ended, vars, CheckpointSucceeds,
       CheckpointIsStale, CheckpointFails, engineVars, Running
  <2>3. QED BY <1>2, <2>1, <2>2 DEF Served
<1>5. CASE RecordCheckpoint
  <2>1. /\ UNCHANGED <<req, order, stepState>> /\ Running /\ RecordResults(CheckpointBatch)
    BY <1>5 DEF RecordCheckpoint, engineVars, requestVars, userVars, Running
  <2>2. CheckpointBatch \in Batch /\ CheckpointBatch.ran = buffer
    <3>1. CheckpointBatch \in Batch
      BY EmptyBatchType DEF CheckpointBatch, Batch, RunTypeOK, TypeOK, Pc
    <3>2. QED BY <3>1, BatchFields DEF CheckpointBatch
  <2>3. \A i \in DOMAIN completion : i \in DOMAIN completion' /\ completion'[i] = completion[i]
    BY <2>1, <2>2, RecordsBehind
  <2>4. Known /\ Buffered
    BY <2>1 DEF PromiseInv
  <2>5. \A s \in Steps : memo'[s] # memo[s] => \E k \in DOMAIN buffer : buffer[k].step = s
    BY <2>1, <2>2, <2>4, Recording DEF PromiseInv, Buffered
  <2>6. \A s \in Steps : memo'[s] # "none" /\ memo[s] = "none" => stepState[s] # "none"
    BY <2>4, <2>5 DEF Known
  <2>7. QED BY <2>1, <2>3, <2>6 DEF Served, StepMode
<1>6. CASE \E w \in Waits : WaitEnds(w)
  <2>1. PICK w \in Waits : WaitEnds(w)
    BY <1>6
  <2>2. /\ UNCHANGED <<req, order>> /\ Running /\ planned # {}
        /\ completion' = Append(completion, w) /\ completion \in Seq(Steps) /\ w \in Steps
    BY <2>1, UserCodeAssumption DEF WaitEnds, engineVars, requestVars, Running, RunTypeOK
  <2>3. StepMode(req)' # "AsyncCheckpointing"
    BY <2>2 DEF NothingTwice, StepMode
  <2>4. QED BY <2>2, <2>3 DEF Served
<1>7. CASE ApplyResponse \/ Crash
  BY <1>7 DEF ApplyResponse, Crash, PcAt, Running
<1>8. QED BY <1>1, <1>3, <1>4, <1>5, <1>6, <1>7 DEF Next, Served

LEMMA SeenStep ==
  ASSUME RunTypeOK, RunTypeOK', PromiseInv, FoundInv, TimersInv, OnceInv, Prompts, StepsAwaited, SeenInv,
         [Next]_vars
  PROVE  SeenInv'
<1> SUFFICES ASSUME faults' = 0 PROVE (Shown /\ Replayed /\ Served)'
  BY DEF SeenInv
<1>1. faults = 0 /\ ~(CheckpointLost \/ Crash \/ GiveUp)
  <2>1. faults \in Nat
    BY DEF RunTypeOK
  <2>2. ~(CheckpointLost \/ Crash \/ GiveUp)
    BY <2>1 DEF CheckpointLost, Crash, GiveUp, Fault
  <2>3. QED BY <2>2 DEF Next, Dispatch, EngineMoves, StepSucceeds, StepThrows, RecordCheckpoint,
            CheckpointOk, CheckpointRefused, ApplyResponse, WaitEnds, Ended, vars
<1>2. SeenFacts /\ Shown /\ Replayed /\ Served /\ ~stale /\ NothingTwice
  BY <1>1 DEF SeenInv, SeenFacts, OnceInv
<1>3. Running => RequestInv /\ UserInv
  BY <1>2 DEF PromiseInv, RequestInv, FoundInv
<1>4. Served'
  BY <1>2, ServedStep
<1>5. CASE EngineMoves
  <2>1. Running
    BY <1>5, EngineLocation DEF EngineMoves
  <2>2. QED BY <1>2, <1>3, <1>4, <1>5, <2>1, EngineSeen
<1>6. CASE StepSucceeds \/ StepThrows
  <2>1. Running
    BY <1>6, EngineLocation DEF StepSucceeds, StepThrows
  <2>2. QED BY <1>2, <1>3, <1>4, <1>6, <2>1, BodySeen
<1>7. CASE Dispatch
  BY <1>2, <1>4, <1>7, DispatchSeen
<1>8. CASE ApplyResponse
  BY <1>2, <1>4, <1>8, AppliedSeen
<1>9. CASE RecordCheckpoint
  BY <1>2, <1>4, <1>9, RecordedSeen
<1>10. CASE \E w \in Waits : WaitEnds(w)
  BY <1>2, <1>4, <1>10, WaitSeen
<1>11. CASE CheckpointOk
  BY <1>2, <1>4, <1>11, CheckpointSeen
<1>12. CASE CheckpointRefused
  BY <1>2, <1>12 DEF CheckpointRefused
<1>13. CASE Ended \/ UNCHANGED vars
  <2>1. UNCHANGED <<pc, buffer, response, resolved, memo, completion, outcome, recorded, history>>
    BY <1>13 DEF Ended, vars, engineVars, userVars, shipVars, serverVars
  <2>2. /\ Completes' = Completes /\ (Ongoing' => Ongoing)
        /\ \A s \in Steps : Running /\ InBuffer(s) => Running' /\ \E k \in DOMAIN buffer' : buffer'[k].step = s
    BY <2>1 DEF Completes, Pending, StepsOf, Running, Ongoing, InBuffer
  <2>3. (Shown /\ Replayed)'
    BY <1>2, <2>1, <2>2, SeenStays DEF InBuffer
  <2>4. QED BY <1>4, <2>3
<1>14. QED BY <1>1, <1>5, <1>6, <1>7, <1>8, <1>9, <1>10, <1>11, <1>12, <1>13 DEF Next

\* Without faults, prompt user code sees results in the same order in every request, whatever
\* has been recorded, planned or buffered in between, so a race has the same winner; with
\* checkpointing, of a function that awaits its steps.
THEOREM ReplayIsDeterministic ==
  StepsAwaited /\ IsFiniteSet(Steps) => (Spec => []DeterministicReplay)
<1>1. CASE ~(StepsAwaited /\ IsFiniteSet(Steps))
  BY <1>1
<1>2. CASE ~PromptUser
  <2>1. DeterministicReplay
    BY <1>2 DEF DeterministicReplay
  <2>2. QED BY <1>2, <2>1, PTL
<1>3. CASE StepsAwaited /\ IsFiniteSet(Steps) /\ PromptUser
  <2>1. StepsAwaited /\ Prompts
    BY <1>3 DEF Prompts
  <2>2. Init => TimersInv /\ OnceInv /\ SeenInv
    <3>1. ASSUME Init
          PROVE  /\ pc.at = "off" /\ stale = FALSE /\ planned = {} /\ \A s \in Steps : history.runs[s] = 0
                 /\ history.seen = <<>> /\ resolved = <<>>
      BY <3>1 DEF Init, PcAt
    <3>2. DOMAIN <<>> = {}
      OBVIOUS
    <3>3. QED BY <3>1, <3>2 DEF TimersInv, OnceInv, NothingTwice, RanOnce, Running, SeenInv, Shown, Replayed,
              Remembered, Greedy, Served
  <2>3. RunTypeOK /\ PromiseInv /\ FoundInv /\ (RunTypeOK /\ PromiseInv)'
          /\ TimersInv /\ OnceInv /\ SeenInv /\ [Next]_vars => (TimersInv /\ OnceInv /\ SeenInv)'
    BY <2>1, TimersStep, OnceStep, SeenStep
  <2>4. RunTypeOK /\ SeenInv => DeterministicReplay
    <3> SUFFICES ASSUME RunTypeOK, SeenInv, faults = 0, NEW i \in DOMAIN resolved, NEW j \in DOMAIN resolved, i < j
                 PROVE  \E k, l \in DOMAIN history.seen :
                          k < l /\ history.seen[k] = resolved[i] /\ history.seen[l] = resolved[j]
      BY DEF DeterministicReplay
    <3>1. QED BY DEF SeenInv, Shown
  <2>5. QED BY <2>2, <2>3, <2>4, PromiseHolds, FoundHolds, PTL DEF Spec
<1>4. QED BY <1>1, <1>2, <1>3
=============================================================================
