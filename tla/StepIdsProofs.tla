--------------------------- MODULE StepIdsProofs ----------------------------
(***************************************************************************)
(* Proofs about the ids of steps, whatever user code, its middleware, the  *)
(* server and the faults are: no two calls of a request have the same id,  *)
(* as long as no id anybody writes looks like another with an index; and   *)
(* every request of a run gives a call the same id and the result of its   *)
(* own body, as long as middleware keeps its steps apart as well.          *)
(***************************************************************************)
EXTENDS StepIds, SequenceTheorems, FiniteSetTheorems, WellFoundedInduction, TLAPS

\* No id that is written is another one with an index.
NoLookAlikes == \A a, b \in Bases : \A i \in Nat : a # Indexed(b, i)

\* What ids are made of.
Parts == Nat \cup UNION {{b[i] : i \in 1 .. Len(b)} : b \in Bases}

Called == {k \in Calls : stepId[k] # NoId}

\* An id in use comes from a base whose next index is above it.
Below(id, b) ==
  /\ expected[b] # 0
  /\ \/ id = b
     \/ \E i \in 1 .. expected[b] - 1 : id = Indexed(b, i)

ClaimsOK ==
  /\ expected \in [Bases -> Nat]
  /\ stepId \in [Calls -> Seq(Parts)]
  /\ stage \in [Calls -> Stages]
  /\ registered \in Seq(Called) /\ applying \in Seq(Called)
  /\ \A k \in Calls : stage[k] # "uncalled" => k \in Called
  /\ \A k \in Called : \E b \in Bases : Below(stepId[k], b)
  /\ \A k, l \in Called : stepId[k] = stepId[l] => k = l

-----------------------------------------------------------------------------
(* Ids.                                                                    *)

LEMMA BaseType == \A b \in Bases : b \in Seq(Parts) /\ Len(b) > 0
<1> SUFFICES ASSUME NEW b \in Bases PROVE b \in Seq(Parts) /\ Len(b) > 0
  OBVIOUS
<1>1. b = [i \in 1 .. Len(b) |-> b[i]] /\ Len(b) \in Nat \ {0}
  BY IdAssumption
<1>2. \A i \in 1 .. Len(b) : b[i] \in Parts
  BY DEF Parts
<1>3. [i \in 1 .. Len(b) |-> b[i]] \in [1 .. Len(b) -> Parts]
  BY <1>2
<1>4. b \in Seq(Parts)
  BY <1>1, <1>3, IsASeq
<1>5. QED
  BY <1>1, <1>4

LEMMA IndexedType ==
  \A b \in Bases, i \in Nat : Indexed(b, i) \in Seq(Parts) /\ Indexed(b, i) # NoId
<1> SUFFICES ASSUME NEW b \in Bases, NEW i \in Nat
             PROVE  Indexed(b, i) \in Seq(Parts) /\ Indexed(b, i) # NoId
  OBVIOUS
<1>1. b \in Seq(Parts) /\ i \in Parts
  BY BaseType DEF Parts
<1>2. QED
  BY <1>1, AppendProperties DEF Indexed, NoId

LEMMA IndexedInjective ==
  \A a, b \in Bases : \A i, j \in Nat : Indexed(a, i) = Indexed(b, j) => a = b /\ i = j
<1> SUFFICES ASSUME NEW a \in Bases, NEW b \in Bases, NEW i \in Nat, NEW j \in Nat,
                    Append(a, i) = Append(b, j)
             PROVE  a = b /\ i = j
  BY DEF Indexed
<1>1. a \in Seq(Parts) /\ b \in Seq(Parts) /\ i \in Parts /\ j \in Parts
  BY BaseType DEF Parts
<1>2. QED
  BY <1>1, AppendInjective

-----------------------------------------------------------------------------
(* Claims.                                                                 *)

\* The id that is claimed for a base is nobody's: the base itself, then its next index.
LEMMA ClaimValue ==
  ASSUME NoLookAlikes, ClaimsOK, NEW b \in Bases
  PROVE  IF expected[b] = 0
           THEN /\ Claim(b) = [id |-> b, next |-> 1]
                /\ \A l \in Called : stepId[l] # b
           ELSE /\ Claim(b) = [id |-> Indexed(b, expected[b]), next |-> expected[b] + 1]
                /\ \A l \in Called : stepId[l] # Indexed(b, expected[b])
<1> DEFINE n == NextIndex(b)
<1>1. expected[b] \in Nat /\ n \in Nat \ {0} /\ (expected[b] # 0 => n = expected[b])
  BY DEF ClaimsOK, NextIndex
<1>2. CASE expected[b] = 0
  <2>1. ASSUME NEW l \in Called, stepId[l] = b PROVE FALSE
    <3>1. PICK a \in Bases : Below(b, a)
      BY <2>1 DEF ClaimsOK
    <3>2. a # b
      BY <1>2, <3>1 DEF Below
    <3>3. PICK i \in 1 .. expected[a] - 1 : b = Indexed(a, i)
      BY <3>1, <3>2 DEF Below
    <3>4. QED
      BY <3>3, <1>1 DEF NoLookAlikes, ClaimsOK
  <2>2. ~Taken(b)
    BY <2>1 DEF Taken, ClaimsOK
  <2>3. QED
    BY <1>2, <2>1, <2>2 DEF Claim
<1>3. CASE expected[b] # 0
  <2>1. ASSUME NEW l \in Called, stepId[l] = Indexed(b, n) PROVE FALSE
    <3>1. PICK a \in Bases : Below(Indexed(b, n), a)
      BY <2>1 DEF ClaimsOK
    <3>2. a # Indexed(b, n)
      BY <1>1 DEF NoLookAlikes
    <3>3. PICK i \in 1 .. expected[a] - 1 : Indexed(b, n) = Indexed(a, i)
      BY <3>1, <3>2 DEF Below
    <3>4. a = b /\ i = n
      BY <1>1, <3>3, IndexedInjective DEF ClaimsOK
    <3>5. QED
      BY <1>1, <1>3, <3>3, <3>4
  <2>2. ~Taken(Indexed(b, n))
    BY <2>1 DEF Taken, ClaimsOK
  <2>3. Len(registered) \in Nat
    BY DEF ClaimsOK
  <2>4. FreeIndex(b) = n
    <3> DEFINE Free(i) == /\ ~Taken(Indexed(b, i))
                          /\ \A j \in n .. i - 1 : Taken(Indexed(b, j))
    <3>1. n \in n .. n + Len(registered) /\ Free(n)
      BY <1>1, <2>2, <2>3
    <3>2. \A i \in n .. n + Len(registered) : Free(i) => i = n
      <4> SUFFICES ASSUME NEW i \in n .. n + Len(registered), Free(i), i # n PROVE FALSE
        OBVIOUS
      <4>1. n \in n .. i - 1
        BY <1>1, <2>3
      <4>2. QED
        BY <4>1, <2>2
    <3>3. FreeIndex(b) = CHOOSE i \in n .. n + Len(registered) : Free(i)
      BY DEF FreeIndex
    <3> HIDE DEF n, Free
    <3>4. QED
      BY <3>1, <3>2, <3>3
  <2>5. Claim(b) = [id |-> Indexed(b, n), next |-> n + 1]
    BY <1>3, <2>4 DEF Claim, Numbered
  <2> HIDE DEF n
  <2>6. QED
    BY <1>1, <1>3, <2>1, <2>5
<1>4. QED
  BY <1>2, <1>3

LEMMA ClaimIsNew ==
  ASSUME NoLookAlikes, ClaimsOK, NEW b \in Bases
  PROVE  /\ Claim(b).id \in Seq(Parts) \ {NoId}
         /\ Claim(b).next \in Nat \ {0}
         /\ expected[b] <= Claim(b).next
         /\ \/ Claim(b).id = b
            \/ \E i \in 1 .. Claim(b).next - 1 : Claim(b).id = Indexed(b, i)
         /\ \A l \in Called : stepId[l] # Claim(b).id
<1>1. expected[b] \in Nat
  BY DEF ClaimsOK
<1>2. CASE expected[b] = 0
  <2>1. Claim(b).id = b /\ Claim(b).next = 1 /\ \A l \in Called : stepId[l] # b
    BY <1>2, ClaimValue
  <2>2. b \in Seq(Parts) \ {NoId}
    BY BaseType DEF NoId
  <2>3. QED
    BY <1>1, <1>2, <2>1, <2>2
<1>3. CASE expected[b] # 0
  <2>1. /\ Claim(b).id = Indexed(b, expected[b]) /\ Claim(b).next = expected[b] + 1
        /\ \A l \in Called : stepId[l] # Indexed(b, expected[b])
    BY <1>3, ClaimValue
  <2>2. Indexed(b, expected[b]) \in Seq(Parts) \ {NoId}
    BY <1>1, IndexedType
  <2>3. expected[b] \in 1 .. Claim(b).next - 1
    BY <1>1, <1>3, <2>1
  <2>4. QED
    BY <1>1, <2>1, <2>2, <2>3
<1>4. QED
  BY <1>2, <1>3

\* A call that takes the id it claims keeps the ids apart.
LEMMA ClaimKeeps ==
  ASSUME NoLookAlikes, ClaimsOK, NEW k \in Calls, NEW b \in Bases,
         stepId' = [stepId EXCEPT ![k] = Claim(b).id],
         expected' = [expected EXCEPT ![b] = Claim(b).next]
  PROVE  /\ expected' \in [Bases -> Nat]
         /\ stepId' \in [Calls -> Seq(Parts)]
         /\ Called' = Called \cup {k}
         /\ \A l \in Called' : \E a \in Bases : Below(stepId[l], a)'
         /\ \A l, m \in Called' : stepId'[l] = stepId'[m] => l = m
<1> DEFINE c == Claim(b)
<1>1. /\ c.id \in Seq(Parts) \ {NoId} /\ c.next \in Nat \ {0} /\ expected[b] <= c.next
      /\ c.id = b \/ \E i \in 1 .. c.next - 1 : c.id = Indexed(b, i)
      /\ \A l \in Called : stepId[l] # c.id
  BY ClaimIsNew
<1>2. /\ stepId' = [stepId EXCEPT ![k] = c.id]
      /\ expected' = [expected EXCEPT ![b] = c.next]
  OBVIOUS
<1> HIDE DEF c
<1>3. stepId \in [Calls -> Seq(Parts)] /\ expected \in [Bases -> Nat]
  BY DEF ClaimsOK
<1>4. stepId' \in [Calls -> Seq(Parts)] /\ expected' \in [Bases -> Nat]
  BY <1>1, <1>2, <1>3
<1>5. stepId'[k] = c.id /\ \A l \in Calls \ {k} : stepId'[l] = stepId[l]
  BY <1>2, <1>3
<1>6. Called' = Called \cup {k}
  BY <1>1, <1>5 DEF Called
<1>7. ASSUME NEW l \in Called' PROVE \E a \in Bases : Below(stepId[l], a)'
  <2>1. CASE l = k
    <3>1. expected'[b] = c.next
      BY <1>2, <1>3
    <3>2. Below(stepId[k], b)'
      BY <1>1, <1>5, <3>1 DEF Below, Indexed
    <3>3. QED
      BY <2>1, <3>2
  <2>2. CASE l # k
    <3>1. l \in Called /\ stepId'[l] = stepId[l]
      BY <1>5, <1>6, <1>7, <2>2 DEF Called
    <3>2. PICK a \in Bases : Below(stepId[l], a)
      BY <3>1 DEF ClaimsOK
    <3>3. expected[a] <= expected'[a] /\ expected'[a] \in Nat /\ expected[a] \in Nat
      BY <1>1, <1>2, <1>3
    <3>4. Below(stepId[l], a)'
      BY <3>1, <3>2, <3>3 DEF Below, Indexed
    <3>5. QED
      BY <3>4
  <2>3. QED
    BY <2>1, <2>2
<1>8. ASSUME NEW l \in Called', NEW m \in Called', stepId'[l] = stepId'[m] PROVE l = m
  BY <1>1, <1>5, <1>6, <1>8 DEF ClaimsOK, Called
<1>9. QED
  BY <1>4, <1>6, <1>7, <1>8

-----------------------------------------------------------------------------
(* The steps.                                                              *)

LEMMA FreshClaims == ASSUME NEW order, Fresh(order) PROVE ClaimsOK'
<1>1. stepId' = [k \in Calls |-> NoId] /\ expected' = [b \in Bases |-> 0]
  BY DEF Fresh
<1>2. NoId \in Seq(Parts)
  BY EmptySeq DEF NoId
<1>3. Called' = {}
  BY <1>1 DEF Called
<1>4. registered' = <<>> /\ applying' = <<>> /\ stage' = [k \in Calls |-> "uncalled"]
  BY DEF Fresh
<1>5. registered' \in Seq(Called') /\ applying' \in Seq(Called')
  BY <1>4, EmptySeq
<1>6. QED
  BY <1>1, <1>2, <1>3, <1>4, <1>5 DEF ClaimsOK, Stages

\* A step that only takes calls further keeps the claims.
LEMMA StageKeeps ==
  ASSUME ClaimsOK, UNCHANGED claimVars, stage' \in [Calls -> Stages],
         \A k \in Calls : stage'[k] # "uncalled" => stage[k] # "uncalled" \/ k \in Called
  PROVE  ClaimsOK'
<1>1. Called' = Called
  BY DEF Called, claimVars
<1>2. \A id, b : Below(id, b)' <=> Below(id, b)
  BY DEF Below, claimVars
<1>3. QED
  BY <1>1, <1>2 DEF ClaimsOK, claimVars

LEMMA SettleKeeps ==
  ASSUME ClaimsOK, UNCHANGED claimVars, NEW k, k \in Calls => k \in Called, NEW results,
         Settle(k, results)
  PROVE  ClaimsOK'
<1>1. stage' \in [Calls -> Stages]
  BY DEF Settle, ClaimsOK, Stages
<1>2. ASSUME NEW c \in Calls, stage'[c] # "uncalled" PROVE stage[c] # "uncalled" \/ c \in Called
  BY <1>2 DEF Settle
<1>3. QED
  BY <1>1, <1>2, StageKeeps

LEMMA CallStepClaims == ASSUME NoLookAlikes, ClaimsOK, CallStep PROVE ClaimsOK'
<1>1. PICK i \in DOMAIN Program :
        LET k == Program[i]
        IN /\ stepId' = [stepId EXCEPT ![k] = Claim(Id[k]).id]
           /\ expected' = [expected EXCEPT ![Id[k]] = Claim(Id[k]).next]
           /\ stage' = [stage EXCEPT ![k] = "applying"]
           /\ applying' = Append(applying, k)
  BY DEF CallStep
<1> DEFINE k == Program[i]
<1>2. k \in Calls /\ Id[k] \in Bases
  BY DEF Calls, Bases
<1>3. registered' = registered
  BY DEF CallStep
<1>4. /\ expected' \in [Bases -> Nat]
      /\ stepId' \in [Calls -> Seq(Parts)]
      /\ Called' = Called \cup {k}
      /\ \A l \in Called' : \E a \in Bases : Below(stepId[l], a)'
      /\ \A l, m \in Called' : stepId'[l] = stepId'[m] => l = m
  BY <1>1, <1>2, ClaimKeeps
<1> HIDE DEF k
<1>5. registered' \in Seq(Called')
  BY <1>3, <1>4, SeqMonotonic DEF ClaimsOK
<1>6. applying' \in Seq(Called')
  <2>1. applying \in Seq(Called') /\ k \in Called'
    BY <1>4, SeqMonotonic DEF ClaimsOK
  <2>2. QED
    BY <1>1, <2>1, AppendProperties DEF k
<1>7. /\ stage' \in [Calls -> Stages]
      /\ \A l \in Calls : stage'[l] # "uncalled" => l \in Called'
  BY <1>1, <1>2, <1>4 DEF ClaimsOK, Stages, k
<1>8. QED
  BY <1>4, <1>5, <1>6, <1>7 DEF ClaimsOK

LEMMA ApplyMiddlewareClaims == ASSUME NoLookAlikes, ClaimsOK, ApplyMiddleware PROVE ClaimsOK'
<1> DEFINE k == Head(applying)
           claim == IF Renamed[k] = Id[k] THEN [id |-> stepId[k], next |-> expected[Id[k]]]
                                          ELSE Claim(Renamed[k])
<1>1. /\ stepId' = [stepId EXCEPT ![k] = claim.id]
      /\ expected' = [expected EXCEPT ![Renamed[k]] = claim.next]
      /\ registered' = Append(registered, k)
      /\ applying' = Tail(applying)
      /\ \E s \in {"wrapping", "found"} : stage' = [stage EXCEPT ![k] = s]
  BY DEF ApplyMiddleware
<1>2. k \in Called /\ applying' \in Seq(Called)
  BY <1>1, HeadTailProperties DEF ApplyMiddleware, ClaimsOK
<1>3. k \in Calls /\ Id[k] \in Bases /\ Renamed[k] \in Bases
  BY <1>2 DEF Called, Bases
<1>4. /\ expected' \in [Bases -> Nat]
      /\ stepId' \in [Calls -> Seq(Parts)]
      /\ Called' = Called
      /\ \A l \in Called' : \E a \in Bases : Below(stepId[l], a)'
      /\ \A l, m \in Called' : stepId'[l] = stepId'[m] => l = m
  <2>1. CASE Renamed[k] = Id[k]
    <3>1. stepId' = stepId /\ expected' = expected
      BY <1>1, <1>3, <2>1 DEF ClaimsOK
    <3>2. Called' = Called /\ \A id, b : Below(id, b)' <=> Below(id, b)
      BY <3>1 DEF Called, Below
    <3>3. QED
      BY <3>1, <3>2 DEF ClaimsOK
  <2>2. CASE Renamed[k] # Id[k]
    <3>1. /\ stepId' = [stepId EXCEPT ![k] = Claim(Renamed[k]).id]
          /\ expected' = [expected EXCEPT ![Renamed[k]] = Claim(Renamed[k]).next]
      BY <1>1, <2>2
    <3> HIDE DEF k, claim
    <3>2. Called' = Called \cup {k}
      BY <1>3, <3>1, ClaimKeeps
    <3>3. Called' = Called
      BY <1>2, <3>2
    <3>4. QED
      BY <1>3, <3>1, <3>3, ClaimKeeps
  <2>3. QED
    BY <2>1, <2>2
<1> HIDE DEF k, claim
<1>5. registered' \in Seq(Called')
  BY <1>1, <1>2, <1>4, AppendProperties DEF ClaimsOK
<1>6. /\ stage' \in [Calls -> Stages]
      /\ \A l \in Calls : stage'[l] # "uncalled" => l \in Called'
  BY <1>1, <1>2, <1>4 DEF ClaimsOK, Stages
<1>7. QED
  BY <1>2, <1>4, <1>5, <1>6 DEF ClaimsOK

LEMMA HandleMemoizedClaims == ASSUME ClaimsOK, HandleMemoized PROVE ClaimsOK'
<1>1. UNCHANGED claimVars
  BY DEF HandleMemoized
<1>2. PICK k \in found : /\ stage[k] = "found"
                         /\ \/ stage' = [stage EXCEPT ![k] = "unwrapping"]
                            \/ Settle(k, done)
  BY DEF HandleMemoized
<1>3. k \in Calls => k \in Called
  BY <1>2 DEF ClaimsOK
<1>4. CASE stage' = [stage EXCEPT ![k] = "unwrapping"]
  <2>1. stage' \in [Calls -> Stages]
    BY <1>4 DEF ClaimsOK, Stages
  <2>2. \A c \in Calls : stage'[c] # "uncalled" => stage[c] # "uncalled" \/ c \in Called
    BY <1>3, <1>4 DEF ClaimsOK
  <2>3. QED
    BY <1>1, <2>1, <2>2, StageKeeps
<1>5. CASE Settle(k, done)
  BY <1>1, <1>3, <1>5, SettleKeeps
<1>6. QED
  BY <1>2, <1>4, <1>5

LEMMA StepResumesClaims == ASSUME ClaimsOK, StepResumes PROVE ClaimsOK'
<1>1. UNCHANGED claimVars
  BY DEF StepResumes
<1>2. PICK n \in DOMAIN registered : Settle(registered[n], done')
  BY DEF StepResumes
<1>3. registered[n] \in Called
  BY <1>2, ElementOfSeq DEF ClaimsOK
<1>4. QED
  BY <1>1, <1>2, <1>3, SettleKeeps

LEMMA NextClaims == ASSUME NoLookAlikes, ClaimsOK, [Next]_vars PROVE ClaimsOK'
<1>1. ASSUME NEW order, Fresh(order) PROVE ClaimsOK'
  BY <1>1, FreshClaims
<1>2. ASSUME UNCHANGED <<claimVars, stage>> PROVE ClaimsOK'
  BY <1>2, StageKeeps DEF ClaimsOK
<1>3. CASE StartRequest
  BY <1>1, <1>3 DEF StartRequest
<1>4. CASE LateRequest
  BY <1>1, <1>4 DEF LateRequest
<1>5. CASE RequestFails
  BY <1>1, <1>5 DEF RequestFails, EndRequest
<1>6. CASE WaitEnds
  BY <1>2, <1>6 DEF WaitEnds, requestVars
<1>7. CASE CallStep
  BY <1>7, CallStepClaims
<1>8. CASE ApplyMiddleware
  BY <1>8, ApplyMiddlewareClaims
<1>9. CASE HandleMemoized
  BY <1>9, HandleMemoizedClaims
<1>10. CASE ReportFound
  BY <1>2, <1>10 DEF ReportFound
<1>11. CASE StepRan
  BY <1>1, <1>11 DEF StepRan, EndRequest
<1>12. CASE StepResumes
  BY <1>12, StepResumesClaims
<1>13. CASE StepsPlanned
  BY <1>1, <1>13 DEF StepsPlanned, EndRequest
<1>14. CASE NothingToDo
  BY <1>2, <1>14 DEF NothingToDo
<1>15. CASE FunctionReturns
  BY <1>1, <1>15 DEF FunctionReturns
<1>16. CASE UNCHANGED vars
  BY <1>2, <1>16 DEF vars, requestVars
<1>17. QED
  BY <1>3, <1>4, <1>5, <1>6, <1>7, <1>8, <1>9, <1>10, <1>11, <1>12, <1>13, <1>14, <1>15, <1>16
     DEF Next, SdkStep

LEMMA InitClaims == Init => ClaimsOK
<1> SUFFICES ASSUME Init PROVE ClaimsOK
  OBVIOUS
<1>1. stepId = [k \in Calls |-> NoId] /\ expected = [b \in Bases |-> 0]
  BY DEF Init
<1>2. Called = {} /\ NoId \in Seq(Parts) /\ <<>> \in Seq({})
  BY <1>1, EmptySeq DEF Called, NoId
<1>3. QED
  BY <1>1, <1>2 DEF Init, ClaimsOK, Stages

\* Two calls of a request never have the same id, whatever their ids, their order, the
\* middleware that renames and wraps them and the requests that replay them, if no id
\* looks like another with an index (resolveStepIdCollision).
THEOREM IdsAreApart == NoLookAlikes => (Spec => []OneIdPerCall)
<1> SUFFICES ASSUME NoLookAlikes PROVE Spec => []OneIdPerCall
  OBVIOUS
<1>1. Init => ClaimsOK
  BY InitClaims
<1>2. ClaimsOK /\ [Next]_vars => ClaimsOK'
  BY NextClaims
<1>3. ClaimsOK => OneIdPerCall
  BY DEF ClaimsOK, OneIdPerCall
<1>4. QED
  BY <1>1, <1>2, <1>3, PTL DEF Spec

-----------------------------------------------------------------------------
(* Which id a call gets in every request.                                  *)
(*                                                                         *)
(* The results are recorded in an order, d, and a request that has been    *)
(* given the first m of them lets user code go where they lead.  So a call *)
(* has a place in that order - the first results that let user code reach  *)
(* it - and the calls of one id are numbered by it.                        *)

\* The calls a middleware makes, and those of user code.
Made == {Prepended[k] : k \in Calls} \ {NoCall}
Users == Calls \ Made

\* What a middleware may do: a step it makes has an id of its own and is made for one
\* step, which it does not wait for but through the step it is made for.
MadeApart ==
  /\ \A p \in Made : /\ CallAfter[p] = {} /\ Prepended[p] = NoCall
                     /\ \A k \in Calls \ {p} : {Id[k], Renamed[k]} \cap {Id[p], Renamed[p]} = {}
  /\ \A k \in Calls : CallAfter[k] \subseteq SUBSET Users
  /\ \A k, l \in Calls : Prepended[k] = Prepended[l] /\ Prepended[k] # NoCall => k = l

Results == [id : Seq(Parts), by : Calls]

\* The first m results of d: whose they are, the calls of user code that settle with
\* them, and whether user code reaches k.
Behind(d, m) == {d[i].by : i \in 1 .. m}
Visible(d, m) == {k \in Users : {k, Prepended[k]} \ {NoCall} \subseteq Behind(d, m)}
Reached(d, k, m) == \E A \in CallAfter[k] : A \subseteq Visible(d, m)

\* What a call claims: the id it is made with, and the one a middleware gives it.
Claims == {c \in Calls \X {1, 2} : c[2] = 2 => Renamed[c[1]] # Id[c[1]]}
Base(c) == IF c[2] = 1 THEN Id[c[1]] ELSE Renamed[c[1]]
LastClaim(k) == <<k, IF Renamed[k] = Id[k] THEN 1 ELSE 2>>

\* The order of the claims: by the results that reach the call, and of those that are
\* reached together the calls as user code makes them, then what the middleware gives.
Turns(d, k) == {m \in 0 .. Len(d) : Reached(d, k, m)}
Before(l, k) == \E i \in DOMAIN Program : Program[i] = l /\ \A j \in 1 .. i : Program[j] # k
Earlier(d, b, c) ==
  /\ Turns(d, c[1]) \subseteq Turns(d, b[1])
  /\ Turns(d, b[1]) = Turns(d, c[1]) => b[2] < c[2] \/ (b[2] = c[2] /\ Before(b[1], c[1]))

Namesakes(d, c) == {b \in Claims : Base(b) = Base(c) /\ Earlier(d, b, c)}
IdOf(d, c) ==
  IF Namesakes(d, c) = {} THEN Base(c) ELSE Indexed(Base(c), Cardinality(Namesakes(d, c)))
FinalId(d, k) == IdOf(d, LastClaim(k))

\* The place of k is settled: no later result changes it.
Placed(d, k) == k \in Users => Reached(d, k, Len(d))

LEMMA CallsFinite == IsFiniteSet(Calls) /\ \A S \in SUBSET Calls : IsFiniteSet(S)
<1>1. Program \in Seq(Calls) /\ Len(Program) \in Nat
  BY ProgramAssumption, LenProperties
<1>2. Program \in [1 .. Len(Program) -> Calls] /\ DOMAIN Program = 1 .. Len(Program)
  BY <1>1, LenProperties
<1>3. Program \in Surjection(1 .. Len(Program), Calls)
  BY <1>2 DEF Surjection, Calls
<1>4. IsFiniteSet(1 .. Len(Program))
  BY <1>1, FS_Interval
<1>5. IsFiniteSet(Calls)
  BY <1>3, <1>4, FS_Surjection
<1>6. QED
  BY <1>5, FS_Subset

LEMMA LeastNat == \A T \in SUBSET Nat : T # {} => \E m \in T : \A n \in T : m <= n
<1> SUFFICES ASSUME NEW T \in SUBSET Nat, T # {} PROVE \E m \in T : \A n \in T : m <= n
  OBVIOUS
<1> DEFINE R == {ss \in Nat \X Nat : ss[1] < ss[2]}
<1>1. IsWellFoundedOn(R, Nat)
  BY NatLessThanWellFounded DEF OpToRel
<1>2. PICK m \in T : \A n \in T : ~(<<n, m>> \in R)
  <2> HIDE DEF R
  <2>1. QED
    BY <1>1, WFMin
<1>3. ASSUME NEW n \in T PROVE m <= n
  <2>1. <<n, m>> \in Nat \X Nat
    OBVIOUS
  <2>2. ~(n < m)
    BY <1>2, <2>1
  <2>3. QED
    BY <2>2
<1>4. QED
  BY <1>3

LEMMA ProgramOrder ==
  /\ \A k, l \in Calls : k # l => Before(k, l) \/ Before(l, k)
  /\ \A k, l \in Calls : ~(Before(k, l) /\ Before(l, k))
  /\ \A j, k, l \in Calls : Before(j, k) /\ Before(k, l) => Before(j, l)
<1>1. DOMAIN Program \in SUBSET Nat /\ \A i \in DOMAIN Program : i >= 1 /\ 1 .. i \subseteq DOMAIN Program
  BY ProgramAssumption, LenProperties
<1>2. ASSUME NEW k \in Calls, NEW l \in Calls, k # l PROVE Before(k, l) \/ Before(l, k)
  <2> DEFINE T == {i \in DOMAIN Program : Program[i] \in {k, l}}
  <2>1. T \in SUBSET Nat /\ T # {}
    BY <1>1 DEF Calls
  <2>2. PICK m \in T : \A n \in T : m <= n
    BY <2>1, LeastNat
  <2>3. \A j \in 1 .. m : j # m => Program[j] \notin {k, l}
    BY <1>1, <2>2
  <2>4. QED
    BY <1>1, <1>2, <2>2, <2>3 DEF Before
<1>3. ASSUME NEW k \in Calls, NEW l \in Calls, Before(k, l), Before(l, k) PROVE FALSE
  <2>1. PICK i \in DOMAIN Program : Program[i] = k /\ \A j \in 1 .. i : Program[j] # l
    BY <1>3 DEF Before
  <2>2. PICK h \in DOMAIN Program : Program[h] = l /\ \A j \in 1 .. h : Program[j] # k
    BY <1>3 DEF Before
  <2>3. i \in 1 .. h \/ h \in 1 .. i
    BY <1>1
  <2>4. QED
    BY <2>1, <2>2, <2>3
<1>4. ASSUME NEW j \in Calls, NEW k \in Calls, NEW l \in Calls, Before(j, k), Before(k, l)
      PROVE  Before(j, l)
  <2>1. PICK i \in DOMAIN Program : Program[i] = j /\ \A n \in 1 .. i : Program[n] # k
    BY <1>4 DEF Before
  <2>2. PICK h \in DOMAIN Program : Program[h] = k /\ \A n \in 1 .. h : Program[n] # l
    BY <1>4 DEF Before
  <2>3. h \notin 1 .. i
    BY <2>1, <2>2
  <2>4. 1 .. i \subseteq 1 .. h
    BY <1>1, <2>3
  <2>5. QED
    BY <2>1, <2>2, <2>4 DEF Before
<1>5. QED
  BY <1>2, <1>3, <1>4

\* More results let user code go further.
LEMMA ReachGrows ==
  ASSUME NEW d, NEW m \in Nat, NEW n \in Nat, m <= n
  PROVE  /\ Behind(d, m) \subseteq Behind(d, n)
         /\ Visible(d, m) \subseteq Visible(d, n)
         /\ \A k \in Calls : Reached(d, k, m) => Reached(d, k, n)
<1>1. 1 .. m \subseteq 1 .. n
  OBVIOUS
<1>2. Behind(d, m) \subseteq Behind(d, n)
  BY <1>1 DEF Behind
<1>3. Visible(d, m) \subseteq Visible(d, n)
  BY <1>2 DEF Visible
<1>4. QED
  BY <1>2, <1>3 DEF Reached

LEMMA ReachSame ==
  ASSUME NEW d \in Seq(Results), NEW r \in Results
  PROVE  /\ Append(d, r) \in Seq(Results) /\ Len(Append(d, r)) = Len(d) + 1
         /\ \A i \in 1 .. Len(d) : Append(d, r)[i] = d[i]
         /\ Append(d, r)[Len(d) + 1] = r
         /\ \A m \in 0 .. Len(d) : /\ Behind(Append(d, r), m) = Behind(d, m)
                                   /\ Visible(Append(d, r), m) = Visible(d, m)
                                   /\ \A k \in Calls : Reached(Append(d, r), k, m) = Reached(d, k, m)
         /\ Behind(Append(d, r), Len(d) + 1) = Behind(d, Len(d)) \cup {r.by}
<1> DEFINE e == Append(d, r)
<1>1. /\ e \in Seq(Results) /\ Len(e) = Len(d) + 1 /\ Len(d) \in Nat
      /\ \A i \in 1 .. Len(d) : e[i] = d[i]
      /\ e[Len(d) + 1] = r
  BY AppendProperties, LenProperties
<1> HIDE DEF e
<1>2. ASSUME NEW m \in 0 .. Len(d) PROVE Behind(e, m) = Behind(d, m)
  BY <1>1, <1>2 DEF Behind
<1>3. Behind(e, Len(d) + 1) = Behind(d, Len(d)) \cup {r.by}
  <2>1. 1 .. Len(d) + 1 = (1 .. Len(d)) \cup {Len(d) + 1}
    BY <1>1
  <2>2. QED
    BY <1>1, <2>1 DEF Behind
<1>4. ASSUME NEW m \in 0 .. Len(d) PROVE Visible(e, m) = Visible(d, m)
  BY <1>2 DEF Visible
<1>5. ASSUME NEW m \in 0 .. Len(d), NEW k \in Calls PROVE Reached(e, k, m) = Reached(d, k, m)
  BY <1>4 DEF Reached
<1>6. QED
  BY <1>1, <1>2, <1>3, <1>4, <1>5 DEF e

\* A call that has been reached keeps its place among all others.
LEMMA TurnsAfter ==
  ASSUME NEW d \in Seq(Results), NEW r \in Results, NEW k \in Calls
  PROVE  /\ Turns(d, k) = Turns(Append(d, r), k) \cap (0 .. Len(d))
         /\ Turns(Append(d, r), k) \subseteq Turns(d, k) \cup {Len(d) + 1}
         /\ Reached(d, k, Len(d)) => Turns(Append(d, r), k) = Turns(d, k) \cup {Len(d) + 1}
<1> DEFINE e == Append(d, r)
<1>1. Len(d) \in Nat
  BY LenProperties
<1>2. /\ Len(e) = Len(d) + 1
      /\ \A m \in 0 .. Len(d) : Reached(e, k, m) = Reached(d, k, m)
  BY ReachSame
<1> HIDE DEF e
<1>3. Turns(d, k) = Turns(e, k) \cap (0 .. Len(d))
  BY <1>1, <1>2 DEF Turns
<1>4. Turns(e, k) \subseteq Turns(d, k) \cup {Len(d) + 1}
  BY <1>1, <1>2 DEF Turns
<1>5. ASSUME Reached(d, k, Len(d)) PROVE Len(d) + 1 \in Turns(e, k)
  <2>1. Reached(e, k, Len(d))
    BY <1>1, <1>2, <1>5
  <2>2. Reached(e, k, Len(d) + 1)
    BY <1>1, <2>1, ReachGrows
  <2>3. QED
    BY <1>1, <1>2, <2>2 DEF Turns
<1>6. QED
  BY <1>3, <1>4, <1>5 DEF e

LEMMA TurnsUp ==
  ASSUME NEW d \in Seq(Results), NEW k \in Calls, NEW m \in Turns(d, k), NEW n \in 0 .. Len(d), m <= n
  PROVE  n \in Turns(d, k)
<1>1. Len(d) \in Nat /\ m \in Nat /\ n \in Nat /\ Reached(d, k, m)
  BY LenProperties DEF Turns
<1>2. QED
  BY <1>1, ReachGrows DEF Turns

LEMMA ClaimType ==
  /\ \A c \in Claims : /\ c[1] \in Calls /\ c[2] \in {1, 2} /\ c = <<c[1], c[2]>> /\ Base(c) \in Bases
                       /\ c[2] = 2 => Renamed[c[1]] # Id[c[1]]
  /\ \A k \in Calls : /\ <<k, 1>> \in Claims /\ Base(<<k, 1>>) = Id[k]
                      /\ LastClaim(k) \in Claims /\ LastClaim(k)[1] = k
                      /\ Renamed[k] # Id[k] => LastClaim(k) = <<k, 2>> /\ Base(<<k, 2>>) = Renamed[k]
                      /\ Renamed[k] = Id[k] => LastClaim(k) = <<k, 1>>
  /\ IsFiniteSet(Claims)
<1>1. ASSUME NEW c \in Claims
      PROVE  /\ c[1] \in Calls /\ c[2] \in {1, 2} /\ c = <<c[1], c[2]>> /\ Base(c) \in Bases
             /\ c[2] = 2 => Renamed[c[1]] # Id[c[1]]
  BY DEF Claims, Base, Bases
<1>2. ASSUME NEW k \in Calls
      PROVE  /\ <<k, 1>> \in Claims /\ Base(<<k, 1>>) = Id[k]
             /\ LastClaim(k) \in Claims /\ LastClaim(k)[1] = k
             /\ Renamed[k] # Id[k] => LastClaim(k) = <<k, 2>> /\ Base(<<k, 2>>) = Renamed[k]
             /\ Renamed[k] = Id[k] => LastClaim(k) = <<k, 1>>
  BY DEF Claims, Base, LastClaim
<1>3. IsFiniteSet(Claims)
  <2>1. IsFiniteSet({1, 2})
    <3>1. IsFiniteSet({1}) /\ IsFiniteSet({2})
      BY FS_Singleton
    <3>2. IsFiniteSet({1} \cup {2})
      BY <3>1, FS_Union
    <3>3. {1} \cup {2} = {1, 2}
      OBVIOUS
    <3>4. QED
      BY <3>2, <3>3
  <2>2. IsFiniteSet(Calls \X {1, 2})
    BY <2>1, CallsFinite, FS_Product
  <2>3. Claims \subseteq Calls \X {1, 2}
    BY DEF Claims
  <2>4. QED
    BY <2>2, <2>3, FS_Subset
<1>4. QED
  BY <1>1, <1>2, <1>3

LEMMA EarlierStays ==
  ASSUME NEW d \in Seq(Results), NEW r \in Results, NEW c \in Claims, Reached(d, c[1], Len(d)), NEW b \in Claims
  PROVE  Earlier(Append(d, r), b, c) = Earlier(d, b, c)
<1> DEFINE e == Append(d, r)
           n == Len(d)
<1>1. PICK k \in Calls : k = c[1]
  BY ClaimType
<1>2. PICK l \in Calls : l = b[1]
  BY ClaimType
<1>3. n \in Nat /\ n \in Turns(d, k)
  BY <1>1, LenProperties DEF Turns
<1>4. /\ Turns(d, k) = Turns(e, k) \cap (0 .. n)
      /\ Turns(e, k) = Turns(d, k) \cup {n + 1}
      /\ Turns(d, l) = Turns(e, l) \cap (0 .. n)
      /\ Turns(e, l) \subseteq Turns(d, l) \cup {n + 1}
      /\ n \in Turns(d, l) => Turns(e, l) = Turns(d, l) \cup {n + 1}
  BY <1>1, TurnsAfter DEF Turns
<1> HIDE DEF e, n
<1>5. Turns(d, k) \subseteq Turns(d, l) <=> Turns(e, k) \subseteq Turns(e, l)
  BY <1>3, <1>4
<1>6. Turns(d, k) = Turns(d, l) <=> Turns(e, k) = Turns(e, l)
  BY <1>3, <1>4
<1>7. QED
  BY <1>1, <1>2, <1>5, <1>6 DEF Earlier, e

LEMMA EarlierOrder ==
  ASSUME NEW d \in Seq(Results)
  PROVE  /\ \A b, c \in Claims : b # c => Earlier(d, b, c) \/ Earlier(d, c, b)
         /\ \A b, c \in Claims : ~(Earlier(d, b, c) /\ Earlier(d, c, b))
         /\ \A a, b, c \in Claims : Earlier(d, a, b) /\ Earlier(d, b, c) => Earlier(d, a, c)
<1>1. ASSUME NEW k \in Calls, NEW l \in Calls
      PROVE  Turns(d, k) \subseteq Turns(d, l) \/ Turns(d, l) \subseteq Turns(d, k)
  <2> SUFFICES ASSUME NEW m \in Turns(d, k), m \notin Turns(d, l), NEW n \in Turns(d, l), n \notin Turns(d, k)
               PROVE  FALSE
    OBVIOUS
  <2>1. m \in 0 .. Len(d) /\ n \in 0 .. Len(d) /\ Len(d) \in Nat
    BY LenProperties DEF Turns
  <2>2. m <= n \/ n <= m
    BY <2>1
  <2>3. QED
    BY <2>1, <2>2, TurnsUp
<1> DEFINE Less(b, c) == b[2] < c[2] \/ (b[2] = c[2] /\ Before(b[1], c[1]))
<1>2. /\ \A b, c \in Claims : b # c => Less(b, c) \/ Less(c, b)
      /\ \A b, c \in Claims : ~(Less(b, c) /\ Less(c, b))
      /\ \A a, b, c \in Claims : Less(a, b) /\ Less(b, c) => Less(a, c)
  <2>1. ASSUME NEW b \in Claims, NEW c \in Claims, b # c PROVE Less(b, c) \/ Less(c, b)
    <3>1. b[2] < c[2] \/ c[2] < b[2] \/ (b[2] = c[2] /\ b[1] # c[1])
      BY <2>1, ClaimType
    <3>2. QED
      BY <3>1, ClaimType, ProgramOrder
  <2>2. ASSUME NEW b \in Claims, NEW c \in Claims PROVE ~(Less(b, c) /\ Less(c, b))
    BY ClaimType, ProgramOrder
  <2>3. ASSUME NEW a \in Claims, NEW b \in Claims, NEW c \in Claims, Less(a, b), Less(b, c) PROVE Less(a, c)
    BY <2>3, ClaimType, ProgramOrder
  <2>4. QED
    BY <2>1, <2>2, <2>3
<1>3. \A b, c : Earlier(d, b, c) <=> /\ Turns(d, c[1]) \subseteq Turns(d, b[1])
                                     /\ Turns(d, b[1]) = Turns(d, c[1]) => Less(b, c)
  BY DEF Earlier
<1> HIDE DEF Less
<1>4. ASSUME NEW b \in Claims, NEW c \in Claims, b # c PROVE Earlier(d, b, c) \/ Earlier(d, c, b)
  BY <1>1, <1>2, <1>3, <1>4, ClaimType
<1>5. ASSUME NEW b \in Claims, NEW c \in Claims PROVE ~(Earlier(d, b, c) /\ Earlier(d, c, b))
  <2> SUFFICES ASSUME Earlier(d, b, c), Earlier(d, c, b) PROVE FALSE
    OBVIOUS
  <2>1. Turns(d, b[1]) = Turns(d, c[1])
    BY <1>3
  <2>2. Less(b, c) /\ Less(c, b)
    BY <1>3, <2>1
  <2>3. QED
    BY <1>2, <2>2
<1>6. ASSUME NEW a \in Claims, NEW b \in Claims, NEW c \in Claims, Earlier(d, a, b), Earlier(d, b, c)
      PROVE  Earlier(d, a, c)
  <2>1. Turns(d, c[1]) \subseteq Turns(d, a[1])
    BY <1>3, <1>6
  <2>2. ASSUME Turns(d, a[1]) = Turns(d, c[1]) PROVE Less(a, c)
    <3>1. Turns(d, a[1]) = Turns(d, b[1]) /\ Turns(d, b[1]) = Turns(d, c[1])
      BY <1>3, <1>6, <2>2
    <3>2. Less(a, b) /\ Less(b, c)
      BY <1>3, <1>6, <3>1
    <3>3. QED
      BY <1>2, <3>2
  <2>3. QED
    BY <1>3, <2>1, <2>2
<1>7. QED
  BY <1>4, <1>5, <1>6

\* No two claims are for the same id.
LEMMA IdOfInjective ==
  ASSUME NoLookAlikes, NEW d \in Seq(Results), NEW b \in Claims, NEW c \in Claims, IdOf(d, b) = IdOf(d, c)
  PROVE  b = c
<1>1. IsFiniteSet(Namesakes(d, b)) /\ IsFiniteSet(Namesakes(d, c))
  <2>1. Namesakes(d, b) \subseteq Claims /\ Namesakes(d, c) \subseteq Claims
    BY DEF Namesakes
  <2>2. QED
    BY <2>1, ClaimType, FS_Subset
<1>2. Cardinality(Namesakes(d, b)) \in Nat /\ Cardinality(Namesakes(d, c)) \in Nat
  BY <1>1, FS_CardinalityType
<1>3. Base(b) \in Bases /\ Base(c) \in Bases
  BY ClaimType
<1>4. Base(b) = Base(c) /\ Cardinality(Namesakes(d, b)) = Cardinality(Namesakes(d, c))
  <2>1. CASE Namesakes(d, b) = {} /\ Namesakes(d, c) = {}
    BY <2>1 DEF IdOf
  <2>2. CASE Namesakes(d, b) = {} /\ Namesakes(d, c) # {}
    BY <1>2, <1>3, <2>2 DEF IdOf, NoLookAlikes
  <2>3. CASE Namesakes(d, b) # {} /\ Namesakes(d, c) = {}
    BY <1>2, <1>3, <2>3 DEF IdOf, NoLookAlikes
  <2>4. CASE Namesakes(d, b) # {} /\ Namesakes(d, c) # {}
    BY <1>2, <1>3, <2>4, IndexedInjective DEF IdOf
  <2>5. QED
    BY <2>1, <2>2, <2>3, <2>4
<1>5. ASSUME NEW x \in Claims, NEW y \in Claims, Base(x) = Base(y), Earlier(d, x, y),
             Cardinality(Namesakes(d, x)) = Cardinality(Namesakes(d, y)),
             IsFiniteSet(Namesakes(d, y))
      PROVE  FALSE
  <2>1. Namesakes(d, x) \in SUBSET Namesakes(d, y)
    BY <1>5, EarlierOrder DEF Namesakes
  <2>2. x \in Namesakes(d, y) /\ x \notin Namesakes(d, x)
    BY <1>5, EarlierOrder DEF Namesakes
  <2>3. Namesakes(d, y) = Namesakes(d, x)
    BY <1>5, <2>1, FS_Subset
  <2>4. QED
    BY <2>2, <2>3
<1>6. QED
  BY <1>1, <1>4, <1>5, EarlierOrder

\* No two calls have the same id.
LEMMA FinalIdInjective ==
  ASSUME NoLookAlikes, NEW d \in Seq(Results), NEW k \in Calls, NEW l \in Calls, FinalId(d, k) = FinalId(d, l)
  PROVE  k = l
<1>1. PICK b \in Claims : b = LastClaim(k) /\ b[1] = k
  BY ClaimType
<1>2. PICK c \in Claims : c = LastClaim(l) /\ c[1] = l
  BY ClaimType
<1>3. IdOf(d, b) = IdOf(d, c)
  BY <1>1, <1>2 DEF FinalId
<1>4. QED
  BY <1>1, <1>2, <1>3, IdOfInjective

\* A step that a middleware makes shares no id.
LEMMA MadeAlone ==
  ASSUME MadeApart, NEW b \in Claims, NEW c \in Claims, Base(b) = Base(c), c[1] \notin Users
  PROVE  b = c
<1>1. c[1] \in Made
  BY ClaimType DEF Users
<1>2. b[1] = c[1]
  <2>1. b[1] \in Calls /\ {Base(b), Base(c)} \subseteq {Id[b[1]], Renamed[b[1]]} \cap {Id[c[1]], Renamed[c[1]]}
    <3>1. Base(b) \in {Id[b[1]], Renamed[b[1]]} /\ Base(c) \in {Id[c[1]], Renamed[c[1]]}
      BY DEF Base
    <3>2. QED
      BY <3>1, ClaimType
  <2>2. QED
    BY <1>1, <2>1 DEF MadeApart
<1>3. b[2] = c[2]
  BY <1>2, ClaimType DEF Base
<1>4. QED
  BY <1>2, <1>3, ClaimType

LEMMA ClaimStays ==
  ASSUME MadeApart, NEW d \in Seq(Results), NEW r \in Results, NEW c \in Claims, Placed(d, c[1])
  PROVE  /\ Namesakes(Append(d, r), c) = Namesakes(d, c)
         /\ IdOf(Append(d, r), c) = IdOf(d, c)
<1>1. Append(d, r) \in Seq(Results)
  BY ReachSame
<1>2. ASSUME NEW b \in Claims, Base(b) = Base(c) PROVE Earlier(Append(d, r), b, c) = Earlier(d, b, c)
  <2>1. CASE c[1] \in Users
    BY <2>1, EarlierStays DEF Placed
  <2>2. CASE c[1] \notin Users
    <3>1. b = c
      BY <1>2, <2>2, MadeAlone
    <3>2. ~Earlier(Append(d, r), c, c) /\ ~Earlier(d, c, c)
      BY <1>1, EarlierOrder
    <3>3. Earlier(Append(d, r), c, c) \in BOOLEAN /\ Earlier(d, c, c) \in BOOLEAN
      BY DEF Earlier
    <3>4. QED
      BY <3>1, <3>2, <3>3
  <2>3. QED
    BY <2>1, <2>2
<1>3. Namesakes(Append(d, r), c) = Namesakes(d, c)
  BY <1>2 DEF Namesakes
<1>4. QED
  BY <1>3 DEF IdOf

LEMMA IdStays ==
  ASSUME MadeApart, NEW d \in Seq(Results), NEW r \in Results, NEW k \in Calls, Placed(d, k)
  PROVE  FinalId(Append(d, r), k) = FinalId(d, k) /\ Placed(Append(d, r), k)
<1>1. Append(d, r) \in Seq(Results) /\ Len(d) \in Nat /\ Len(Append(d, r)) = Len(d) + 1
  BY ReachSame, LenProperties
<1>2. FinalId(Append(d, r), k) = FinalId(d, k)
  BY ClaimType, ClaimStays DEF FinalId
<1>3. Placed(Append(d, r), k)
  <2> SUFFICES ASSUME Reached(d, k, Len(d)) PROVE Reached(Append(d, r), k, Len(d) + 1)
    BY <1>1 DEF Placed
  <2>1. Reached(Append(d, r), k, Len(d))
    BY <1>1, ReachSame
  <2>2. QED
    BY <1>1, <2>1, ReachGrows
<1>4. QED
  BY <1>2, <1>3

-----------------------------------------------------------------------------
(* What a request has in common with the results recorded so far.          *)

\* k may be recorded after the first m results: they let user code reach it, or the step it
\* is made for, and what a middleware does before a step comes before it.
Due(d, k, m) ==
  /\ k \in Users => Reached(d, k, m)
  /\ k \notin Waits /\ Prepended[k] # NoCall => Prepended[k] \in Behind(d, m)
  /\ \A w \in Calls : Prepended[w] = k => Reached(d, w, m) /\ (w \in Waits => w \in Behind(d, m))

ServerOK ==
  /\ done \in Seq(Results) /\ planned \subseteq Results
  /\ \A i \in DOMAIN done : Due(done, done[i].by, i - 1) /\ done[i].id = FinalId(done, done[i].by)
  /\ \A p \in planned : Due(done, p.by, Len(done)) /\ p.id = FinalId(done, p.by)
  /\ \A i, j \in DOMAIN done : done[i].id = done[j].id => i = j

\* What a call has claimed: the id it is made with at once, and the one a middleware gives
\* it when that is through with it.  Its id is what it has claimed last.
On(k) == stage[k] \notin {"uncalled", "applying"}
Claimed(c) == IF c[2] = 1 THEN stage[c[1]] # "uncalled" ELSE On(c[1])
Begun(base) == {c \in Claims : Base(c) = base /\ Claimed(c)}
Current(k) == IF On(k) THEN LastClaim(k) ELSE <<k, 1>>

NumbersOK ==
  /\ \A k \in Calls : stage[k] # "uncalled" => Placed(done, k) /\ stepId[k] = IdOf(done, Current(k))
  /\ \A b \in Bases : expected[b] = Cardinality(Begun(b))
  /\ \A c \in Claims : Claimed(c) => \A b \in Namesakes(done, c) : Claimed(b)

ApplyingOK ==
  /\ \A i, j \in DOMAIN applying : applying[i] = applying[j] => i = j
  /\ \A i \in DOMAIN applying : stage[applying[i]] = "applying"
  /\ \A k \in Calls : stage[k] = "applying" => \E i \in DOMAIN applying : applying[i] = k

\* The calls of user code wait for the middleware in the order user code makes them, and
\* those that are still to be made with them come behind.
QueueOK ==
  /\ \A i, j \in DOMAIN applying : i < j /\ applying[i] \in Users /\ applying[j] \in Users =>
       Before(applying[i], applying[j])
  /\ \A l, k \in Users : stage[l] = "applying" /\ Ready(k) => Before(l, k)
  /\ \A k \in Users : stage[k] # "uncalled" => \E A \in CallAfter[k] : A \subseteq Settled

\* A step and the one that a middleware makes before it.
WrapOK ==
  /\ \A k \in Calls : stage[k] = "wrapping" => stepId[k] \notin known /\ k \notin Waits
  /\ \A w \in Calls : stage[w] \in {"wrapping", "unwrapping"} => Prepended[w] # NoCall
  /\ \A w \in Calls : Prepended[w] # NoCall =>
       /\ stage[Prepended[w]] \notin {"wrapping", "unwrapping"}
       /\ stage[Prepended[w]] # "uncalled" => On(w) /\ (w \in Waits => stage[w] \in {"unwrapping", "settled"})
       /\ stage[Prepended[w]] = "settled" => stage[w] \in {"found", "settled"}
       /\ stage[w] = "settled" => stage[Prepended[w]] = "settled"
       /\ stage[w] = "found" /\ stepId[w] \in known => stage[Prepended[w]] = "uncalled"
       /\ stage[w] = "found" /\ stepId[w] \notin known /\ w \notin Waits => stage[Prepended[w]] = "settled"

\* A request knows a prefix of the results, and remaining lists, in their order, all of
\* them that it has not handled.
KnownOK ==
  /\ remaining \in Seq(Seq(Parts))
  /\ \E n \in 0 .. Len(done) : known = {done[i].id : i \in 1 .. n}
  /\ \A i \in DOMAIN remaining : remaining[i] \in known
  /\ \A h, i \in DOMAIN remaining : h < i => \A j, l \in DOMAIN done :
       done[j].id = remaining[h] /\ done[l].id = remaining[i] => j < l
  /\ \A j \in DOMAIN done : done[j].id \in known /\ stage[done[j].by] \notin {"settled", "unwrapping"} =>
       \E i \in DOMAIN remaining : remaining[i] = done[j].id
  /\ \A k \in Calls : stage[k] \in {"settled", "unwrapping"} => stepId[k] \in known

\* What has settled in a request is what a prefix of the results settles, and each shorter
\* prefix has led user code as far as it leads.
SettledUsers == Users \cap Settled
OrderOK ==
  /\ \E m \in 0 .. Len(done) : SettledUsers = Visible(done, m)
  /\ \A j \in 0 .. Len(done) : Visible(done, j) \subseteq Settled /\ Visible(done, j) # SettledUsers =>
       \A k \in Calls : Reached(done, k, j) => On(k)
  /\ \A w \in Calls \ Waits : stage[w] = "unwrapping" =>
       \A j \in DOMAIN done : done[j].by = w => Visible(done, j - 1) \subseteq Settled

\* No step that is to be reported is forgotten, and reporting waits for everything else.
FoundOK ==
  /\ \A k \in found \cup report : k \in Calls /\ stage[k] \in {"found", "unwrapping", "settled"}
  /\ \A k \in Calls : stage[k] = "found" /\ (\E i \in DOMAIN remaining : remaining[i] = stepId[k]) => k \in found
  /\ req.step = NoId =>
       \A k \in Calls : stage[k] = "found" /\ stepId[k] \notin known => k \in found \cup report
  /\ report # {} => UserWaits /\ applying = <<>> /\ found = {} /\ ~ticking

GotOK == \A k \in Calls : got[k] \in {k, NoCall}

\* Between requests nothing is called.
Cleared(order) ==
  /\ remaining = order /\ known = ToSet(order)
  /\ expected = [b \in Bases |-> 0]
  /\ registered = <<>> /\ applying = <<>> /\ found = {} /\ report = {}
  /\ stage = [k \in Calls |-> "uncalled"] /\ stepId = [k \in Calls |-> NoId]
  /\ got = [k \in Calls |-> NoCall] /\ ticking = FALSE
NothingCalled == \E n \in 0 .. Len(done) : Cleared([i \in 1 .. n |-> done[i].id])
IdleOK ==
  /\ \A j \in jobs : j.on /\ j.len \in Nat
  /\ req.len \in Nat
  /\ ~req.on => Cleared(<<>>)

RequestOK == NumbersOK /\ ApplyingOK /\ QueueOK /\ WrapOK /\ KnownOK /\ OrderOK /\ FoundOK /\ GotOK
ReplayOK == ClaimsOK /\ ServerOK /\ RequestOK /\ IdleOK

\* The hypotheses of what follows.
CallsApart == NoLookAlikes /\ MadeApart

LEMMA MadeFor ==
  ASSUME MadeApart, NEW w \in Calls, Prepended[w] # NoCall
  PROVE  /\ w \in Users /\ Prepended[w] \in Calls /\ Prepended[w] \in Made /\ Prepended[w] \notin Users
         /\ Prepended[Prepended[w]] = NoCall /\ CallAfter[Prepended[w]] = {} /\ Prepended[w] # w
         /\ \A v \in Calls : Prepended[v] = Prepended[w] => v = w
<1>1. Prepended[w] \in Calls
  BY ProgramAssumption
<1>2. Prepended[w] \in Made
  BY DEF Made
<1>3. QED
  BY <1>1, <1>2 DEF MadeApart, Users, Made

LEMMA DueStays ==
  ASSUME NEW d \in Seq(Results), NEW r \in Results, NEW k \in Calls, NEW m \in 0 .. Len(d), Due(d, k, m)
  PROVE  Due(Append(d, r), k, m)
<1>1. /\ Behind(Append(d, r), m) = Behind(d, m)
      /\ \A l \in Calls : Reached(Append(d, r), l, m) = Reached(d, l, m)
  BY ReachSame
<1>2. QED
  BY <1>1 DEF Due

LEMMA DueLater ==
  ASSUME NEW d, NEW k \in Calls, NEW m \in Nat, NEW n \in Nat, m <= n, Due(d, k, m)
  PROVE  Due(d, k, n)
BY ReachGrows DEF Due

LEMMA DuePlaced ==
  ASSUME NEW d \in Seq(Results), NEW k \in Calls, NEW m \in 0 .. Len(d), Due(d, k, m)
  PROVE  Placed(d, k)
<1>1. Len(d) \in Nat /\ m \in Nat /\ m <= Len(d)
  BY LenProperties
<1>2. QED
  BY <1>1, ReachGrows DEF Due, Placed

LEMMA ServerDomain ==
  ASSUME ServerOK
  PROVE  /\ Len(done) \in Nat /\ DOMAIN done = 1 .. Len(done)
         /\ \A i \in DOMAIN done : /\ done[i] \in Results /\ done[i].by \in Calls
                                   /\ i - 1 \in 0 .. Len(done) /\ i \in Nat
         /\ \A i \in DOMAIN done : Placed(done, done[i].by)
<1>1. Len(done) \in Nat /\ DOMAIN done = 1 .. Len(done) /\ \A i \in DOMAIN done : done[i] \in Results
  BY LenProperties, ElementOfSeq DEF ServerOK
<1>2. \A i \in DOMAIN done : i - 1 \in 0 .. Len(done) /\ i \in Nat
  BY <1>1
<1>3. ASSUME NEW i \in DOMAIN done PROVE Placed(done, done[i].by)
  <2>1. done \in Seq(Results) /\ done[i].by \in Calls /\ i - 1 \in 0 .. Len(done) /\ Due(done, done[i].by, i - 1)
    BY <1>1, <1>2 DEF ServerOK, Results
  <2>2. QED
    BY <2>1, DuePlaced
<1>4. QED
  BY <1>1, <1>2, <1>3 DEF Results

\* Recording a new result.
LEMMA ServerRecords ==
  ASSUME CallsApart, ServerOK, NEW r \in Results, Due(done, r.by, Len(done)), r.id = FinalId(done, r.by),
         r.id \notin IdsOf(done), done' = Append(done, r), planned' = planned
  PROVE  ServerOK'
<1> DEFINE n == Len(done)
<1>1. /\ n \in Nat /\ DOMAIN done = 1 .. n /\ done \in Seq(Results) /\ r.by \in Calls
      /\ \A i \in DOMAIN done : done[i].by \in Calls /\ i - 1 \in 0 .. n /\ Placed(done, done[i].by)
  BY ServerDomain DEF ServerOK, Results
<1>2. /\ done' \in Seq(Results) /\ Len(done') = n + 1 /\ DOMAIN done' = 1 .. n + 1
      /\ \A i \in 1 .. n : done'[i] = done[i]
      /\ done'[n + 1] = r
  BY <1>1, ReachSame, LenProperties
<1>3. ASSUME NEW k \in Calls, NEW m \in 0 .. n, Due(done, k, m)
      PROVE  Due(done', k, m) /\ FinalId(done', k) = FinalId(done, k)
  <2>1. Placed(done, k)
    BY <1>1, <1>3, DuePlaced
  <2>2. FinalId(done', k) = FinalId(done, k)
    BY <1>1, <2>1, IdStays DEF CallsApart
  <2>3. QED
    BY <1>1, <1>3, <2>2, DueStays
<1>4. ASSUME NEW i \in DOMAIN done'
      PROVE  Due(done', done'[i].by, i - 1) /\ done'[i].id = FinalId(done', done'[i].by)
  <2>1. CASE i \in 1 .. n
    BY <1>1, <1>2, <1>3, <2>1 DEF ServerOK
  <2>2. CASE i = n + 1
    <3>1. i - 1 = n /\ n \in 0 .. n
      BY <1>1, <2>2
    <3>2. QED
      BY <1>1, <1>2, <1>3, <2>2, <3>1
  <2>3. QED
    BY <1>1, <1>2, <2>1, <2>2
<1>5. ASSUME NEW p \in planned PROVE Due(done', p.by, n + 1) /\ p.id = FinalId(done', p.by)
  <2>1. Due(done, p.by, n) /\ p.id = FinalId(done, p.by) /\ p.by \in Calls /\ n \in 0 .. n
    BY <1>1 DEF ServerOK, Results
  <2>2. Due(done', p.by, n) /\ FinalId(done', p.by) = FinalId(done, p.by)
    BY <1>3, <2>1
  <2>3. n + 1 \in Nat /\ n <= n + 1
    BY <1>1
  <2>4. Due(done', p.by, n + 1)
    BY <1>1, <2>1, <2>2, <2>3, DueLater
  <2>5. QED
    BY <2>1, <2>2, <2>4
<1>6. ASSUME NEW i \in DOMAIN done', NEW j \in DOMAIN done', done'[i].id = done'[j].id PROVE i = j
  <2>1. \A h \in 1 .. n : done[h].id # r.id
    BY <1>1 DEF IdsOf
  <2>2. i \in 1 .. n \/ i = n + 1
    BY <1>1, <1>2
  <2>3. j \in 1 .. n \/ j = n + 1
    BY <1>1, <1>2
  <2>4. QED
    BY <1>1, <1>2, <1>6, <2>1, <2>2, <2>3 DEF ServerOK
<1>7. QED
  BY <1>2, <1>4, <1>5, <1>6 DEF ServerOK

LEMMA ServerSame == ASSUME ServerOK, UNCHANGED <<done, planned>> PROVE ServerOK'
BY DEF ServerOK

LEMMA VisibleIn ==
  \A d, m, k : k \in Visible(d, m) <=>
    k \in Users /\ k \in Behind(d, m) /\ (Prepended[k] # NoCall => Prepended[k] \in Behind(d, m))
<1> SUFFICES ASSUME NEW d, NEW m, NEW k \in Users
             PROVE  {k, Prepended[k]} \ {NoCall} \subseteq Behind(d, m) <=>
                      k \in Behind(d, m) /\ (Prepended[k] # NoCall => Prepended[k] \in Behind(d, m))
  BY DEF Visible
<1>1. k # NoCall
  BY ProgramAssumption DEF Users
<1>2. QED
  BY <1>1

LEMMA VisibleZero == \A d : Visible(d, 0) = {}
<1> SUFFICES ASSUME NEW d, NEW k \in Visible(d, 0) PROVE FALSE
  OBVIOUS
<1>1. Behind(d, 0) = {}
  BY DEF Behind
<1>2. QED
  BY <1>1, VisibleIn

\* What the result of call k adds to what is settled, at the first result that is k's or that
\* of the step made for k.
LEMMA VisibleNext ==
  ASSUME NEW d \in Seq(Results), NEW v \in 1 .. Len(d), NEW k \in Visible(d, v), k \notin Visible(d, v - 1)
  PROVE  d[v].by = k \/ (Prepended[k] # NoCall /\ d[v].by = Prepended[k])
<1>1. v \in Nat /\ v - 1 \in Nat /\ Len(d) \in Nat
  BY LenProperties
<1>2. 1 .. v = (1 .. v - 1) \cup {v}
  BY <1>1
<1>3. Behind(d, v) = Behind(d, v - 1) \cup {d[v].by}
  BY <1>2 DEF Behind
<1>4. QED
  BY <1>3, VisibleIn

-----------------------------------------------------------------------------
(* What holds when nothing is called.                                      *)

LEMMA ClearedReplay == ServerOK /\ NothingCalled => RequestOK
<1> SUFFICES ASSUME ServerOK, NEW n \in 0 .. Len(done), Cleared([i \in 1 .. n |-> done[i].id]) PROVE RequestOK
  BY DEF NothingCalled
<1> DEFINE order == [i \in 1 .. n |-> done[i].id]
<1>1. /\ remaining = order /\ known = ToSet(order)
      /\ expected = [b \in Bases |-> 0] /\ applying = <<>> /\ found = {} /\ report = {}
      /\ stage = [k \in Calls |-> "uncalled"] /\ got = [k \in Calls |-> NoCall]
  BY DEF Cleared
<1>2. \A k \in Calls : stage[k] = "uncalled"
  BY <1>1
<1>3. /\ done \in Seq(Results) /\ Len(done) \in Nat /\ DOMAIN done = 1 .. Len(done)
      /\ n \in Nat /\ \A i \in 1 .. n : i \in DOMAIN done /\ done[i] \in Results
      /\ \A i, j \in DOMAIN done : done[i].id = done[j].id => i = j
  <2>1. done \in Seq(Results)
    BY DEF ServerOK
  <2>2. Len(done) \in Nat /\ DOMAIN done = 1 .. Len(done)
    BY <2>1, LenProperties
  <2>3. \A i \in 1 .. n : i \in DOMAIN done
    BY <2>2
  <2>4. \A i \in DOMAIN done : done[i] \in Results
    BY <2>1, <2>2, ElementOfSeq
  <2>5. QED
    BY <2>1, <2>2, <2>3, <2>4 DEF ServerOK
<1>4. NumbersOK
  <2>1. \A c \in Claims : ~Claimed(c)
    BY <1>2, ClaimType DEF Claimed, On
  <2>2. \A b \in Bases : Begun(b) = {} /\ expected[b] = 0
    BY <1>1, <2>1 DEF Begun
  <2>3. QED
    BY <1>2, <2>1, <2>2, FS_EmptySet DEF NumbersOK
<1>5. ApplyingOK
  <2>1. DOMAIN applying = {}
    BY <1>1
  <2>2. QED
    BY <1>2, <2>1 DEF ApplyingOK
<1>6. QueueOK
  <2>1. DOMAIN applying = {}
    BY <1>1
  <2>2. \A k \in Users : stage[k] = "uncalled"
    BY <1>2 DEF Users
  <2>3. QED
    BY <2>1, <2>2 DEF QueueOK
<1>7. WrapOK
  <2>1. \A w \in Calls : Prepended[w] # NoCall => Prepended[w] \in Calls
    BY ProgramAssumption
  <2>2. QED
    BY <1>2, <2>1 DEF WrapOK
<1>8. KnownOK
  <2>1. order \in Seq(Seq(Parts)) /\ Len(order) = n /\ DOMAIN order = 1 .. n
    <3>1. order \in [1 .. n -> Seq(Parts)]
      BY <1>3 DEF Results
    <3>2. QED
      BY <1>3, <3>1, LenProperties
  <2>2. \A i \in 1 .. n : order[i] = done[i].id
    OBVIOUS
  <2> HIDE DEF order
  <2>3. known = {done[i].id : i \in 1 .. n}
    BY <1>1, <2>1, <2>2 DEF ToSet
  <2>4. ASSUME NEW h \in 1 .. n, NEW i \in 1 .. n, h < i, NEW j \in DOMAIN done, NEW l \in DOMAIN done,
               done[j].id = order[h], done[l].id = order[i]
        PROVE  j < l
    <3>1. j = h /\ l = i
      BY <1>3, <2>2, <2>4
    <3>2. QED
      BY <2>4, <3>1
  <2>5. ASSUME NEW j \in DOMAIN done, done[j].id \in known
        PROVE  \E i \in 1 .. n : order[i] = done[j].id
    BY <2>2, <2>3, <2>5
  <2>6. remaining = order
    BY <1>1 DEF order
  <2>7. \E m \in 0 .. Len(done) : known = {done[i].id : i \in 1 .. m}
    BY <2>3
  <2>8. \A h, i \in DOMAIN remaining : h < i => \A j, l \in DOMAIN done :
          done[j].id = remaining[h] /\ done[l].id = remaining[i] => j < l
    BY <2>1, <2>4, <2>6
  <2>9. \A j \in DOMAIN done : done[j].id \in known =>
          \E i \in DOMAIN remaining : remaining[i] = done[j].id
    BY <2>1, <2>5, <2>6
  <2>10. \A i \in DOMAIN remaining : remaining[i] \in known
    BY <2>1, <2>2, <2>3, <2>6
  <2>11. QED
    BY <1>2, <2>1, <2>6, <2>7, <2>8, <2>9, <2>10 DEF KnownOK
<1>9. OrderOK
  <2>1. SettledUsers = {} /\ Settled = {}
    BY <1>2 DEF SettledUsers, Settled
  <2>2. Visible(done, 0) = {} /\ 0 \in 0 .. Len(done)
    BY <1>3, VisibleZero
  <2>3. QED
    BY <1>2, <2>1, <2>2 DEF OrderOK
<1>10. FoundOK /\ GotOK
  BY <1>1, <1>2 DEF FoundOK, GotOK
<1>11. QED
  BY <1>4, <1>5, <1>6, <1>7, <1>8, <1>9, <1>10 DEF RequestOK

LEMMA ClearedReplayNext == (ServerOK /\ NothingCalled => RequestOK)'
BY ClearedReplay, PTL

-----------------------------------------------------------------------------
(* Results are handled in the order they were recorded in.                 *)

LEMMA KnownEntry ==
  ASSUME CallsApart, ServerOK, NumbersOK, KnownOK, NEW k \in Calls, On(k)
  PROVE  /\ stepId[k] = FinalId(done, k)
         /\ \A i \in DOMAIN done : done[i].id = stepId[k] <=> done[i].by = k
         /\ stepId[k] \in known => \E i \in DOMAIN done : done[i].by = k
         /\ stepId[k] \in known /\ stage[k] \notin {"settled", "unwrapping"} =>
              \E i \in DOMAIN remaining : remaining[i] = stepId[k]
<1>1. stepId[k] = FinalId(done, k)
  BY DEF NumbersOK, Current, FinalId, On
<1>2. ASSUME NEW i \in DOMAIN done PROVE done[i].id = stepId[k] <=> done[i].by = k
  <2>1. done[i].by \in Calls /\ done \in Seq(Results) /\ done[i].id = FinalId(done, done[i].by)
    BY ServerDomain DEF ServerOK
  <2>2. QED
    BY <1>1, <2>1, FinalIdInjective DEF CallsApart
<1>3. ASSUME stepId[k] \in known PROVE \E i \in DOMAIN done : done[i].by = k
  <2>1. PICK n \in 0 .. Len(done) : known = {done[i].id : i \in 1 .. n}
    BY DEF KnownOK
  <2>2. 1 .. n \subseteq DOMAIN done
    BY ServerDomain
  <2>3. QED
    BY <1>2, <1>3, <2>1, <2>2
<1>4. ASSUME stepId[k] \in known, stage[k] \notin {"settled", "unwrapping"}
      PROVE  \E i \in DOMAIN remaining : remaining[i] = stepId[k]
  <2>1. PICK i \in DOMAIN done : done[i].by = k /\ done[i].id = stepId[k]
    BY <1>2, <1>3, <1>4
  <2>2. QED
    BY <1>4, <2>1 DEF KnownOK
<1>5. QED
  BY <1>1, <1>2, <1>3, <1>4

LEMMA KnownPrefix ==
  ASSUME ServerOK, KnownOK, NEW j \in DOMAIN done, done[j].id \in known, NEW u \in 1 .. j
  PROVE  u \in DOMAIN done /\ done[u].id \in known
<1>1. PICK n \in 0 .. Len(done) : known = {done[i].id : i \in 1 .. n}
  BY DEF KnownOK
<1>2. PICK i \in 1 .. n : done[i].id = done[j].id
  BY <1>1
<1>3. i \in DOMAIN done /\ u \in DOMAIN done
  BY ServerDomain
<1>4. i = j
  BY <1>2, <1>3 DEF ServerOK
<1>5. u \in 1 .. n
  BY <1>4, ServerDomain
<1>6. QED
  BY <1>1, <1>3, <1>5

\* When user code waits, whatever it has been led to has been called and prepared.
LEMMA LedOn ==
  ASSUME CallsApart, ServerOK, UserWaits, applying = <<>>, ApplyingOK,
         NEW m, Visible(done, m) \subseteq Settled, NEW k \in Calls, Reached(done, k, m)
  PROVE  On(k)
<1>1. stage[k] # "uncalled"
  BY DEF Reached, UserWaits, Ready
<1>2. stage[k] # "applying"
  BY DEF ApplyingOK
<1>3. QED
  BY <1>1, <1>2 DEF On

LEMMA MadeOn ==
  ASSUME CallsApart, UserWaits, applying = <<>>, ApplyingOK, NEW w \in Calls,
         stage[w] \in {"wrapping", "unwrapping"}, Prepended[w] # NoCall
  PROVE  On(Prepended[w])
<1>1. Prepended[w] \in Calls
  BY MadeFor DEF CallsApart
<1>2. InWrap(Prepended[w])
  BY DEF InWrap
<1>3. stage[Prepended[w]] # "uncalled"
  BY <1>1, <1>2 DEF UserWaits, Ready
<1>4. stage[Prepended[w]] # "applying"
  BY <1>1 DEF ApplyingOK
<1>5. QED
  BY <1>3, <1>4 DEF On

\* If the first v results settle more than has settled, one of them is that of a step that
\* has been found.
LEMMA FoundAmong ==
  ASSUME CallsApart, ServerOK, UserWaits, applying = <<>>, ClaimsOK, ApplyingOK, WrapOK,
         NEW v \in DOMAIN done, Visible(done, v - 1) \subseteq Settled, ~(Visible(done, v) \subseteq Settled)
  PROVE  \E c \in Calls, u \in 1 .. v : stage[c] = "found" /\ done[u].by = c
<1>1. PICK l \in Visible(done, v) : l \notin Settled
  OBVIOUS
<1>2. /\ v \in 1 .. Len(done) /\ done \in Seq(Results) /\ l \in Users /\ l \in Calls
      /\ l \notin Visible(done, v - 1)
  BY <1>1, ServerDomain, VisibleIn DEF ServerOK, Users
<1>3. Reached(done, l, v - 1)
  <2>1. Due(done, done[v].by, v - 1)
    BY DEF ServerOK
  <2>2. QED
    BY <1>1, <1>2, <2>1, VisibleNext DEF Due
<1>4. On(l)
  BY <1>2, <1>3, LedOn
<1>5. stage[l] \in {"wrapping", "found", "unwrapping"}
  BY <1>1, <1>2, <1>4 DEF On, Settled, ClaimsOK, Stages
<1>6. CASE stage[l] = "found"
  BY <1>1, <1>2, <1>6, VisibleIn DEF Behind
<1>7. CASE stage[l] # "found"
  <2>1. stage[l] \in {"wrapping", "unwrapping"} /\ Prepended[l] # NoCall
    BY <1>2, <1>5, <1>7 DEF WrapOK
  <2>2. Prepended[l] \in Calls /\ On(Prepended[l])
    BY <1>2, <2>1, MadeFor, MadeOn DEF CallsApart
  <2>3. stage[Prepended[l]] \notin {"wrapping", "unwrapping", "settled"}
    BY <1>2, <2>1 DEF WrapOK
  <2>4. stage[Prepended[l]] = "found"
    BY <2>2, <2>3 DEF On, ClaimsOK, Stages
  <2>5. Prepended[l] \in Behind(done, v)
    BY <1>1, <2>1, VisibleIn
  <2>6. QED
    BY <2>2, <2>4, <2>5 DEF Behind
<1>8. QED
  BY <1>6, <1>7

\* So if a prefix of the results settles more than has settled, a step of it is found.
LEMMA FoundWithin ==
  ASSUME CallsApart, ServerOK, UserWaits, applying = <<>>, ClaimsOK, ApplyingOK, WrapOK,
         NEW n \in 0 .. Len(done), ~(Visible(done, n) \subseteq Settled)
  PROVE  \E c \in Calls, u \in 1 .. n : stage[c] = "found" /\ done[u].by = c
<1>1. Len(done) \in Nat /\ DOMAIN done = 1 .. Len(done)
  BY ServerDomain
<1> DEFINE T == {m \in 0 .. n : ~(Visible(done, m) \subseteq Settled)}
<1>2. T \in SUBSET Nat /\ T # {}
  BY <1>1
<1>3. PICK v \in T : \A m \in T : v <= m
  BY <1>2, LeastNat
<1>4. v # 0
  BY <1>3, VisibleZero
<1>5. v \in DOMAIN done /\ v - 1 \in 0 .. n /\ v - 1 \notin T
  BY <1>1, <1>3, <1>4
<1>6. PICK c \in Calls, u \in 1 .. v : stage[c] = "found" /\ done[u].by = c
  BY <1>3, <1>5, FoundAmong
<1>7. u \in 1 .. n
  BY <1>1, <1>3
<1>8. QED
  BY <1>6, <1>7

\* The memoized step that is handled is the first that is left: all results before its own
\* have settled.
LEMMA HandledInOrder ==
  ASSUME CallsApart, ServerOK, RequestOK, ClaimsOK, UserWaits, applying = <<>>,
         NEW i \in Handleable, \A h \in Handleable : i <= h,
         NEW j \in DOMAIN done, done[j].id = remaining[i]
  PROVE  Visible(done, j - 1) \subseteq Settled
<1> SUFFICES ASSUME ~(Visible(done, j - 1) \subseteq Settled) PROVE FALSE
  OBVIOUS
<1>1. j - 1 \in 0 .. Len(done) /\ j \in Nat
  BY ServerDomain
<1>2. /\ NumbersOK /\ ApplyingOK /\ WrapOK /\ KnownOK /\ FoundOK
  BY DEF RequestOK
<1>3. PICK c \in Calls, u \in 1 .. j - 1 : stage[c] = "found" /\ done[u].by = c
  BY <1>1, <1>2, FoundWithin
<1>4. i \in DOMAIN remaining /\ done[j].id \in known
  <2>1. i \in DOMAIN remaining
    BY DEF Handleable
  <2>2. QED
    BY <1>2, <2>1 DEF KnownOK
<1>5. u \in 1 .. j /\ u < j
  BY <1>1
<1>6. u \in DOMAIN done /\ done[u].id \in known
  BY <1>2, <1>4, <1>5, KnownPrefix
<1>7. On(c) /\ stage[c] \notin {"settled", "unwrapping"}
  BY <1>3 DEF On
<1>8. done[u].id = stepId[c]
  BY <1>2, <1>3, <1>6, <1>7, KnownEntry
<1>9. PICK h \in DOMAIN remaining : remaining[h] = stepId[c]
  BY <1>2, <1>6, <1>7, <1>8, KnownEntry
<1>10. c \in found
  BY <1>2, <1>3, <1>9 DEF FoundOK
<1>11. h \in Handleable
  BY <1>3, <1>9, <1>10 DEF Handleable
<1>12. i <= h /\ i \in Nat /\ h \in Nat
  BY <1>2, <1>4, <1>11, LenProperties DEF KnownOK
<1>13. i # h
  BY <1>5, <1>6, <1>8, <1>9 DEF ServerOK
<1>14. j < u
  <2>1. i < h
    BY <1>12, <1>13
  <2>2. done[j].id = remaining[i] /\ done[u].id = remaining[h]
    BY <1>8, <1>9
  <2>3. QED
    BY <1>2, <1>4, <1>6, <1>9, <2>1, <2>2 DEF KnownOK
<1>15. QED
  BY <1>1, <1>5, <1>14

-----------------------------------------------------------------------------
(* A claim is made.                                                        *)

\* The claims there are on an id are those that come before the next, if what user code
\* reaches with the next is claimed in order.
LEMMA NamesakesBegun ==
  ASSUME CallsApart, ServerOK, NumbersOK, OrderOK, NEW c \in Claims, ~Claimed(c),
         c[1] \in Users => \E A \in CallAfter[c[1]] : A \subseteq Settled,
         \A b \in Claims : /\ b[1] \in Users /\ c[1] \in Users
                           /\ \E A \in CallAfter[b[1]] : A \subseteq Settled
                           /\ b[2] < c[2] \/ (b[2] = c[2] /\ Before(b[1], c[1]))
                           => Claimed(b)
  PROVE  Placed(done, c[1]) /\ Namesakes(done, c) = Begun(Base(c))
<1>1. done \in Seq(Results) /\ Len(done) \in Nat /\ c[1] \in Calls
  BY ServerDomain, ClaimType DEF ServerOK
<1>2. PICK m \in 0 .. Len(done) : SettledUsers = Visible(done, m)
  BY DEF OrderOK
<1>3. ASSUME NEW k \in Users, NEW A \in CallAfter[k], A \subseteq Settled PROVE Reached(done, k, m)
  <2>1. A \subseteq Users
    BY <1>3 DEF CallsApart, MadeApart, Users
  <2>2. QED
    BY <1>2, <1>3, <2>1 DEF Reached, SettledUsers
<1>4. c[1] \in Users => Reached(done, c[1], m)
  BY <1>3
<1>5. Placed(done, c[1])
  <2>1. m \in Nat /\ m <= Len(done)
    BY <1>1
  <2>2. QED
    BY <1>1, <1>4, <2>1, ReachGrows DEF Placed
<1>6. ASSUME NEW b \in Begun(Base(c)) PROVE b \in Namesakes(done, c)
  <2>1. b \in Claims /\ Base(b) = Base(c) /\ Claimed(b) /\ b # c
    BY <1>6 DEF Begun
  <2>2. ~Earlier(done, c, b)
    BY <2>1 DEF NumbersOK, Namesakes
  <2>3. QED
    BY <1>1, <2>1, <2>2, EarlierOrder DEF Namesakes
<1>7. ASSUME NEW b \in Namesakes(done, c), ~Claimed(b) PROVE FALSE
  <2>1. b \in Claims /\ Base(b) = Base(c) /\ Earlier(done, b, c) /\ b # c
    BY <1>1, <1>7, EarlierOrder DEF Namesakes
  <2>2. c[1] \in Users /\ b[1] \in Users
    BY <2>1, MadeAlone DEF CallsApart
  <2>3. m \in Turns(done, c[1])
    BY <1>2, <1>4, <2>2 DEF Turns
  <2>4. CASE Turns(done, b[1]) = Turns(done, c[1])
    <3>1. Reached(done, b[1], m)
      BY <2>3, <2>4 DEF Turns
    <3>2. \E A \in CallAfter[b[1]] : A \subseteq Settled
      BY <1>2, <3>1 DEF Reached, SettledUsers
    <3>3. b[2] < c[2] \/ (b[2] = c[2] /\ Before(b[1], c[1]))
      BY <2>1, <2>4 DEF Earlier
    <3>4. QED
      BY <1>7, <2>1, <2>2, <3>2, <3>3
  <2>5. CASE Turns(done, b[1]) # Turns(done, c[1])
    <3>1. PICK j \in Turns(done, b[1]) : j \notin Turns(done, c[1])
      BY <2>1, <2>5 DEF Earlier
    <3>2. j \in 0 .. Len(done) /\ Reached(done, b[1], j) /\ ~Reached(done, c[1], j)
      BY <3>1 DEF Turns
    <3>3. j < m
      BY <1>1, <1>2, <2>3, <3>1, <3>2, TurnsUp
    <3>4. Visible(done, j) \subseteq SettledUsers
      BY <1>1, <1>2, <3>2, <3>3, ReachGrows
    <3>5. Visible(done, j) # SettledUsers
      BY <1>2, <1>4, <2>2, <3>2 DEF Reached
    <3>6. b[1] \in Calls
      BY <2>2 DEF Users
    <3>7. On(b[1])
      BY <3>2, <3>4, <3>5, <3>6 DEF OrderOK, SettledUsers
    <3>8. QED
      BY <1>7, <3>7 DEF Claimed, On
  <2>6. QED
    BY <2>4, <2>5
<1>8. QED
  BY <1>5, <1>6, <1>7 DEF Begun, Namesakes

\* A claim that is made next gets its number.
LEMMA ClaimNumbers ==
  ASSUME CallsApart, ClaimsOK, ServerOK, NumbersOK, NEW c \in Claims, NEW k \in Calls, k = c[1], ~Claimed(c),
         Placed(done, k), Namesakes(done, c) = Begun(Base(c)), done' = done,
         stepId' = [stepId EXCEPT ![k] = Claim(Base(c)).id],
         expected' = [expected EXCEPT ![Base(c)] = Claim(Base(c)).next],
         \A b \in Claims : Claimed(b)' <=> Claimed(b) \/ b = c,
         stage'[k] # "uncalled", Current(k)' = c,
         \A l \in Calls \ {k} : stage'[l] = stage[l]
  PROVE  NumbersOK' /\ stepId'[k] = IdOf(done, c)
<1>1. /\ stepId \in [Calls -> Seq(Parts)] /\ expected \in [Bases -> Nat] /\ Base(c) \in Bases
  BY ClaimType DEF ClaimsOK
<1>2. PICK B : B = Begun(Base(c))
  OBVIOUS
<1>3. IsFiniteSet(B) /\ Cardinality(B) \in Nat /\ (Cardinality(B) = 0 <=> B = {})
  <2>1. B \subseteq Claims
    BY <1>2 DEF Begun
  <2>2. IsFiniteSet(B)
    BY <2>1, ClaimType, FS_Subset
  <2>3. QED
    BY <2>2, FS_CardinalityType, FS_EmptySet
<1>4. expected[Base(c)] = Cardinality(B)
  BY <1>1, <1>2 DEF NumbersOK
<1>5. stepId'[k] = IdOf(done, c)
  <2>1. Claim(Base(c)).id = IF expected[Base(c)] = 0 THEN Base(c) ELSE Indexed(Base(c), expected[Base(c)])
    BY <1>1, ClaimValue DEF CallsApart
  <2>2. IdOf(done, c) = IF expected[Base(c)] = 0 THEN Base(c) ELSE Indexed(Base(c), expected[Base(c)])
    BY <1>2, <1>3, <1>4 DEF IdOf
  <2>3. QED
    BY <1>1, <2>1, <2>2
<1>6. expected'[Base(c)] = Cardinality(B) + 1
  <2>1. Claim(Base(c)).next = IF expected[Base(c)] = 0 THEN 1 ELSE expected[Base(c)] + 1
    BY <1>1, ClaimValue DEF CallsApart
  <2>2. QED
    BY <1>1, <1>3, <1>4, <2>1
<1>7. \A b \in Bases : b # Base(c) => expected'[b] = expected[b]
  BY <1>1
<1>8. ASSUME NEW l \in Calls, stage'[l] # "uncalled"
      PROVE  Placed(done', l) /\ stepId'[l] = IdOf(done', Current(l)')
  <2>1. CASE l = k
    BY <1>5, <2>1
  <2>2. CASE l # k
    <3>1. Current(l)' = Current(l) /\ stepId'[l] = stepId[l] /\ stage[l] # "uncalled"
      BY <1>1, <1>8, <2>2 DEF Current, On
    <3>2. QED
      BY <3>1 DEF NumbersOK
  <2>3. QED
    BY <2>1, <2>2
<1>9. ASSUME NEW b \in Bases PROVE expected'[b] = Cardinality(Begun(b)')
  <2>1. CASE b = Base(c)
    <3>1. Begun(b)' = B \cup {c} /\ c \notin B
      BY <1>2, <2>1 DEF Begun
    <3>2. Cardinality(B \cup {c}) = Cardinality(B) + 1
      BY <1>3, <3>1, FS_AddElement
    <3>3. QED
      BY <1>6, <2>1, <3>1, <3>2
  <2>2. CASE b # Base(c)
    <3>1. Begun(b)' = Begun(b)
      BY <2>2 DEF Begun
    <3>2. QED
      BY <1>7, <2>2, <3>1 DEF NumbersOK
  <2>3. QED
    BY <2>1, <2>2
<1>10. ASSUME NEW a \in Claims, NEW b \in Namesakes(done', a), Claimed(a)' PROVE Claimed(b)'
  <2>1. b \in Namesakes(done, a) /\ b \in Claims
    BY <1>10 DEF Namesakes
  <2>2. Claimed(b)
    <3>1. CASE a = c
      BY <2>1, <3>1 DEF Begun
    <3>2. CASE a # c
      BY <1>10, <2>1, <3>2 DEF NumbersOK
    <3>3. QED
      BY <3>1, <3>2
  <2>3. QED
    BY <2>1, <2>2
<1>11. QED
  BY <1>5, <1>8, <1>9, <1>10 DEF NumbersOK

LEMMA CallStepNumbers ==
  ASSUME CallsApart, ClaimsOK, ServerOK, NumbersOK, OrderOK,
         NEW i \in DOMAIN Program, NEW k \in Calls, Program[i] = k, Ready(k),
         \A j \in 1 .. i - 1 : ~Ready(Program[j]), done' = done,
         stepId' = [stepId EXCEPT ![k] = Claim(Id[k]).id],
         expected' = [expected EXCEPT ![Id[k]] = Claim(Id[k]).next],
         stage' = [stage EXCEPT ![k] = "applying"]
  PROVE  NumbersOK'
<1>1. PICK c \in Claims : c = <<k, 1>> /\ Base(c) = Id[k] /\ c[1] = k /\ c[2] = 1
  BY ClaimType
<1>2. stage[k] = "uncalled" /\ stage \in [Calls -> Stages] /\ ~Claimed(c)
  BY <1>1 DEF Ready, ClaimsOK, Claimed
<1>3. stage'[k] = "applying" /\ \A l \in Calls \ {k} : stage'[l] = stage[l]
  BY <1>2
<1>4. ASSUME k \in Users PROVE \E A \in CallAfter[k] : A \subseteq Settled
  BY <1>4, ProgramAssumption DEF Ready, InWrap, Users, Made
<1>5. ASSUME NEW b \in Claims, NEW A \in CallAfter[b[1]], A \subseteq Settled,
             b[2] < c[2] \/ (b[2] = c[2] /\ Before(b[1], c[1]))
      PROVE  Claimed(b)
  <2>1. b[2] = 1 /\ Before(b[1], k)
    BY <1>1, <1>5, ClaimType
  <2>2. PICK h \in DOMAIN Program : Program[h] = b[1] /\ \A j \in 1 .. h : Program[j] # k
    BY <2>1 DEF Before
  <2>3. DOMAIN Program = 1 .. Len(Program) /\ Len(Program) \in Nat
    BY ProgramAssumption, LenProperties
  <2>4. h \in 1 .. i - 1
    BY <2>2, <2>3
  <2>5. ~Ready(b[1])
    BY <2>2, <2>4
  <2>6. QED
    BY <1>5, <2>1, <2>5 DEF Ready, Claimed
<1>6. Placed(done, k) /\ Namesakes(done, c) = Begun(Base(c))
  BY <1>1, <1>2, <1>4, <1>5, NamesakesBegun
<1>7. ASSUME NEW b \in Claims PROVE Claimed(b)' <=> Claimed(b) \/ b = c
  <2>1. CASE b[1] = k
    BY <1>1, <1>2, <1>3, <2>1, ClaimType DEF Claimed, On
  <2>2. CASE b[1] # k
    BY <1>1, <1>3, <2>2, ClaimType DEF Claimed, On
  <2>3. QED
    BY <2>1, <2>2
<1>8. Current(k)' = c /\ stage'[k] # "uncalled"
  BY <1>1, <1>3 DEF Current, On
<1>9. /\ stepId' = [stepId EXCEPT ![k] = Claim(Base(c)).id]
      /\ expected' = [expected EXCEPT ![Base(c)] = Claim(Base(c)).next]
  BY <1>1
<1>10. QED
  BY <1>1, <1>2, <1>3, <1>6, <1>7, <1>8, <1>9, ClaimNumbers

\* A step that settles nothing leaves user code where the results have led it.
LEMMA NothingSettles ==
  ASSUME CallsApart, ServerOK, KnownOK, OrderOK, UNCHANGED <<done, known, remaining>>,
         \A k \in Calls : On(k) => On(k)',
         \A k \in Calls : stage[k] \in {"settled", "unwrapping"} \/ stage'[k] \in {"settled", "unwrapping"} =>
           stage'[k] = stage[k] /\ stepId'[k] = stepId[k]
  PROVE  KnownOK' /\ OrderOK'
<1>1. Settled' = Settled /\ SettledUsers' = SettledUsers
  BY DEF Settled, SettledUsers
<1>2. KnownOK'
  <2>1. ASSUME NEW j \in DOMAIN done, done[j].id \in known, stage'[done[j].by] \notin {"settled", "unwrapping"}
        PROVE  \E i \in DOMAIN remaining : remaining[i] = done[j].id
    <3>1. stage[done[j].by] \notin {"settled", "unwrapping"}
      BY <2>1, ServerDomain
    <3>2. QED
      BY <2>1, <3>1 DEF KnownOK
  <2>2. \A k \in Calls : stage'[k] \in {"settled", "unwrapping"} => stepId'[k] \in known
    BY DEF KnownOK
  <2>3. QED
    BY <2>1, <2>2 DEF KnownOK
<1>3. OrderOK'
  <2>1. \A j \in 0 .. Len(done) : Visible(done, j) \subseteq Settled /\ Visible(done, j) # SettledUsers =>
          \A k \in Calls : Reached(done, k, j) => On(k)'
    BY DEF OrderOK
  <2>2. \A w \in Calls \ Waits : stage'[w] = "unwrapping" =>
          \A j \in DOMAIN done : done[j].by = w => Visible(done, j - 1) \subseteq Settled
    BY DEF OrderOK
  <2>3. QED
    BY <1>1, <2>1, <2>2 DEF OrderOK
<1>4. QED
  BY <1>2, <1>3

\* A call is made: it takes the next place of its id.
LEMMA CallStepReplay == ASSUME CallsApart, ReplayOK, CallStep PROVE RequestOK'
<1>1. PICK i \in DOMAIN Program : 
        LET k == Program[i]
        IN /\ Ready(k) /\ \A j \in 1 .. i - 1 : ~Ready(Program[j])
           /\ stepId' = [stepId EXCEPT ![k] = Claim(Id[k]).id]
           /\ expected' = [expected EXCEPT ![Id[k]] = Claim(Id[k]).next]
           /\ stage' = [stage EXCEPT ![k] = "applying"]
           /\ applying' = Append(applying, k)
  BY DEF CallStep
<1>2. PICK k \in Calls : k = Program[i]
  BY DEF Calls
<1>3. /\ Ready(k) /\ stage[k] = "uncalled"
      /\ stage' = [stage EXCEPT ![k] = "applying"]
      /\ applying' = Append(applying, k)
  BY <1>1, <1>2 DEF Ready
<1>4. /\ done' = done /\ known' = known /\ remaining' = remaining
      /\ UNCHANGED <<req, found, ticking, report, got>>
  BY DEF CallStep, serverVars
<1>5. /\ ClaimsOK /\ ServerOK /\ NumbersOK /\ ApplyingOK /\ QueueOK /\ WrapOK /\ KnownOK /\ OrderOK /\ FoundOK /\ GotOK
      /\ stage \in [Calls -> Stages] /\ stepId \in [Calls -> Seq(Parts)] /\ applying \in Seq(Calls)
  <2>1. Called \subseteq Calls
    BY DEF Called
  <2>2. QED
    BY <2>1, SeqMonotonic DEF ReplayOK, RequestOK, ClaimsOK
<1>6. /\ stage'[k] = "applying"
      /\ \A l \in Calls \ {k} : stage'[l] = stage[l] /\ stepId'[l] = stepId[l]
  BY <1>1, <1>2, <1>3, <1>5
<1>7. NumbersOK'
  <2>1. \A j \in 1 .. i - 1 : ~Ready(Program[j])
    BY <1>1
  <2>2. /\ stepId' = [stepId EXCEPT ![k] = Claim(Id[k]).id]
        /\ expected' = [expected EXCEPT ![Id[k]] = Claim(Id[k]).next]
    BY <1>1, <1>2
  <2>3. QED
    BY <1>2, <1>3, <1>4, <1>5, <2>1, <2>2, CallStepNumbers
<1>8. ApplyingOK'
  <2>1. PICK n \in Nat : n = Len(applying) /\ DOMAIN applying = 1 .. n
    BY <1>5, LenProperties
  <2>2. /\ DOMAIN applying' = 1 .. n + 1
        /\ \A j \in 1 .. n : applying'[j] = applying[j]
        /\ applying'[n + 1] = k
    BY <1>3, <1>5, <2>1, AppendProperties, LenProperties
  <2>3. \A j \in 1 .. n : applying[j] \in Calls /\ applying[j] # k
    BY <1>3, <1>5, <2>1, ElementOfSeq DEF ApplyingOK
  <2>4. \A j \in 1 .. n + 1 : j \in 1 .. n \/ j = n + 1
    BY <2>1
  <2>5. \A h, j \in DOMAIN applying' : applying'[h] = applying'[j] => h = j
    BY <1>5, <2>1, <2>2, <2>3, <2>4 DEF ApplyingOK
  <2>6. \A j \in DOMAIN applying' : stage'[applying'[j]] = "applying"
    BY <1>5, <1>6, <2>1, <2>2, <2>3, <2>4 DEF ApplyingOK
  <2>7. ASSUME NEW l \in Calls, stage'[l] = "applying" PROVE \E j \in DOMAIN applying' : applying'[j] = l
    <3>1. CASE l = k
      BY <2>1, <2>2, <3>1
    <3>2. CASE l # k
      <4>1. PICK j \in DOMAIN applying : applying[j] = l
        BY <1>5, <1>6, <2>7, <3>2 DEF ApplyingOK
      <4>2. QED
        BY <2>1, <2>2, <4>1
    <3>3. QED
      BY <3>1, <3>2
  <2>8. QED
    BY <2>5, <2>6, <2>7 DEF ApplyingOK
<1>9. WrapOK'
  <2>1. ASSUME NEW w \in Calls, Prepended[w] # NoCall
        PROVE  /\ stage'[Prepended[w]] \notin {"wrapping", "unwrapping"}
               /\ stage'[Prepended[w]] # "uncalled" =>
                    On(w)' /\ (w \in Waits => stage'[w] \in {"unwrapping", "settled"})
               /\ stage'[Prepended[w]] = "settled" => stage'[w] \in {"found", "settled"}
               /\ stage'[w] = "settled" => stage'[Prepended[w]] = "settled"
               /\ stage'[w] = "found" /\ stepId'[w] \in known => stage'[Prepended[w]] = "uncalled"
               /\ stage'[w] = "found" /\ stepId'[w] \notin known /\ w \notin Waits =>
                    stage'[Prepended[w]] = "settled"
    <3>1. /\ Prepended[w] \in Calls /\ Prepended[w] # w /\ CallAfter[Prepended[w]] = {}
          /\ \A v \in Calls : Prepended[v] = Prepended[w] => v = w
      BY <2>1, MadeFor DEF CallsApart
    <3>2. CASE k = Prepended[w]
      <4>1. InWrap(k)
        BY <1>3, <3>1, <3>2 DEF Ready
      <4>2. stage[w] \in {"wrapping", "unwrapping"}
        BY <3>1, <3>2, <4>1 DEF InWrap
      <4>3. stage[w] = "wrapping" => w \notin Waits
        BY <1>5 DEF WrapOK
      <4>4. stage'[w] = stage[w]
        BY <1>6, <3>1, <3>2
      <4>5. QED
        BY <1>6, <3>2, <4>2, <4>3, <4>4 DEF On
    <3>3. CASE k = w
      <4>1. stage[Prepended[w]] = "uncalled"
        BY <1>3, <1>5, <2>1, <3>3 DEF WrapOK, On
      <4>2. QED
        BY <1>6, <3>1, <3>3, <4>1
    <3>4. CASE k # w /\ k # Prepended[w]
      <4>1. stage'[w] = stage[w] /\ stepId'[w] = stepId[w] /\ stage'[Prepended[w]] = stage[Prepended[w]]
        BY <1>6, <3>1, <3>4
      <4>2. QED
        BY <1>5, <2>1, <4>1 DEF WrapOK, On
    <3>5. QED
      BY <3>2, <3>3, <3>4
  <2>2. \A l \in Calls : stage'[l] = "wrapping" => stepId'[l] \notin known /\ l \notin Waits
    BY <1>5, <1>6 DEF WrapOK
  <2>3. \A w \in Calls : stage'[w] \in {"wrapping", "unwrapping"} => Prepended[w] # NoCall
    BY <1>5, <1>6 DEF WrapOK
  <2>4. QED
    BY <1>4, <2>1, <2>2, <2>3 DEF WrapOK
<1>10. KnownOK' /\ OrderOK'
  <2>1. /\ \A l \in Calls : On(l) => On(l)'
        /\ \A l \in Calls : stage[l] \in {"settled", "unwrapping"} \/ stage'[l] \in {"settled", "unwrapping"} =>
             stage'[l] = stage[l] /\ stepId'[l] = stepId[l]
    BY <1>3, <1>6 DEF On
  <2>2. QED
    BY <1>4, <1>5, <2>1, NothingSettles
<1>11. FoundOK'
  <2>1. report = {}
    BY <1>2, <1>3, <1>5 DEF FoundOK, UserWaits
  <2>2. \A l \in found \cup report : l \in Calls /\ l # k
    BY <1>3, <1>5 DEF FoundOK
  <2>3. \A l \in Calls : stage'[l] = "found" => stage[l] = "found" /\ stepId'[l] = stepId[l]
    BY <1>6
  <2>4. QED
    BY <1>4, <1>5, <1>6, <2>1, <2>2, <2>3 DEF FoundOK
<1>12. QueueOK'
  <2>1. Settled' = Settled /\ \A l \in Users : Ready(l)' => Ready(l) /\ l # k
    <3>1. Settled' = Settled
      BY <1>3, <1>6 DEF Settled
    <3>2. \A l \in Users : ~InWrap(l)'
      BY ProgramAssumption DEF InWrap, Users, Made
    <3>3. \A l \in Users : l \in Calls
      BY DEF Users
    <3>4. QED
      BY <1>6, <3>1, <3>2, <3>3 DEF Ready
  <2>2. ASSUME NEW l \in Users, Ready(l), l # k PROVE Before(k, l)
    <3>1. \A j \in 1 .. i - 1 : Program[j] # l
      BY <1>1, <2>2
    <3>2. DOMAIN Program = 1 .. Len(Program) /\ Len(Program) \in Nat
      BY ProgramAssumption, LenProperties
    <3>3. \A j \in 1 .. i : Program[j] # l
      BY <1>2, <2>2, <3>1, <3>2
    <3>4. QED
      BY <1>2, <3>3 DEF Before
  <2>3. k \in Users => \A l \in Users : stage[l] = "applying" => Before(l, k)
    BY <1>3, <1>5 DEF QueueOK
  <2>4. ASSUME NEW h \in DOMAIN applying', NEW j \in DOMAIN applying', h < j,
               applying'[h] \in Users, applying'[j] \in Users
        PROVE  Before(applying'[h], applying'[j])
    <3>1. PICK n \in Nat : n = Len(applying) /\ DOMAIN applying = 1 .. n
      BY <1>5, LenProperties
    <3>2. /\ DOMAIN applying' = 1 .. n + 1
          /\ \A g \in 1 .. n : applying'[g] = applying[g]
          /\ applying'[n + 1] = k
      BY <1>3, <1>5, <3>1, AppendProperties, LenProperties
    <3>3. h \in 1 .. n
      BY <2>4, <3>1, <3>2
    <3>4. CASE j \in 1 .. n
      BY <1>5, <2>4, <3>1, <3>2, <3>3, <3>4 DEF QueueOK
    <3>5. CASE j = n + 1
      <4>1. stage[applying[h]] = "applying"
        BY <1>5, <3>1, <3>3 DEF ApplyingOK
      <4>2. QED
        BY <2>3, <2>4, <3>2, <3>3, <3>5, <4>1
    <3>6. QED
      BY <2>4, <3>1, <3>2, <3>4, <3>5
  <2>5. ASSUME NEW l \in Users, NEW m \in Users, stage'[l] = "applying", Ready(m)' PROVE Before(l, m)
    <3>1. Ready(m) /\ m # k /\ l \in Calls
      BY <2>1, <2>5 DEF Users
    <3>2. CASE l = k
      BY <2>2, <3>1, <3>2
    <3>3. CASE l # k
      BY <1>5, <1>6, <2>5, <3>1, <3>3 DEF QueueOK
    <3>4. QED
      BY <3>2, <3>3
  <2>6. ASSUME NEW l \in Users, stage'[l] # "uncalled" PROVE \E A \in CallAfter[l] : A \subseteq Settled
    <3>1. l \in Calls
      BY DEF Users
    <3>2. CASE l = k
      BY <1>3, <3>2, ProgramAssumption DEF Ready, InWrap, Users, Made
    <3>3. CASE l # k
      BY <1>5, <1>6, <2>6, <3>1, <3>3 DEF QueueOK
    <3>4. QED
      BY <3>2, <3>3
  <2>7. QED
    BY <2>1, <2>4, <2>5, <2>6 DEF QueueOK
<1>13. QED
  BY <1>4, <1>5, <1>7, <1>8, <1>9, <1>10, <1>11, <1>12 DEF RequestOK, GotOK

-----------------------------------------------------------------------------
(* The middleware is through with a call.                                  *)

\* What ApplyMiddleware claims.
ClaimOf(k) ==
  IF Renamed[k] = Id[k] THEN [id |-> stepId[k], next |-> expected[Id[k]]] ELSE Claim(Renamed[k])

LEMMA ApplyNumbers ==
  ASSUME CallsApart, ClaimsOK, ServerOK, NumbersOK, OrderOK, ApplyingOK, QueueOK, UserWaits,
         applying \in Seq(Calls), NEW k \in Calls, applying # <<>>, k = applying[1],
         NEW to \in {"wrapping", "found"}, done' = done,
         stepId' = [stepId EXCEPT ![k] = ClaimOf(k).id],
         expected' = [expected EXCEPT ![Renamed[k]] = ClaimOf(k).next],
         stage' = [stage EXCEPT ![k] = to]
  PROVE  NumbersOK' /\ stepId'[k] = FinalId(done, k) /\ stepId'[k] = ClaimOf(k).id
<1>1. /\ stage \in [Calls -> Stages] /\ stepId \in [Calls -> Seq(Parts)] /\ expected \in [Bases -> Nat]
      /\ Id[k] \in Bases /\ Renamed[k] \in Bases
  BY DEF ClaimsOK, Bases
<1>2. /\ stage'[k] = to /\ stepId'[k] = ClaimOf(k).id
      /\ \A l \in Calls \ {k} : stage'[l] = stage[l] /\ stepId'[l] = stepId[l]
  BY <1>1
<1>3. stage[k] = "applying" /\ DOMAIN applying = 1 .. Len(applying) /\ Len(applying) \in Nat /\ Len(applying) >= 1
  <2>1. DOMAIN applying = 1 .. Len(applying) /\ Len(applying) \in Nat /\ Len(applying) # 0
    BY EmptySeq, LenProperties
  <2>2. 1 \in DOMAIN applying
    BY <2>1
  <2>3. QED
    BY <2>1, <2>2 DEF ApplyingOK
<1>4. ASSUME NEW b \in Claims PROVE Claimed(b)' <=> Claimed(b) \/ b = <<k, 2>>
  <2>1. CASE b[1] = k
    BY <1>2, <1>3, <2>1, ClaimType DEF Claimed, On
  <2>2. CASE b[1] # k
    BY <1>2, <2>2, ClaimType DEF Claimed, On
  <2>3. QED
    BY <2>1, <2>2
<1>5. CASE Renamed[k] = Id[k]
  <2>1. ClaimOf(k) = [id |-> stepId[k], next |-> expected[Id[k]]]
    BY <1>5 DEF ClaimOf
  <2>2. stepId' = stepId /\ expected' = expected
    BY <1>1, <1>5, <2>1
  <2>3. /\ \A b \in Claims : Claimed(b)' <=> Claimed(b)
        /\ LastClaim(k) = <<k, 1>>
    <3>1. <<k, 2>> \notin Claims
      BY <1>5 DEF Claims
    <3>2. QED
      BY <1>4, <1>5, <3>1, ClaimType
  <2>4. \A b \in Bases : Begun(b)' = Begun(b)
    BY <2>3 DEF Begun
  <2>5. ASSUME NEW l \in Calls
        PROVE  /\ Current(l)' = Current(l)
               /\ stage'[l] = "uncalled" <=> stage[l] = "uncalled"
    <3>1. CASE l = k
      BY <1>2, <1>3, <2>3, <3>1 DEF Current, On
    <3>2. CASE l # k
      BY <1>2, <3>2 DEF Current, On
    <3>3. QED
      BY <3>1, <3>2
  <2>6. NumbersOK'
    <3>1. \A l \in Calls : stage'[l] # "uncalled" =>
             Placed(done', l) /\ stepId'[l] = IdOf(done', Current(l)')
      BY <2>2, <2>5 DEF NumbersOK
    <3>2. \A b \in Bases : expected'[b] = Cardinality(Begun(b)')
      BY <2>2, <2>4 DEF NumbersOK
    <3>3. \A c \in Claims : Claimed(c)' => \A b \in Namesakes(done', c) : Claimed(b)'
      BY <2>3 DEF NumbersOK, Namesakes
    <3>4. QED
      BY <3>1, <3>2, <3>3 DEF NumbersOK
  <2>7. stepId[k] = FinalId(done, k)
    BY <1>3, <2>3 DEF NumbersOK, Current, On, FinalId
  <2>8. QED
    BY <1>2, <2>2, <2>6, <2>7
<1>6. CASE Renamed[k] # Id[k]
  <2>1. PICK c \in Claims : c = <<k, 2>> /\ c = LastClaim(k) /\ Base(c) = Renamed[k] /\ c[1] = k /\ c[2] = 2
    <3>1. LastClaim(k) \in Claims /\ LastClaim(k) = <<k, 2>> /\ Base(<<k, 2>>) = Renamed[k]
      BY <1>6, ClaimType
    <3>2. QED
      BY <3>1
  <2>2. ~Claimed(c)
    BY <1>3, <2>1 DEF Claimed, On
  <2>3. k \in Users => \E A \in CallAfter[k] : A \subseteq Settled
    BY <1>3 DEF QueueOK
  <2>4. ASSUME NEW b \in Claims, b[1] \in Users, k \in Users, NEW A \in CallAfter[b[1]], A \subseteq Settled,
               b[2] < c[2] \/ (b[2] = c[2] /\ Before(b[1], c[1])), ~Claimed(b)
        PROVE  FALSE
    <3>1. b[1] \in Calls /\ b[2] \in {1, 2} /\ stage[b[1]] # "uncalled"
      BY <2>4, ClaimType DEF UserWaits, Ready
    <3>2. b[2] = 2 /\ Before(b[1], k) /\ ~On(b[1])
      BY <2>1, <2>4, <3>1 DEF Claimed
    <3>3. stage[b[1]] = "applying"
      BY <3>1, <3>2 DEF On
    <3>4. PICK j \in DOMAIN applying : applying[j] = b[1]
      BY <3>1, <3>3 DEF ApplyingOK
    <3>5. j # 1
      BY <3>1, <3>2, <3>4, ProgramOrder
    <3>6. 1 \in DOMAIN applying /\ 1 < j
      BY <1>3, <3>4, <3>5
    <3>7. Before(k, b[1])
      BY <2>4, <3>4, <3>6 DEF QueueOK
    <3>8. QED
      BY <3>1, <3>2, <3>7, ProgramOrder
  <2>5. Placed(done, k) /\ Namesakes(done, c) = Begun(Base(c))
    BY <2>1, <2>2, <2>3, <2>4, NamesakesBegun
  <2>6. /\ stepId' = [stepId EXCEPT ![k] = Claim(Base(c)).id]
        /\ expected' = [expected EXCEPT ![Base(c)] = Claim(Base(c)).next]
    BY <1>6, <2>1 DEF ClaimOf
  <2>7. Current(k)' = c /\ stage'[k] # "uncalled"
    BY <1>2, <2>1 DEF Current, On
  <2>8. NumbersOK' /\ stepId'[k] = IdOf(done, c)
    BY <1>2, <1>4, <2>1, <2>2, <2>5, <2>6, <2>7, ClaimNumbers
  <2>9. QED
    BY <1>2, <2>1, <2>8 DEF FinalId
<1>7. QED
  BY <1>5, <1>6

LEMMA ApplyMiddlewareReplay == ASSUME CallsApart, ReplayOK, ApplyMiddleware PROVE RequestOK'
<1>1. PICK k : k = Head(applying)
  OBVIOUS
<1>2. PICK wraps : wraps = Wraps(k, ClaimOf(k).id \in known)
  OBVIOUS
<1>3. /\ UserWaits /\ applying # <<>>
      /\ stepId' = [stepId EXCEPT ![k] = ClaimOf(k).id]
      /\ expected' = [expected EXCEPT ![Renamed[k]] = ClaimOf(k).next]
      /\ applying' = Tail(applying)
      /\ stage' = [stage EXCEPT ![k] = IF wraps THEN "wrapping" ELSE "found"]
      /\ found' = IF wraps THEN found ELSE Pushed(k, ClaimOf(k).id)
      /\ ticking' = (ticking \/ ~wraps)
      /\ UNCHANGED <<done, known, remaining, req, report, got>>
  BY <1>1, <1>2 DEF ApplyMiddleware, ClaimOf, serverVars
<1>4. /\ ClaimsOK /\ ServerOK /\ NumbersOK /\ ApplyingOK /\ QueueOK /\ WrapOK /\ KnownOK /\ OrderOK /\ FoundOK /\ GotOK
      /\ stage \in [Calls -> Stages] /\ stepId \in [Calls -> Seq(Parts)] /\ applying \in Seq(Calls)
  <2>1. Called \subseteq Calls
    BY DEF Called
  <2>2. QED
    BY <2>1, SeqMonotonic DEF ReplayOK, RequestOK, ClaimsOK
<1>5. PICK n \in Nat : n = Len(applying) /\ DOMAIN applying = 1 .. n /\ n >= 1
  <2>1. Len(applying) \in Nat /\ Len(applying) # 0 /\ DOMAIN applying = 1 .. Len(applying)
    BY <1>3, <1>4, EmptySeq, LenProperties
  <2>2. PICK n \in Nat : n = Len(applying)
    BY <2>1
  <2>3. n >= 1
    BY <2>1, <2>2
  <2>4. QED
    BY <2>1, <2>2, <2>3
<1>6. k \in Calls /\ k = applying[1] /\ stage[k] = "applying"
  <2>1. k = applying[1] /\ 1 \in DOMAIN applying
    BY <1>1, <1>5
  <2>2. k \in Calls
    BY <1>4, <1>5, <2>1, ElementOfSeq
  <2>3. QED
    BY <1>4, <2>1, <2>2 DEF ApplyingOK
<1>7. PICK to \in {"wrapping", "found"} : to = IF wraps THEN "wrapping" ELSE "found"
  OBVIOUS
<1>8. NumbersOK' /\ stepId'[k] = FinalId(done, k) /\ stepId'[k] = ClaimOf(k).id
  BY <1>3, <1>4, <1>6, <1>7, ApplyNumbers
<1>9. /\ stage'[k] = to
      /\ \A l \in Calls \ {k} : stage'[l] = stage[l] /\ stepId'[l] = stepId[l]
  BY <1>3, <1>4, <1>6, <1>7
<1>10. wraps <=> stepId'[k] \notin known /\ k \notin Waits /\ Prepended[k] # NoCall
  BY <1>2, <1>8 DEF Wraps
<1>11. ApplyingOK'
  <2>1. /\ DOMAIN applying' = 1 .. n - 1
        /\ \A j \in 1 .. n - 1 : applying'[j] = applying[j + 1] /\ j + 1 \in DOMAIN applying
    BY <1>3, <1>4, <1>5, HeadTailProperties, LenProperties
  <2>2. \A j \in 1 .. n - 1 : applying'[j] \in Calls /\ applying'[j] # k
    <3> SUFFICES ASSUME NEW j \in 1 .. n - 1 PROVE applying'[j] \in Calls /\ applying'[j] # k
      OBVIOUS
    <3>1. 1 \in DOMAIN applying /\ j + 1 # 1
      BY <1>5
    <3>2. applying'[j] = applying[j + 1] /\ j + 1 \in DOMAIN applying
      BY <2>1
    <3>3. applying[j + 1] \in Calls
      BY <1>4, <3>2, ElementOfSeq
    <3>4. applying[j + 1] # applying[1]
      BY <1>4, <3>1, <3>2 DEF ApplyingOK
    <3>5. QED
      BY <1>6, <3>2, <3>3, <3>4
  <2>3. \A h, j \in DOMAIN applying' : applying'[h] = applying'[j] => h = j
    <3> SUFFICES ASSUME NEW h \in 1 .. n - 1, NEW j \in 1 .. n - 1, applying[h + 1] = applying[j + 1]
                 PROVE  h = j
      BY <2>1
    <3>1. h + 1 = j + 1
      BY <1>4, <2>1 DEF ApplyingOK
    <3>2. QED
      BY <3>1
  <2>4. \A j \in DOMAIN applying' : stage'[applying'[j]] = "applying"
    BY <1>4, <1>9, <2>1, <2>2 DEF ApplyingOK
  <2>5. ASSUME NEW l \in Calls, stage'[l] = "applying" PROVE \E j \in DOMAIN applying' : applying'[j] = l
    <3>1. l # k /\ stage[l] = "applying"
      BY <1>9, <2>5
    <3>2. PICK j \in DOMAIN applying : applying[j] = l
      BY <1>4, <3>1 DEF ApplyingOK
    <3>3. j - 1 \in 1 .. n - 1 /\ (j - 1) + 1 = j
      BY <1>5, <1>6, <3>1, <3>2
    <3>4. QED
      BY <2>1, <3>2, <3>3
  <2>6. QED
    BY <2>3, <2>4, <2>5 DEF ApplyingOK
<1>12. WrapOK'
  <2>1. ASSUME NEW w \in Calls, Prepended[w] # NoCall
        PROVE  /\ stage'[Prepended[w]] \notin {"wrapping", "unwrapping"}
               /\ stage'[Prepended[w]] # "uncalled" =>
                    On(w)' /\ (w \in Waits => stage'[w] \in {"unwrapping", "settled"})
               /\ stage'[Prepended[w]] = "settled" => stage'[w] \in {"found", "settled"}
               /\ stage'[w] = "settled" => stage'[Prepended[w]] = "settled"
               /\ stage'[w] = "found" /\ stepId'[w] \in known => stage'[Prepended[w]] = "uncalled"
               /\ stage'[w] = "found" /\ stepId'[w] \notin known /\ w \notin Waits =>
                    stage'[Prepended[w]] = "settled"
    <3>1. /\ Prepended[w] \in Calls /\ Prepended[w] # w /\ Prepended[Prepended[w]] = NoCall
      BY <2>1, MadeFor DEF CallsApart
    <3>2. CASE k = Prepended[w]
      <4>1. stage'[k] = "found" /\ stage'[w] = stage[w] /\ stepId'[w] = stepId[w]
        BY <1>7, <1>9, <1>10, <3>1, <3>2
      <4>2. On(w) /\ (w \in Waits => stage[w] \in {"unwrapping", "settled"})
        BY <1>4, <1>6, <2>1, <3>2 DEF WrapOK
      <4>3. stage[w] # "settled" /\ stage[w] # "found"
        BY <1>4, <1>6, <2>1, <3>2 DEF WrapOK
      <4>4. QED
        BY <3>2, <4>1, <4>2, <4>3 DEF On
    <3>3. CASE k = w
      <4>1. stage[Prepended[w]] = "uncalled"
        BY <1>4, <1>6, <2>1, <3>3 DEF WrapOK, On
      <4>2. stage'[Prepended[w]] = "uncalled"
        BY <1>9, <3>1, <3>3, <4>1
      <4>3. stage'[w] \in {"wrapping", "found"}
        BY <1>9, <3>3
      <4>4. stage'[w] = "found" => stepId'[w] \in known \/ w \in Waits
        BY <1>7, <1>9, <1>10, <2>1, <3>3
      <4>5. QED
        BY <4>2, <4>3, <4>4 DEF On
    <3>4. CASE k # w /\ k # Prepended[w]
      <4>1. stage'[w] = stage[w] /\ stepId'[w] = stepId[w] /\ stage'[Prepended[w]] = stage[Prepended[w]]
        BY <1>9, <3>1, <3>4
      <4>2. QED
        BY <1>4, <2>1, <4>1 DEF WrapOK, On
    <3>5. QED
      BY <3>2, <3>3, <3>4
  <2>2. \A l \in Calls : stage'[l] = "wrapping" => stepId'[l] \notin known /\ l \notin Waits
    BY <1>4, <1>7, <1>9, <1>10 DEF WrapOK
  <2>3. \A w \in Calls : stage'[w] \in {"wrapping", "unwrapping"} => Prepended[w] # NoCall
    BY <1>4, <1>7, <1>9, <1>10 DEF WrapOK
  <2>4. QED
    BY <1>3, <2>1, <2>2, <2>3 DEF WrapOK
<1>13. KnownOK' /\ OrderOK'
  <2>1. /\ \A l \in Calls : On(l) => On(l)'
        /\ \A l \in Calls : stage[l] \in {"settled", "unwrapping"} \/ stage'[l] \in {"settled", "unwrapping"} =>
             stage'[l] = stage[l] /\ stepId'[l] = stepId[l]
    BY <1>6, <1>7, <1>9 DEF On
  <2>2. QED
    BY <1>3, <1>4, <2>1, NothingSettles
<1>14. FoundOK'
  <2>1. report = {} /\ report' = {}
    BY <1>3, <1>4 DEF FoundOK
  <2>2. \A l \in found : l \in Calls /\ l # k /\ stage[l] \in {"found", "unwrapping", "settled"}
    BY <1>4, <1>6 DEF FoundOK
  <2>3. found' = IF wraps THEN found ELSE found \cup {k}
    <3>1. \A l \in found : stepId[l] # stepId'[k]
      <4>1. ASSUME NEW l \in found, stepId[l] = stepId'[k] PROVE FALSE
        <5>1. l \in Calls /\ l # k /\ On(l) /\ stepId[l] = FinalId(done, l)
          BY <1>4, <2>2 DEF NumbersOK, Current, FinalId, On
        <5>2. done \in Seq(Results)
          BY <1>4 DEF ServerOK
        <5>3. QED
          BY <1>6, <1>8, <4>1, <5>1, <5>2, FinalIdInjective DEF CallsApart
      <4>2. QED
        BY <4>1
    <3>2. Pushed(k, ClaimOf(k).id) = found \cup {k}
      BY <1>8, <3>1 DEF Pushed
    <3>3. QED
      BY <1>3, <3>2
  <2>4. \A l \in found' : l \in Calls /\ stage'[l] \in {"found", "unwrapping", "settled"}
    BY <1>6, <1>7, <1>9, <2>2, <2>3
  <2>5. \A l \in Calls : stage'[l] = "found" => l \in found' \/ (stage[l] = "found" /\ stepId'[l] = stepId[l])
    BY <1>7, <1>9, <2>3
  <2>6. found \subseteq found'
    BY <2>3
  <2>7. QED
    BY <1>3, <1>4, <2>1, <2>4, <2>5, <2>6 DEF FoundOK
<1>15. QueueOK'
  <2>1. Settled' = Settled /\ \A l \in Users : ~Ready(l)'
    <3>1. Settled' = Settled
      BY <1>6, <1>7, <1>9 DEF Settled
    <3>2. \A l \in Users : ~InWrap(l)' /\ l \in Calls
      BY ProgramAssumption DEF InWrap, Users, Made
    <3>3. QED
      BY <1>3, <1>6, <1>7, <1>9, <3>1, <3>2 DEF UserWaits, Ready
  <2>2. ASSUME NEW h \in DOMAIN applying', NEW j \in DOMAIN applying', h < j,
               applying'[h] \in Users, applying'[j] \in Users
        PROVE  Before(applying'[h], applying'[j])
    <3>1. /\ DOMAIN applying' = 1 .. n - 1
          /\ \A g \in 1 .. n - 1 : applying'[g] = applying[g + 1] /\ g + 1 \in DOMAIN applying
      BY <1>3, <1>4, <1>5, HeadTailProperties, LenProperties
    <3>2. h + 1 \in DOMAIN applying /\ j + 1 \in DOMAIN applying /\ h + 1 < j + 1
      BY <2>2, <3>1
    <3>3. QED
      BY <1>4, <2>2, <3>1, <3>2 DEF QueueOK
  <2>3. ASSUME NEW l \in Users, stage'[l] # "uncalled" PROVE \E A \in CallAfter[l] : A \subseteq Settled
    <3>1. stage[l] # "uncalled"
      BY <1>6, <1>9, <2>3 DEF Users
    <3>2. QED
      BY <1>4, <3>1 DEF QueueOK
  <2>4. QED
    BY <2>1, <2>2, <2>3 DEF QueueOK
<1>16. QED
  BY <1>3, <1>4, <1>8, <1>11, <1>12, <1>13, <1>14, <1>15 DEF RequestOK, GotOK

-----------------------------------------------------------------------------
(* A call settles.                                                         *)

\* The calls that have been made keep their places, whatever is recorded.
LEMMA NumbersStay ==
  ASSUME CallsApart, ServerOK, NumbersOK, ApplyingOK, QueueOK, applying = <<>>,
         UNCHANGED <<stepId, expected, applying>>,
         done' = done \/ \E r \in Results : done' = Append(done, r),
         \A k \in Calls : stage'[k] = stage[k] \/ {stage[k], stage'[k]} \cap {"uncalled", "applying"} = {},
         Settled \subseteq Settled'
  PROVE  NumbersOK' /\ ApplyingOK' /\ QueueOK'
<1>1. DOMAIN applying = {} /\ \A k \in Calls : stage[k] # "applying" /\ stage'[k] # "applying"
  <2>1. DOMAIN applying = {}
    OBVIOUS
  <2>2. QED
    BY <2>1 DEF ApplyingOK
<1>2. /\ \A k \in Calls : /\ stage'[k] = "uncalled" <=> stage[k] = "uncalled"
                          /\ On(k)' <=> On(k)
                          /\ Current(k)' = Current(k)
      /\ \A c \in Claims : Claimed(c)' <=> Claimed(c)
  <2>1. \A k \in Calls : stage'[k] = "uncalled" <=> stage[k] = "uncalled"
    OBVIOUS
  <2>2. \A k \in Calls : On(k)' <=> On(k)
    BY <1>1, <2>1 DEF On
  <2>3. \A c \in Claims : Claimed(c)' <=> Claimed(c)
    BY <2>1, <2>2, ClaimType DEF Claimed
  <2>4. \A k \in Calls : Current(k)' = Current(k)
    BY <2>2 DEF Current
  <2>5. QED
    BY <2>1, <2>2, <2>3, <2>4
<1>3. ASSUME NEW c \in Claims, Claimed(c)
      PROVE  /\ Namesakes(done', c) = Namesakes(done, c) /\ IdOf(done', c) = IdOf(done, c)
             /\ Placed(done', c[1])
  <2>1. c[1] \in Calls /\ stage[c[1]] # "uncalled"
    BY <1>3, ClaimType DEF Claimed, On
  <2>2. done \in Seq(Results) /\ Placed(done, c[1])
    BY <2>1 DEF ServerOK, NumbersOK
  <2>3. CASE done' = done
    BY <2>2, <2>3
  <2>4. ASSUME NEW r \in Results, done' = Append(done, r)
        PROVE  /\ Namesakes(done', c) = Namesakes(done, c) /\ IdOf(done', c) = IdOf(done, c)
               /\ Placed(done', c[1])
    BY <2>1, <2>2, <2>4, ClaimStays, IdStays DEF CallsApart
  <2>5. QED
    BY <2>3, <2>4
<1>4. ASSUME NEW k \in Calls, stage'[k] # "uncalled"
      PROVE  Placed(done', k) /\ stepId'[k] = IdOf(done', Current(k)')
  <2>1. stage[k] # "uncalled" /\ Current(k)' = Current(k)
    BY <1>2, <1>4
  <2>2. PICK c \in Claims : c = Current(k) /\ Claimed(c) /\ c[1] = k
    <3>1. CASE On(k)
      BY <2>1, <3>1, ClaimType DEF Current, Claimed
    <3>2. CASE ~On(k)
      BY <2>1, <3>2, ClaimType DEF Current, Claimed
    <3>3. QED
      BY <3>1, <3>2
  <2>3. stepId[k] = IdOf(done, c)
    BY <2>1, <2>2 DEF NumbersOK
  <2>4. QED
    BY <1>3, <2>1, <2>2, <2>3
<1>5. \A b \in Bases : expected'[b] = Cardinality(Begun(b)')
  <2>1. \A b \in Bases : Begun(b)' = Begun(b)
    BY <1>2 DEF Begun
  <2>2. QED
    BY <2>1 DEF NumbersOK
<1>6. ASSUME NEW c \in Claims, NEW b \in Namesakes(done', c), Claimed(c)' PROVE Claimed(b)'
  <2>1. Claimed(c) /\ b \in Namesakes(done, c) /\ b \in Claims
    BY <1>2, <1>3, <1>6 DEF Namesakes
  <2>2. QED
    BY <1>2, <2>1 DEF NumbersOK
<1>7. NumbersOK'
  BY <1>4, <1>5, <1>6 DEF NumbersOK
<1>8. ApplyingOK'
  BY <1>1 DEF ApplyingOK
<1>9. QueueOK'
  <2>1. ASSUME NEW k \in Users, stage'[k] # "uncalled" PROVE \E A \in CallAfter[k] : A \subseteq Settled'
    <3>1. k \in Calls
      BY DEF Users
    <3>2. PICK A \in CallAfter[k] : A \subseteq Settled
      BY <1>2, <2>1, <3>1 DEF QueueOK
    <3>3. QED
      BY <3>2
  <2>2. \A l \in Users : stage'[l] # "applying"
    BY <1>1 DEF Users
  <2>3. QED
    BY <1>1, <2>1, <2>2 DEF QueueOK
<1>10. QED
  BY <1>7, <1>8, <1>9

\* The value under an id is the one of the call that has it.
LEMMA OwnValue ==
  ASSUME NoLookAlikes, NEW d \in Seq(Results),
         \A i \in DOMAIN d : d[i].id = FinalId(d, d[i].by),
         NEW k \in Calls, NEW i \in DOMAIN d, d[i].by = k
  PROVE  MadeBy(d, FinalId(d, k)) = k
<1>1. ASSUME NEW j \in DOMAIN d PROVE d[j].by \in Calls
  <2>1. DOMAIN d = 1 .. Len(d)
    BY LenProperties
  <2>2. d[j] \in Results
    BY <2>1, ElementOfSeq
  <2>3. QED
    BY <2>2 DEF Results
<1>2. PICK id : id = FinalId(d, k)
  OBVIOUS
<1>3. ToSet(d) = {d[j] : j \in DOMAIN d}
  BY DEF ToSet
<1>4. PICK r : r = CHOOSE q \in ToSet(d) : q.id = id
  OBVIOUS
<1>5. r \in ToSet(d) /\ r.id = id
  <2>1. d[i] \in ToSet(d) /\ d[i].id = id
    BY <1>2, <1>3
  <2>2. QED
    BY <1>4, <2>1
<1>6. PICK j \in DOMAIN d : r = d[j]
  BY <1>3, <1>5
<1>7. r.by = k
  BY <1>1, <1>2, <1>5, <1>6, FinalIdInjective
<1>8. QED
  BY <1>2, <1>4, <1>7 DEF MadeBy

\* A call that settles takes the step whose middleware awaits it further, and only that.
LEMMA SettleWraps ==
  ASSUME CallsApart, ClaimsOK, WrapOK, NEW k \in Calls, stage[k] = "found", NEW d, Settle(k, d),
         stepId' = stepId, known' = known \/ known' = known \cup {stepId[k]},
         Prepended[k] # NoCall => stage[Prepended[k]] = "settled",
         \A c \in found : c \in Calls /\ stage[c] # "uncalled"
  PROVE  /\ WrapOK'
         /\ found' = found \cup {w \in Calls : Prepended[w] = k /\ stage[w] = "wrapping"}
<1> DEFINE Unwrapping == {w \in Calls : Prepended[w] = k /\ stage[w] = "unwrapping"}
           Wrapping == {w \in Calls : Prepended[w] = k /\ stage[w] = "wrapping"}
<1>1. /\ stage'[k] = "settled"
      /\ \A c \in Unwrapping : stage'[c] = "settled"
      /\ \A c \in Wrapping : stage'[c] = "found"
      /\ \A c \in Calls : c # k /\ c \notin Unwrapping /\ c \notin Wrapping => stage'[c] = stage[c]
  BY DEF Settle
<1>2. \A c, b \in Calls : stage[c] # "uncalled" /\ stage[b] # "uncalled" /\ stepId[c] = stepId[b] => c = b
  BY DEF ClaimsOK
<1>3. found' = found \cup Wrapping
  <2>1. found' = {c \in found : \A w \in Wrapping : stepId[c] # stepId[w]} \cup Wrapping
    BY DEF Settle
  <2>2. \A c \in found, w \in Wrapping : stepId[c] = stepId[w] => c = w
    BY <1>2
  <2>3. QED
    BY <2>1, <2>2
<1>4. \A c \in Calls : c # k /\ stage[c] # "uncalled" => (stepId[c] \in known' <=> stepId[c] \in known)
  BY <1>2
<1>5. ASSUME NEW w \in Calls, Prepended[w] # NoCall
      PROVE  /\ stage'[Prepended[w]] \notin {"wrapping", "unwrapping"}
             /\ stage'[Prepended[w]] # "uncalled" =>
                  On(w)' /\ (w \in Waits => stage'[w] \in {"unwrapping", "settled"})
             /\ stage'[Prepended[w]] = "settled" => stage'[w] \in {"found", "settled"}
             /\ stage'[w] = "settled" => stage'[Prepended[w]] = "settled"
             /\ stage'[w] = "found" /\ stepId'[w] \in known' => stage'[Prepended[w]] = "uncalled"
             /\ stage'[w] = "found" /\ stepId'[w] \notin known' /\ w \notin Waits =>
                  stage'[Prepended[w]] = "settled"
  <2>1. PICK p : p = Prepended[w]
    OBVIOUS
  <2>2. p \in Calls /\ p # w /\ Prepended[p] = NoCall
    BY <1>5, <2>1, MadeFor DEF CallsApart
  <2>3. k # NoCall
    BY ProgramAssumption
  <2>4. /\ stage[p] \notin {"wrapping", "unwrapping"}
        /\ stage[p] # "uncalled" => On(w) /\ (w \in Waits => stage[w] \in {"unwrapping", "settled"})
        /\ stage[p] = "settled" => stage[w] \in {"found", "settled"}
        /\ stage[w] = "settled" => stage[p] = "settled"
        /\ stage[w] = "found" /\ stepId[w] \in known => stage[p] = "uncalled"
        /\ stage[w] = "found" /\ stepId[w] \notin known /\ w \notin Waits => stage[p] = "settled"
        /\ stage[w] = "wrapping" => stepId[w] \notin known /\ w \notin Waits
    BY <1>5, <2>1 DEF WrapOK
  <2>5. stage[w] \in Stages
    BY DEF ClaimsOK
  <2>6. CASE p = k
    <3>1. stage[w] \in {"wrapping", "unwrapping"}
      BY <2>4, <2>5, <2>6 DEF Stages, On
    <3>2. CASE stage[w] = "wrapping"
      <4>1. stage'[p] = "settled" /\ stage'[w] = "found" /\ stepId'[w] \notin known' /\ w \notin Waits
        BY <1>1, <1>4, <2>1, <2>2, <2>4, <2>6, <3>2
      <4>2. QED
        BY <2>1, <4>1 DEF On
    <3>3. CASE stage[w] = "unwrapping"
      <4>1. stage'[p] = "settled" /\ stage'[w] = "settled"
        BY <1>1, <2>1, <2>6, <3>3
      <4>2. QED
        BY <2>1, <4>1 DEF On
    <3>4. QED
      BY <3>1, <3>2, <3>3
  <2>7. CASE w = k
    <3>1. stage[p] = "settled" /\ stage'[p] = "settled" /\ stage'[w] = "settled"
      BY <1>1, <1>5, <2>1, <2>2, <2>3, <2>7
    <3>2. QED
      BY <2>1, <3>1 DEF On
  <2>8. CASE p # k /\ w # k
    <3>1. stage'[p] = stage[p] /\ stage'[w] = stage[w]
      BY <1>1, <2>1, <2>2, <2>3, <2>8
    <3>2. stage[w] # "uncalled" => (stepId'[w] \in known' <=> stepId[w] \in known)
      BY <1>4, <2>8
    <3>3. QED
      BY <2>1, <2>4, <3>1, <3>2 DEF On
  <2>9. QED
    BY <2>6, <2>7, <2>8
<1>6. ASSUME NEW c \in Calls PROVE stage'[c] \in {"wrapping", "unwrapping"} => c # k /\ stage[c] = stage'[c]
  BY <1>1
<1>7. \A c \in Calls : stage'[c] = "wrapping" => stepId'[c] \notin known' /\ c \notin Waits
  BY <1>4, <1>6 DEF WrapOK
<1>8. \A c \in Calls : stage'[c] \in {"wrapping", "unwrapping"} => Prepended[c] # NoCall
  BY <1>6 DEF WrapOK
<1>9. QED
  BY <1>3, <1>5, <1>7, <1>8 DEF WrapOK

\* If user code waits and one more of its calls settles, each shorter prefix of the results
\* has still led it as far as it leads.
LEMMA OrderGrows ==
  ASSUME CallsApart, ServerOK, OrderOK, UserWaits, applying = <<>>, ApplyingOK,
         done' = done \/ \E r \in Results : done' = Append(done, r),
         \A k \in Calls : On(k) => On(k)',
         NEW m \in 0 .. Len(done'), SettledUsers' = Visible(done', m),
         NEW w, SettledUsers' = SettledUsers \/ SettledUsers' = SettledUsers \cup {w}
  PROVE  \A j \in 0 .. Len(done') : Visible(done', j) \subseteq Settled' /\ Visible(done', j) # SettledUsers' =>
           \A k \in Calls : Reached(done', k, j) => On(k)'
<1> SUFFICES ASSUME NEW j \in 0 .. Len(done'), Visible(done', j) \subseteq Settled',
                    Visible(done', j) # SettledUsers', NEW k \in Calls, Reached(done', k, j)
             PROVE  On(k)
  OBVIOUS
<1>1. /\ Len(done) \in Nat /\ Len(done') \in Nat /\ Len(done') <= Len(done) + 1
      /\ \A i \in 0 .. Len(done) : /\ Visible(done', i) = Visible(done, i)
                                   /\ Reached(done', k, i) = Reached(done, k, i)
  <2>1. done \in Seq(Results) /\ Len(done) \in Nat
    BY ServerDomain DEF ServerOK
  <2>2. CASE done' = done
    BY <2>1, <2>2
  <2>3. ASSUME NEW r \in Results, done' = Append(done, r)
        PROVE  Len(done') = Len(done) + 1 /\ \A i \in 0 .. Len(done) : /\ Visible(done', i) = Visible(done, i)
                                                                     /\ Reached(done', k, i) = Reached(done, k, i)
    BY <2>1, <2>3, ReachSame
  <2>4. QED
    BY <2>1, <2>2, <2>3
<1>2. Visible(done', j) \subseteq SettledUsers'
  BY VisibleIn DEF SettledUsers
<1>3. j < m
  <2> SUFFICES ASSUME m <= j PROVE FALSE
    BY <1>1
  <2>1. Visible(done', m) \subseteq Visible(done', j)
    BY <1>1, ReachGrows
  <2>2. QED
    BY <1>2, <2>1
<1>4. j \in 0 .. Len(done)
  BY <1>1, <1>3
<1>5. Visible(done, j) = Visible(done', j) /\ Reached(done, k, j)
  BY <1>1, <1>4
<1>6. PICK i \in 0 .. Len(done) : SettledUsers = Visible(done, i)
  BY DEF OrderOK
<1>7. Visible(done, j) \subseteq SettledUsers
  <2>1. CASE j <= i
    BY <1>1, <1>6, <2>1, ReachGrows
  <2>2. CASE i <= j
    <3>1. SettledUsers \subseteq Visible(done, j)
      BY <1>1, <1>6, <2>2, ReachGrows
    <3>2. QED
      BY <1>2, <1>5, <3>1
  <2>3. QED
    BY <1>1, <2>1, <2>2
<1>8. CASE Visible(done, j) # SettledUsers
  BY <1>4, <1>5, <1>7, <1>8 DEF OrderOK, SettledUsers
<1>9. CASE Visible(done, j) = SettledUsers
  <2>1. stage[k] # "uncalled"
    BY <1>5, <1>9 DEF Reached, UserWaits, Ready, SettledUsers
  <2>2. stage[k] # "applying"
    BY DEF ApplyingOK
  <2>3. QED
    BY <2>1, <2>2 DEF On
<1>10. QED
  BY <1>8, <1>9

LEMMA RemoveAtGives ==
  ASSUME NEW S, NEW s \in Seq(S), NEW i \in DOMAIN s
  PROVE  /\ RemoveAt(s, i) \in Seq(S) /\ Len(RemoveAt(s, i)) = Len(s) - 1
         /\ \A h \in DOMAIN RemoveAt(s, i) : /\ h \in DOMAIN s /\ h + 1 \in DOMAIN s
                                             /\ RemoveAt(s, i)[h] = s[IF h < i THEN h ELSE h + 1]
         /\ \A h \in DOMAIN s \ {i} : \E g \in DOMAIN RemoveAt(s, i) : RemoveAt(s, i)[g] = s[h]
<1>1. Len(s) \in Nat /\ DOMAIN s = 1 .. Len(s) /\ i \in Nat /\ 1 <= i /\ i <= Len(s)
  BY LenProperties
<1> DEFINE a == SubSeq(s, 1, i - 1)
           b == SubSeq(s, i + 1, Len(s))
<1>2. /\ a \in Seq(S) /\ Len(a) = i - 1 /\ \A h \in 1 .. i - 1 : a[h] = s[h]
  BY <1>1, SubSeqProperties
<1>3. /\ b \in Seq(S) /\ Len(b) = Len(s) - i /\ \A h \in 1 .. Len(s) - i : b[h] = s[i + h]
  BY <1>1, SubSeqProperties
<1>4. RemoveAt(s, i) = a \o b
  BY DEF RemoveAt
<1> HIDE DEF a, b
<1>5. PICK t : t = a \o b
  OBVIOUS
<1>6. /\ t \in Seq(S) /\ Len(t) = Len(s) - 1 /\ DOMAIN t = 1 .. Len(s) - 1
      /\ \A h \in 1 .. Len(s) - 1 : t[h] = IF h <= i - 1 THEN a[h] ELSE b[h - (i - 1)]
  <2>1. /\ t \in Seq(S) /\ Len(t) = Len(a) + Len(b)
        /\ \A h \in 1 .. Len(a) + Len(b) : t[h] = IF h <= Len(a) THEN a[h] ELSE b[h - Len(a)]
    BY <1>2, <1>3, <1>5, ConcatProperties
  <2>2. Len(a) + Len(b) = Len(s) - 1
    BY <1>1, <1>2, <1>3
  <2>3. DOMAIN t = 1 .. Len(t)
    BY <2>1, LenProperties
  <2>4. QED
    BY <1>2, <2>1, <2>2, <2>3
<1>7. ASSUME NEW h \in 1 .. Len(s) - 1
      PROVE  h \in DOMAIN s /\ h + 1 \in DOMAIN s /\ t[h] = s[IF h < i THEN h ELSE h + 1]
  <2>1. CASE h < i
    BY <1>1, <1>2, <1>6, <2>1
  <2>2. CASE ~(h < i)
    <3>1. h - (i - 1) \in 1 .. Len(s) - i /\ i + (h - (i - 1)) = h + 1 /\ ~(h <= i - 1)
      BY <1>1, <2>2
    <3>2. t[h] = b[h - (i - 1)]
      BY <1>6, <3>1
    <3>3. QED
      BY <1>1, <1>3, <2>2, <3>1, <3>2
  <2>3. QED
    BY <2>1, <2>2
<1>8. ASSUME NEW h \in DOMAIN s, h # i PROVE \E g \in DOMAIN t : t[g] = s[h]
  <2>1. CASE h < i
    <3>1. h \in DOMAIN t
      BY <1>1, <1>6, <2>1
    <3>2. QED
      BY <1>6, <1>7, <2>1, <3>1
  <2>2. CASE h > i
    <3>1. h - 1 \in 1 .. Len(s) - 1 /\ ~(h - 1 < i) /\ (h - 1) + 1 = h
      BY <1>1, <2>2
    <3>2. t[h - 1] = s[h]
      BY <1>7, <3>1
    <3>3. QED
      BY <1>6, <3>1, <3>2
  <2>3. QED
    BY <1>1, <1>8, <2>1, <2>2
<1>9. QED
  BY <1>4, <1>5, <1>6, <1>7, <1>8

\* The next result that settles something settles what is next in the order of the results.
LEMMA VisibleStep ==
  ASSUME NEW d, Len(d) \in Nat, NEW m \in 0 .. Len(d), SettledUsers = Visible(d, m),
         NEW v \in 1 .. Len(d), Visible(d, v - 1) \subseteq Settled,
         NEW w \in Visible(d, v), w \notin Settled,
         \A l \in Visible(d, v) : l \in Visible(d, v - 1) \/ l = w
  PROVE  SettledUsers \cup {w} = Visible(d, v)
<1>1. m \in Nat /\ v \in Nat /\ v - 1 \in Nat
  OBVIOUS
<1>2. m <= v - 1
  <2> SUFFICES ASSUME v <= m PROVE FALSE
    BY <1>1
  <2>1. Visible(d, v) \subseteq Visible(d, m)
    BY <1>1, ReachGrows
  <2>2. QED
    BY <2>1 DEF SettledUsers
<1>3. SettledUsers \subseteq Visible(d, v - 1)
  BY <1>1, <1>2, ReachGrows
<1>4. Visible(d, v - 1) \subseteq SettledUsers
  BY VisibleIn DEF SettledUsers
<1>5. Visible(d, v - 1) \subseteq Visible(d, v)
  BY <1>1, ReachGrows
<1>6. QED
  BY <1>3, <1>4, <1>5

\* The memoized step that is handled leaves remaining; the others stay.
LEMMA KnownHandled ==
  ASSUME CallsApart, ServerOK, NumbersOK, KnownOK, NEW k \in Calls, stage[k] = "found",
         NEW i \in DOMAIN remaining, stepId[k] = remaining[i], remaining' = RemoveAt(remaining, i),
         UNCHANGED <<done, known, stepId>>,
         \A c \in Calls \ {k} : stage'[c] \in {"settled", "unwrapping"} <=> stage[c] \in {"settled", "unwrapping"},
         stage'[k] \in {"settled", "unwrapping"}
  PROVE  KnownOK' /\ \A h \in DOMAIN remaining' : \E g \in DOMAIN remaining : remaining'[h] = remaining[g]
<1>1. /\ remaining' \in Seq(Seq(Parts)) /\ DOMAIN remaining \in SUBSET Nat /\ DOMAIN remaining' \in SUBSET Nat
      /\ \A h \in DOMAIN remaining' : /\ h \in DOMAIN remaining /\ h + 1 \in DOMAIN remaining
                                      /\ remaining'[h] = remaining[IF h < i THEN h ELSE h + 1]
      /\ \A h \in DOMAIN remaining \ {i} : \E g \in DOMAIN remaining' : remaining'[g] = remaining[h]
  <2>1. remaining \in Seq(Seq(Parts))
    BY DEF KnownOK
  <2>2. PICK t : t = RemoveAt(remaining, i)
    OBVIOUS
  <2>3. /\ t \in Seq(Seq(Parts))
        /\ \A h \in DOMAIN t : /\ h \in DOMAIN remaining /\ h + 1 \in DOMAIN remaining
                              /\ t[h] = remaining[IF h < i THEN h ELSE h + 1]
        /\ \A h \in DOMAIN remaining \ {i} : \E g \in DOMAIN t : t[g] = remaining[h]
    <3>1. /\ RemoveAt(remaining, i) \in Seq(Seq(Parts))
          /\ \A h \in DOMAIN RemoveAt(remaining, i) :
                /\ h \in DOMAIN remaining /\ h + 1 \in DOMAIN remaining
                /\ RemoveAt(remaining, i)[h] = remaining[IF h < i THEN h ELSE h + 1]
          /\ \A h \in DOMAIN remaining \ {i} :
                \E g \in DOMAIN RemoveAt(remaining, i) : RemoveAt(remaining, i)[g] = remaining[h]
      <4>1. PICK s : s = remaining
        OBVIOUS
      <4>2. s \in Seq(Seq(Parts)) /\ i \in DOMAIN s
        BY <2>1, <4>1
      <4>3. /\ RemoveAt(s, i) \in Seq(Seq(Parts))
            /\ \A h \in DOMAIN RemoveAt(s, i) : /\ h \in DOMAIN s /\ h + 1 \in DOMAIN s
                                                /\ RemoveAt(s, i)[h] = s[IF h < i THEN h ELSE h + 1]
            /\ \A h \in DOMAIN s \ {i} : \E g \in DOMAIN RemoveAt(s, i) : RemoveAt(s, i)[g] = s[h]
        BY <4>2, RemoveAtGives
      <4>4. QED
        BY <4>1, <4>3
    <3>2. QED
      BY <2>2, <3>1
  <2>4. DOMAIN remaining = 1 .. Len(remaining) /\ DOMAIN t = 1 .. Len(t)
    BY <2>1, <2>3, LenProperties
  <2>5. remaining' = t
    BY <2>2
  <2>6. QED
    BY <2>3, <2>4, <2>5
<1>2. \A h \in DOMAIN remaining' : \E g \in DOMAIN remaining : remaining'[h] = remaining[g]
  BY <1>1
<1>3. ASSUME NEW g \in DOMAIN remaining', NEW h \in DOMAIN remaining', g < h, NEW j \in DOMAIN done,
             NEW l \in DOMAIN done, done[j].id = remaining'[g], done[l].id = remaining'[h]
      PROVE  j < l
  <2>1. PICK a \in DOMAIN remaining : a = (IF g < i THEN g ELSE g + 1) /\ remaining'[g] = remaining[a]
    BY <1>1
  <2>2. PICK b \in DOMAIN remaining : b = (IF h < i THEN h ELSE h + 1) /\ remaining'[h] = remaining[b]
    BY <1>1
  <2>3. a < b
    BY <1>1, <1>3, <2>1, <2>2
  <2>4. QED
    BY <1>3, <2>1, <2>2, <2>3 DEF KnownOK
<1>4. ASSUME NEW j \in DOMAIN done, done[j].id \in known, stage'[done[j].by] \notin {"settled", "unwrapping"}
      PROVE  \E h \in DOMAIN remaining' : remaining'[h] = done[j].id
  <2>1. done[j].by \in Calls /\ done[j].by # k
    BY <1>4, ServerDomain
  <2>2. PICK h \in DOMAIN remaining : remaining[h] = done[j].id
    BY <1>4, <2>1 DEF KnownOK
  <2>3. On(k)
    BY DEF On
  <2>4. h # i
    BY <2>1, <2>2, <2>3, KnownEntry
  <2>5. QED
    BY <1>1, <2>2, <2>4
<1>5. \A h \in DOMAIN remaining' : remaining'[h] \in known
  BY <1>2 DEF KnownOK
<1>6. stepId[k] \in known
  BY DEF KnownOK
<1>7. \A c \in Calls : stage'[c] \in {"settled", "unwrapping"} => stepId[c] \in known
  BY <1>6 DEF KnownOK
<1>8. KnownOK'
  <2>1. remaining' \in Seq(Seq(Parts))
    BY <1>1
  <2>2. \E n \in 0 .. Len(done') : known' = {done'[h].id : h \in 1 .. n}
    <3>1. PICK n \in 0 .. Len(done) : known = {done[h].id : h \in 1 .. n}
      BY DEF KnownOK
    <3>2. QED
      BY <3>1
  <2>3. \A h, g \in DOMAIN remaining' : h < g => \A j, l \in DOMAIN done' :
          done'[j].id = remaining'[h] /\ done'[l].id = remaining'[g] => j < l
    BY <1>3
  <2>4. \A j \in DOMAIN done' : done'[j].id \in known' /\ stage'[done'[j].by] \notin {"settled", "unwrapping"} =>
          \E h \in DOMAIN remaining' : remaining'[h] = done'[j].id
    BY <1>4
  <2>5. QED
    BY <1>5, <1>7, <2>1, <2>2, <2>3, <2>4 DEF KnownOK
<1>9. QED
  BY <1>2, <1>8

\* What settles with a memoized step is what the results settle next, if anything.
LEMMA HandledNext ==
  ASSUME CallsApart, ServerOK, ClaimsOK, NumbersOK, WrapOK, KnownOK, OrderOK, NEW k \in Calls, Prepended[k] = NoCall,
         stage[k] = "found", NEW j \in DOMAIN done, done[j].by = k, Visible(done, j - 1) \subseteq Settled,
         NEW S, S = {k} \cup {w \in Calls : Prepended[w] = k /\ stage[w] = "unwrapping"}
  PROVE  \E m \in 0 .. Len(done) : \E w :
           /\ SettledUsers \cup (Users \cap S) = Visible(done, m)
           /\ SettledUsers \cup (Users \cap S) \in {SettledUsers, SettledUsers \cup {w}}
<1>1. PICK m \in 0 .. Len(done) : SettledUsers = Visible(done, m)
  BY DEF OrderOK
<1>2. Len(done) \in Nat /\ DOMAIN done = 1 .. Len(done) /\ done \in Seq(Results) /\ j \in 1 .. Len(done) /\ k # NoCall
  BY ServerDomain, ProgramAssumption DEF ServerOK
<1>3. j \in 1 .. j /\ k \in Behind(done, j)
  BY <1>2 DEF Behind
<1>4. CASE k \in Users
  <2>1. S = {k}
    BY <1>2, <1>4, MadeFor DEF CallsApart
  <2>2. k \in Visible(done, j) /\ k \notin Settled
    BY <1>3, <1>4, VisibleIn DEF Settled
  <2>3. ASSUME NEW l \in Visible(done, j), l \notin Visible(done, j - 1) PROVE l = k
    <3>1. l \in Users /\ l \in Calls
      BY VisibleIn DEF Users
    <3>2. done[j].by = l \/ (Prepended[l] # NoCall /\ done[j].by = Prepended[l])
      BY <1>2, <2>3, VisibleNext
    <3>3. QED
      BY <1>4, <3>1, <3>2, MadeFor DEF CallsApart
  <2>4. SettledUsers \cup {k} = Visible(done, j)
    BY <1>1, <1>2, <2>2, <2>3, VisibleStep
  <2>5. SettledUsers \cup (Users \cap S) = SettledUsers \cup {k} /\ j \in 0 .. Len(done)
    BY <1>2, <1>4, <2>1
  <2>6. QED
    BY <2>4, <2>5
<1>5. CASE k \notin Users
  <2>1. PICK w \in Calls : Prepended[w] = k
    BY <1>5 DEF Users, Made
  <2>2. w \in Users /\ \A v \in Calls : Prepended[v] = k => v = w
    BY <1>2, <2>1, MadeFor DEF CallsApart
  <2>3. CASE stage[w] # "unwrapping"
    <3>1. Users \cap S = {}
      BY <1>5, <2>2, <2>3
    <3>2. QED
      BY <1>1, <3>1
  <2>4. CASE stage[w] = "unwrapping"
    <3>1. Users \cap S = {w} /\ w \notin Settled
      BY <1>5, <2>1, <2>2, <2>4 DEF Settled
    <3>2. On(w) /\ stepId[w] \in known
      BY <2>4 DEF On, KnownOK
    <3>3. PICK u \in DOMAIN done : done[u].by = w
      BY <3>2, KnownEntry
    <3>4. Due(done, k, j - 1) /\ Due(done, w, u - 1)
      BY <3>3 DEF ServerOK
    <3>5. \A n \in DOMAIN done : n - 1 \in Nat /\ n \in Nat /\ n - 1 <= n
      BY <1>2
    <3>6. \E v \in 1 .. Len(done) : /\ Visible(done, v - 1) \subseteq Settled
                                    /\ w \in Visible(done, v)
                                    /\ done[v].by \in {k, w}
      <4>1. CASE w \in Waits
        <5>1. w \in Behind(done, j - 1)
          BY <2>1, <3>4, <4>1 DEF Due
        <5>2. w \in Behind(done, j)
          BY <3>5, <5>1, ReachGrows
        <5>3. w \in Visible(done, j)
          BY <1>3, <2>1, <2>2, <5>2, VisibleIn
        <5>4. QED
          BY <1>2, <5>3
      <4>2. CASE w \notin Waits
        <5>1. k \in Behind(done, u - 1)
          BY <1>2, <2>1, <3>4, <4>2 DEF Due
        <5>2. k \in Behind(done, u)
          BY <3>5, <5>1, ReachGrows
        <5>3. u \in 1 .. u /\ w \in Behind(done, u)
          BY <3>3, <3>5 DEF Behind
        <5>4. w \in Visible(done, u)
          BY <2>1, <2>2, <5>2, <5>3, VisibleIn
        <5>5. Visible(done, u - 1) \subseteq Settled
          BY <2>4, <3>3, <4>2 DEF OrderOK
        <5>6. QED
          BY <1>2, <3>3, <5>4, <5>5
      <4>3. QED
        BY <4>1, <4>2
    <3>7. PICK v \in 1 .. Len(done) : /\ Visible(done, v - 1) \subseteq Settled
                                      /\ w \in Visible(done, v)
                                      /\ done[v].by \in {k, w}
      BY <3>6
    <3>8. ASSUME NEW l \in Visible(done, v), l \notin Visible(done, v - 1) PROVE l = w
      <4>1. l \in Users /\ l \in Calls
        BY VisibleIn DEF Users
      <4>2. done[v].by = l \/ (Prepended[l] # NoCall /\ done[v].by = Prepended[l])
        BY <1>2, <3>8, VisibleNext
      <4>3. Prepended[l] # NoCall => Prepended[l] # w
        BY <2>2, <4>1, MadeFor DEF CallsApart
      <4>4. QED
        BY <1>5, <2>2, <3>7, <4>1, <4>2, <4>3
    <3>9. SettledUsers \cup {w} = Visible(done, v)
      BY <1>1, <1>2, <3>1, <3>7, <3>8, VisibleStep
    <3>10. v \in 0 .. Len(done)
      BY <1>2
    <3>11. QED
      BY <3>1, <3>9, <3>10
  <2>5. QED
    BY <2>3, <2>4
<1>6. QED
  BY <1>4, <1>5

LEMMA HandledFacts ==
  ASSUME CallsApart, ReplayOK, UserWaits, applying = <<>>, ticking,
         NEW i \in Handleable, \A h \in Handleable : i <= h,
         NEW k \in found, stage[k] = "found", stepId[k] = remaining[i]
  PROVE  /\ k \in Calls /\ i \in DOMAIN remaining /\ On(k) /\ stepId[k] \in known /\ report = {}
         /\ \A j \in DOMAIN done : done[j].by = k => Visible(done, j - 1) \subseteq Settled
         /\ \E j \in DOMAIN done : done[j].by = k
         /\ \A c \in found : c \in Calls /\ stage[c] # "uncalled"
<1>1. /\ ServerOK /\ RequestOK /\ ClaimsOK /\ NumbersOK /\ KnownOK /\ FoundOK
  BY DEF ReplayOK, RequestOK
<1>2. k \in Calls /\ i \in DOMAIN remaining /\ On(k) /\ report = {}
  BY <1>1 DEF FoundOK, On, Handleable
<1>3. stepId[k] \in known
  BY <1>1, <1>2 DEF KnownOK
<1>4. ASSUME NEW j \in DOMAIN done, done[j].by = k PROVE Visible(done, j - 1) \subseteq Settled
  <2>1. done[j].id = remaining[i]
    BY <1>1, <1>2, <1>4, KnownEntry
  <2>2. QED
    BY <1>1, <2>1, HandledInOrder
<1>5. \E j \in DOMAIN done : done[j].by = k
  BY <1>1, <1>2, <1>3, KnownEntry
<1>6. QED
  BY <1>1, <1>2, <1>3, <1>4, <1>5 DEF FoundOK

\* A memoized step that wraps another is handed to its middleware, which calls the other.
LEMMA UnwrapReplay ==
  ASSUME CallsApart, ReplayOK, UserWaits, applying = <<>>, ticking,
         NEW i \in Handleable, \A h \in Handleable : i <= h,
         NEW k \in found, stage[k] = "found", stepId[k] = remaining[i], Prepended[k] # NoCall,
         remaining' = RemoveAt(remaining, i), stage' = [stage EXCEPT ![k] = "unwrapping"],
         UNCHANGED <<found, got, done, planned, req, known, claimVars, ticking, report>>
  PROVE  RequestOK'
<1>1. /\ k \in Calls /\ i \in DOMAIN remaining /\ On(k) /\ stepId[k] \in known /\ report = {}
      /\ \A j \in DOMAIN done : done[j].by = k => Visible(done, j - 1) \subseteq Settled
  BY HandledFacts
<1>2. /\ ClaimsOK /\ ServerOK /\ NumbersOK /\ ApplyingOK /\ QueueOK /\ WrapOK /\ KnownOK /\ OrderOK /\ FoundOK /\ GotOK
      /\ stage \in [Calls -> Stages]
  BY DEF ReplayOK, RequestOK, ClaimsOK
<1>3. UNCHANGED <<stepId, expected, applying>>
  BY DEF claimVars
<1>4. stage'[k] = "unwrapping" /\ \A c \in Calls \ {k} : stage'[c] = stage[c]
  BY <1>1, <1>2
<1>5. NumbersOK' /\ ApplyingOK' /\ QueueOK'
  <2>1. Settled \subseteq Settled'
    BY <1>4 DEF Settled
  <2>2. \A c \in Calls : stage'[c] = stage[c] \/ {stage[c], stage'[c]} \cap {"uncalled", "applying"} = {}
    BY <1>4
  <2>3. QED
    BY <1>2, <1>3, <2>1, <2>2, NumbersStay
<1>6. WrapOK'
  <2>1. ASSUME NEW w \in Calls, Prepended[w] # NoCall
        PROVE  /\ stage'[Prepended[w]] \notin {"wrapping", "unwrapping"}
               /\ stage'[Prepended[w]] # "uncalled" =>
                    On(w)' /\ (w \in Waits => stage'[w] \in {"unwrapping", "settled"})
               /\ stage'[Prepended[w]] = "settled" => stage'[w] \in {"found", "settled"}
               /\ stage'[w] = "settled" => stage'[Prepended[w]] = "settled"
               /\ stage'[w] = "found" /\ stepId'[w] \in known' => stage'[Prepended[w]] = "uncalled"
               /\ stage'[w] = "found" /\ stepId'[w] \notin known' /\ w \notin Waits =>
                    stage'[Prepended[w]] = "settled"
    <3>1. Prepended[w] \in Calls /\ Prepended[w] # w /\ Prepended[w] # k
      BY <2>1, MadeFor DEF CallsApart
    <3>2. stage'[Prepended[w]] = stage[Prepended[w]]
      BY <1>4, <3>1
    <3>3. CASE w = k
      <4>1. stage[Prepended[w]] = "uncalled"
        BY <1>1, <1>2, <2>1, <3>3 DEF WrapOK
      <4>2. QED
        BY <1>4, <3>2, <3>3, <4>1
    <3>4. CASE w # k
      <4>1. stage'[w] = stage[w] /\ stepId'[w] = stepId[w] /\ known' = known
        BY <1>3, <1>4, <3>4
      <4>2. QED
        BY <1>2, <2>1, <3>2, <4>1 DEF WrapOK, On
    <3>5. QED
      BY <3>3, <3>4
  <2>2. \A c \in Calls : stage'[c] = "wrapping" => stepId'[c] \notin known' /\ c \notin Waits
    BY <1>2, <1>3, <1>4 DEF WrapOK
  <2>3. \A c \in Calls : stage'[c] \in {"wrapping", "unwrapping"} => Prepended[c] # NoCall
    BY <1>2, <1>4 DEF WrapOK
  <2>4. QED
    BY <2>1, <2>2, <2>3 DEF WrapOK
<1>7. KnownOK' /\ \A h \in DOMAIN remaining' : \E g \in DOMAIN remaining : remaining'[h] = remaining[g]
  BY <1>1, <1>2, <1>3, <1>4, KnownHandled
<1>8. OrderOK'
  <2>1. Settled' = Settled /\ SettledUsers' = SettledUsers
    BY <1>4 DEF Settled, SettledUsers
  <2>2. PICK m \in 0 .. Len(done) : SettledUsers' = Visible(done', m)
    BY <1>2, <2>1 DEF OrderOK
  <2>3. \A j \in 0 .. Len(done') : Visible(done', j) \subseteq Settled' /\ Visible(done', j) # SettledUsers' =>
          \A c \in Calls : Reached(done', c, j) => On(c)'
    <3>1. \A c \in Calls : On(c) => On(c)'
      BY <1>4 DEF On
    <3>2. QED
      BY <1>2, <2>1, <2>2, <3>1, OrderGrows
  <2>4. \A w \in Calls \ Waits : stage'[w] = "unwrapping" =>
          \A j \in DOMAIN done' : done'[j].by = w => Visible(done', j - 1) \subseteq Settled'
    BY <1>1, <1>2, <1>4, <2>1 DEF OrderOK
  <2>5. QED
    BY <2>2, <2>3, <2>4 DEF OrderOK
<1>9. FoundOK'
  <2>1. \A c \in found' \cup report' : c \in Calls /\ stage'[c] \in {"found", "unwrapping", "settled"}
    BY <1>2, <1>4 DEF FoundOK
  <2>2. \A c \in Calls : stage'[c] = "found" => stage[c] = "found"
    BY <1>4
  <2>3. QED
    BY <1>1, <1>2, <1>3, <1>7, <2>1, <2>2 DEF FoundOK
<1>10. QED
  BY <1>2, <1>5, <1>6, <1>7, <1>8, <1>9 DEF RequestOK, GotOK

\* Any other memoized step settles.
LEMMA SettleReplay ==
  ASSUME CallsApart, ReplayOK, UserWaits, applying = <<>>, ticking,
         NEW i \in Handleable, \A h \in Handleable : i <= h,
         NEW k \in found, stage[k] = "found", stepId[k] = remaining[i], Prepended[k] = NoCall,
         remaining' = RemoveAt(remaining, i), Settle(k, done),
         UNCHANGED <<done, planned, req, known, claimVars, ticking, report>>
  PROVE  RequestOK'
<1> DEFINE Unwrapping == {w \in Calls : Prepended[w] = k /\ stage[w] = "unwrapping"}
           Wrapping == {w \in Calls : Prepended[w] = k /\ stage[w] = "wrapping"}
<1>1. /\ k \in Calls /\ i \in DOMAIN remaining /\ On(k) /\ stepId[k] \in known /\ report = {}
      /\ \A j \in DOMAIN done : done[j].by = k => Visible(done, j - 1) \subseteq Settled
      /\ \E j \in DOMAIN done : done[j].by = k
      /\ \A c \in found : c \in Calls /\ stage[c] # "uncalled"
  BY HandledFacts
<1>2. /\ ClaimsOK /\ ServerOK /\ NumbersOK /\ ApplyingOK /\ QueueOK /\ WrapOK /\ KnownOK /\ OrderOK /\ FoundOK /\ GotOK
  BY DEF ReplayOK, RequestOK
<1>3. UNCHANGED <<stepId, expected, applying>>
  BY DEF claimVars
<1>4. PICK S : S = {k} \cup Unwrapping
  OBVIOUS
<1>5. PICK W : W = Wrapping
  OBVIOUS
<1>6. /\ \A c \in Calls : stage'[c] = IF c \in S THEN "settled" ELSE IF c \in W THEN "found" ELSE stage[c]
      /\ \A c \in Calls : got'[c] = IF c \in S THEN MadeBy(done, stepId[c]) ELSE got[c]
  BY <1>4, <1>5 DEF Settle
<1>7. /\ S \subseteq Calls /\ k \in S /\ \A c \in S : stage[c] \in {"found", "unwrapping"} /\ stepId[c] \in known
      /\ W \subseteq Calls /\ \A c \in W : stage[c] = "wrapping"
      /\ \A c \in S : c # k => stage[c] = "unwrapping"
  <2>1. \A c \in Unwrapping : stage[c] = "unwrapping" /\ stepId[c] \in known
    BY <1>2 DEF KnownOK
  <2>2. QED
    BY <1>1, <1>4, <1>5, <2>1
<1>8. WrapOK' /\ found' = found \cup W
  BY <1>1, <1>2, <1>3, <1>5, SettleWraps
<1> HIDE DEF Unwrapping, Wrapping
<1>9. NumbersOK' /\ ApplyingOK' /\ QueueOK'
  <2>1. \A c \in Calls : stage'[c] = stage[c] \/ {stage[c], stage'[c]} \cap {"uncalled", "applying"} = {}
    BY <1>6, <1>7
  <2>2. Settled \subseteq Settled'
    BY <1>6, <1>7 DEF Settled
  <2>3. QED
    BY <1>2, <1>3, <2>1, <2>2, NumbersStay
<1>10. KnownOK' /\ \A h \in DOMAIN remaining' : \E g \in DOMAIN remaining : remaining'[h] = remaining[g]
  <2>1. \A c \in Calls \ {k} : stage'[c] \in {"settled", "unwrapping"} <=> stage[c] \in {"settled", "unwrapping"}
    BY <1>6, <1>7
  <2>2. stage'[k] = "settled"
    BY <1>1, <1>6, <1>7
  <2>3. QED
    BY <1>1, <1>2, <1>3, <2>1, <2>2, KnownHandled
<1>11. Settled' = Settled \cup S
  BY <1>6, <1>7 DEF Settled
<1>12. OrderOK'
  <2>1. PICK j \in DOMAIN done : done[j].by = k
    BY <1>1
  <2>2. Visible(done, j - 1) \subseteq Settled
    BY <1>1, <2>1
  <2>3. \E m \in 0 .. Len(done) : \E w :
          /\ SettledUsers \cup (Users \cap S) = Visible(done, m)
          /\ SettledUsers \cup (Users \cap S) \in {SettledUsers, SettledUsers \cup {w}}
    BY <1>1, <1>2, <1>4, <2>1, <2>2, HandledNext DEF Unwrapping
  <2>4. SettledUsers' = SettledUsers \cup (Users \cap S)
    BY <1>11 DEF SettledUsers
  <2>5. PICK m \in 0 .. Len(done) : \E w : /\ SettledUsers' = Visible(done, m)
                                           /\ SettledUsers' \in {SettledUsers, SettledUsers \cup {w}}
    BY <2>3, <2>4
  <2>6. PICK w : SettledUsers' = SettledUsers \/ SettledUsers' = SettledUsers \cup {w}
    BY <2>5
  <2>7. \A c \in Calls : On(c) => On(c)'
    BY <1>6 DEF On
  <2>8. \A h \in 0 .. Len(done') : Visible(done', h) \subseteq Settled' /\ Visible(done', h) # SettledUsers' =>
          \A c \in Calls : Reached(done', c, h) => On(c)'
    BY <1>2, <2>5, <2>6, <2>7, OrderGrows
  <2>9. \A v \in Calls \ Waits : stage'[v] = "unwrapping" =>
          \A h \in DOMAIN done' : done'[h].by = v => Visible(done', h - 1) \subseteq Settled'
    BY <1>2, <1>6, <1>11 DEF OrderOK
  <2>10. QED
    BY <2>5, <2>8, <2>9 DEF OrderOK
<1>13. FoundOK'
  <2>1. \A c \in found' \cup report' : c \in Calls /\ stage'[c] \in {"found", "unwrapping", "settled"}
    BY <1>1, <1>2, <1>6, <1>7, <1>8 DEF FoundOK
  <2>2. \A c \in Calls : stage'[c] = "found" => c \in found' \/ (stage[c] = "found" /\ stepId'[c] = stepId[c])
    BY <1>3, <1>6, <1>8
  <2>3. found \subseteq found'
    BY <1>8
  <2>4. QED
    BY <1>1, <1>2, <1>3, <1>10, <2>1, <2>2, <2>3 DEF FoundOK
<1>14. GotOK'
  <2>1. ASSUME NEW c \in S PROVE got'[c] = c
    <3>1. c \in Calls /\ On(c) /\ stepId[c] \in known
      BY <1>7 DEF On
    <3>2. stepId[c] = FinalId(done, c) /\ \E j \in DOMAIN done : done[j].by = c
      BY <1>2, <3>1, KnownEntry
    <3>3. MadeBy(done, FinalId(done, c)) = c
      BY <1>2, <3>1, <3>2, OwnValue DEF CallsApart, ServerOK
    <3>4. QED
      BY <1>6, <3>1, <3>2, <3>3
  <2>2. QED
    BY <1>2, <1>6, <2>1 DEF GotOK
<1>15. QED
  BY <1>8, <1>9, <1>10, <1>12, <1>13, <1>14 DEF RequestOK

LEMMA HandleMemoizedReplay == ASSUME CallsApart, ReplayOK, HandleMemoized PROVE RequestOK'
<1>1. PICK i \in Handleable :
        /\ \A j \in Handleable : i <= j
        /\ remaining' = RemoveAt(remaining, i)
        /\ \E k \in found :
             /\ stage[k] = "found" /\ stepId[k] = remaining[i]
             /\ IF Prepended[k] # NoCall
                  THEN stage' = [stage EXCEPT ![k] = "unwrapping"] /\ UNCHANGED <<found, got>>
                  ELSE Settle(k, done)
  BY DEF HandleMemoized
<1>2. PICK k \in found :
        /\ stage[k] = "found" /\ stepId[k] = remaining[i]
        /\ IF Prepended[k] # NoCall
             THEN stage' = [stage EXCEPT ![k] = "unwrapping"] /\ UNCHANGED <<found, got>>
             ELSE Settle(k, done)
  BY <1>1
<1>3. /\ UserWaits /\ applying = <<>> /\ ticking
      /\ UNCHANGED <<done, planned, req, known, claimVars, ticking, report>>
  BY DEF HandleMemoized, Prepared, serverVars
<1>4. CASE Prepended[k] # NoCall
  BY <1>1, <1>2, <1>3, <1>4, UnwrapReplay
<1>5. CASE Prepended[k] = NoCall
  BY <1>1, <1>2, <1>3, <1>5, SettleReplay
<1>6. QED
  BY <1>4, <1>5

-----------------------------------------------------------------------------
(* Reporting.                                                              *)

LEMMA RequestStays ==
  ASSUME RequestOK, UNCHANGED <<done, remaining, known, claimVars, stage, got>>, FoundOK'
  PROVE  RequestOK'
<1>1. UNCHANGED <<done, remaining, known, expected, registered, stepId, applying, stage, got>>
  BY DEF claimVars
<1>2. NumbersOK'
  BY <1>1 DEF RequestOK, NumbersOK, Begun, Claimed, Current, On
<1>3. ApplyingOK' /\ QueueOK' /\ WrapOK'
  BY <1>1 DEF RequestOK, ApplyingOK, QueueOK, WrapOK, On, Ready, InWrap, Settled
<1>4. KnownOK'
  BY <1>1 DEF RequestOK, KnownOK
<1>5. OrderOK'
  BY <1>1 DEF RequestOK, OrderOK, SettledUsers, Settled, On
<1>6. QED
  BY <1>1, <1>2, <1>3, <1>4, <1>5 DEF RequestOK, GotOK

LEMMA ReportFoundReplay == ASSUME ReplayOK, ReportFound PROVE RequestOK'
<1>1. /\ UserWaits /\ applying = <<>> /\ Handleable = {}
      /\ ticking' = FALSE /\ report' = report \cup found /\ found' = {}
      /\ UNCHANGED <<done, req, remaining, known, claimVars, stage, got>>
      /\ UNCHANGED <<stepId, applying>>
  BY DEF ReportFound, Prepared, serverVars, claimVars
<1>2. UserWaits'
  BY <1>1 DEF UserWaits, Ready, InWrap, Settled
<1>3. ASSUME NEW k \in Calls, stage[k] = "found", NEW i \in DOMAIN remaining, remaining[i] = stepId[k]
      PROVE  FALSE
  <2>1. k \in found
    BY <1>3 DEF ReplayOK, RequestOK, FoundOK
  <2>2. i \in Handleable
    BY <1>3, <2>1 DEF Handleable
  <2>3. QED
    BY <1>1, <2>2
<1>4. FoundOK'
  <2>1. \A k \in found' \cup report' : k \in Calls /\ stage'[k] \in {"found", "unwrapping", "settled"}
    BY <1>1 DEF ReplayOK, RequestOK, FoundOK
  <2>2. req'.step = NoId =>
          \A k \in Calls : stage'[k] = "found" /\ stepId'[k] \notin known' => k \in found' \cup report'
    BY <1>1 DEF ReplayOK, RequestOK, FoundOK
  <2>3. QED
    BY <1>1, <1>2, <1>3, <2>1, <2>2 DEF FoundOK
<1>5. QED
  BY <1>1, <1>4, RequestStays DEF ReplayOK

LEMMA NothingToDoReplay == ASSUME ReplayOK, NothingToDo PROVE RequestOK'
<1>1. /\ req.step = NoId => NewSteps = {}
      /\ report' = {}
      /\ UNCHANGED <<done, req, remaining, known, claimVars, stage, found, got>>
      /\ UNCHANGED stepId
  BY DEF NothingToDo, serverVars, claimVars
<1>2. \A k \in report : req.step = NoId => stepId[k] \in known
  BY <1>1 DEF NewSteps
<1>3. FoundOK'
  BY <1>1, <1>2 DEF ReplayOK, RequestOK, FoundOK
<1>4. QED
  BY <1>1, <1>3, RequestStays DEF ReplayOK

\* A step that is reported and has no result yet may be recorded now, under its id.
LEMMA ReportDue ==
  ASSUME CallsApart, ReplayOK, NEW k \in report, stepId[k] \notin IdsOf(done)
  PROVE  /\ k \in Calls /\ stage[k] = "found" /\ stepId[k] \notin known
         /\ stepId[k] = FinalId(done, k) /\ Due(done, k, Len(done))
         /\ [id |-> stepId[k], by |-> k] \in Results
         /\ UserWaits /\ applying = <<>> /\ found = {}
<1>1. /\ ClaimsOK /\ ServerOK /\ NumbersOK /\ WrapOK /\ KnownOK /\ FoundOK
      /\ Len(done) \in Nat /\ DOMAIN done = 1 .. Len(done)
  BY ServerDomain DEF ReplayOK, RequestOK
<1>2. k \in Calls /\ stage[k] \in {"found", "unwrapping", "settled"}
  BY <1>1 DEF FoundOK
<1>3. stepId[k] \notin known
  <2>1. PICK n \in 0 .. Len(done) : known = {done[i].id : i \in 1 .. n}
    BY <1>1 DEF KnownOK
  <2>2. 1 .. n \subseteq DOMAIN done
    BY <1>1
  <2>3. QED
    BY <2>1, <2>2 DEF IdsOf
<1>4. stage[k] = "found"
  BY <1>1, <1>2, <1>3 DEF KnownOK
<1>5. ASSUME NEW c \in Calls, On(c), stepId[c] \in known PROVE c \in Behind(done, Len(done))
  BY <1>1, <1>5, KnownEntry DEF Behind
<1>6. On(k) /\ stepId[k] = FinalId(done, k) /\ Placed(done, k)
  BY <1>1, <1>2, <1>4 DEF On, NumbersOK, Current, FinalId
<1>7. Due(done, k, Len(done))
  <2>1. ASSUME k \notin Waits, Prepended[k] # NoCall PROVE Prepended[k] \in Behind(done, Len(done))
    <3>1. Prepended[k] \in Calls /\ stage[Prepended[k]] = "settled"
      BY <1>1, <1>2, <1>3, <1>4, <2>1, MadeFor DEF WrapOK, CallsApart
    <3>2. On(Prepended[k]) /\ stepId[Prepended[k]] \in known
      BY <1>1, <3>1 DEF On, KnownOK
    <3>3. QED
      BY <1>5, <3>1, <3>2
  <2>2. ASSUME NEW w \in Calls, Prepended[w] = k
        PROVE  Reached(done, w, Len(done)) /\ (w \in Waits => w \in Behind(done, Len(done)))
    <3>1. k # NoCall
      BY <1>2, ProgramAssumption
    <3>2. On(w) /\ (w \in Waits => stage[w] \in {"unwrapping", "settled"}) /\ w \in Users
      BY <1>1, <1>4, <2>2, <3>1, MadeFor DEF WrapOK, CallsApart
    <3>3. Reached(done, w, Len(done))
      BY <1>1, <3>2 DEF NumbersOK, On, Placed
    <3>4. w \in Waits => w \in Behind(done, Len(done))
      BY <1>1, <1>5, <3>2 DEF KnownOK
    <3>5. QED
      BY <3>3, <3>4
  <2>3. QED
    BY <1>6, <2>1, <2>2 DEF Due, Placed
<1>8. [id |-> stepId[k], by |-> k] \in Results
  BY <1>1, <1>2 DEF Results, ClaimsOK
<1>9. QED
  BY <1>1, <1>2, <1>3, <1>4, <1>6, <1>7, <1>8 DEF FoundOK

\* A request that goes on with the one new step there is has seen every result.
LEMMA CaughtUp ==
  ASSUME CallsApart, ReplayOK, NEW k \in NewSteps, k \notin Waits, req.step = NoId,
         Cardinality(NewSteps) = 1, stepId[k] \notin IdsOf(done)
  PROVE  /\ SettledUsers = Visible(done, Len(done))
         /\ \A j \in DOMAIN done : done[j].id \in known
         /\ \A c \in Calls : stage[c] = "found" => c = k
<1>1. /\ ClaimsOK /\ ServerOK /\ NumbersOK /\ ApplyingOK /\ QueueOK /\ WrapOK /\ KnownOK /\ OrderOK /\ FoundOK
      /\ Len(done) \in Nat /\ DOMAIN done = 1 .. Len(done)
  BY ServerDomain DEF ReplayOK, RequestOK
<1>2. k \in report /\ stepId[k] \notin known
  BY DEF NewSteps
<1>3. k \in Calls /\ stage[k] = "found" /\ UserWaits /\ applying = <<>> /\ found = {}
  BY <1>2, ReportDue
<1>4. ASSUME NEW c \in Calls, stage[c] = "found" PROVE c = k
  <2>1. On(c)
    BY <1>4 DEF On
  <2>2. stepId[c] \notin known
    <3> SUFFICES ASSUME stepId[c] \in known PROVE FALSE
      OBVIOUS
    <3>1. \E i \in DOMAIN remaining : remaining[i] = stepId[c]
      BY <1>1, <1>4, <2>1, KnownEntry
    <3>2. c \in found
      BY <1>1, <1>4, <3>1 DEF FoundOK
    <3>3. QED
      BY <1>3, <3>2
  <2>3. c \in NewSteps
    BY <1>1, <1>3, <1>4, <2>2 DEF FoundOK, NewSteps
  <2>4. NewSteps \in SUBSET Calls
    BY <1>1 DEF NewSteps, FoundOK
  <2>5. IsFiniteSet(NewSteps)
    BY <2>4, CallsFinite
  <2>6. PICK x : NewSteps = {x}
    BY <2>5, FS_Singleton
  <2>7. QED
    BY <2>3, <2>6
<1>5. \A u \in DOMAIN done : done[u].by # k
  <2>1. On(k)
    BY <1>3 DEF On
  <2>2. QED
    BY <1>1, <1>3, <2>1, KnownEntry DEF IdsOf
<1>6. Visible(done, Len(done)) \subseteq Settled
  <2> SUFFICES ASSUME ~(Visible(done, Len(done)) \subseteq Settled) PROVE FALSE
    OBVIOUS
  <2>1. Len(done) \in 0 .. Len(done)
    BY <1>1
  <2>2. PICK c \in Calls, u \in 1 .. Len(done) : stage[c] = "found" /\ done[u].by = c
    BY <1>1, <1>3, <2>1, FoundWithin
  <2>3. QED
    BY <1>1, <1>4, <1>5, <2>2
<1>7. SettledUsers = Visible(done, Len(done))
  <2>1. PICK m \in 0 .. Len(done) : SettledUsers = Visible(done, m)
    BY <1>1 DEF OrderOK
  <2>2. SettledUsers \subseteq Visible(done, Len(done))
    BY <1>1, <2>1, ReachGrows
  <2>3. QED
    BY <1>6, <2>2, VisibleIn DEF SettledUsers
<1>8. ASSUME NEW j \in DOMAIN done PROVE done[j].id \in known
  <2>1. PICK c : c = done[j].by
    OBVIOUS
  <2>2. c \in Calls /\ Due(done, c, j - 1) /\ j - 1 \in Nat /\ j - 1 <= Len(done)
    BY <1>1, <2>1, ServerDomain DEF ServerOK
  <2>3. Visible(done, j - 1) \subseteq Settled
    BY <1>1, <1>6, <2>2, ReachGrows
  <2>4. On(c)
    <3>1. CASE c \in Users
      BY <1>1, <1>3, <2>2, <2>3, <3>1, LedOn DEF Due
    <3>2. CASE c \notin Users
      <4>1. PICK w \in Calls : Prepended[w] = c /\ c # NoCall
        BY <2>2, <3>2 DEF Users, Made
      <4>2. On(w)
        BY <1>1, <1>3, <2>2, <2>3, <4>1, LedOn DEF Due
      <4>3. CASE stage[w] \in {"wrapping", "unwrapping"}
        BY <1>1, <1>3, <4>1, <4>3, MadeOn
      <4>4. CASE stage[w] = "found"
        <5>1. stage[c] = "settled"
          BY <1>1, <1>2, <1>4, <4>1, <4>4 DEF WrapOK
        <5>2. QED
          BY <5>1 DEF On
      <4>5. CASE stage[w] = "settled"
        <5>1. stage[c] = "settled"
          BY <1>1, <4>1, <4>5 DEF WrapOK
        <5>2. QED
          BY <5>1 DEF On
      <4>6. stage[w] \in {"wrapping", "unwrapping", "found", "settled"}
        BY <1>1, <4>2 DEF On, ClaimsOK, Stages
      <4>7. QED
        BY <4>3, <4>4, <4>5, <4>6
    <3>3. QED
      BY <3>1, <3>2
  <2>5. done[j].id = stepId[c]
    BY <1>1, <2>1, <2>2, <2>4, KnownEntry
  <2>6. stage[c] \in {"wrapping", "unwrapping", "found", "settled"}
    BY <1>1, <2>2, <2>4 DEF On, ClaimsOK, Stages
  <2>7. stage[c] # "found"
    BY <1>4, <1>5, <2>1, <2>2
  <2>8. CASE stage[c] = "wrapping"
    <3>1. c \notin Waits /\ Prepended[c] # NoCall
      BY <1>1, <2>2, <2>8 DEF WrapOK
    <3>2. PICK p : p = Prepended[c]
      OBVIOUS
    <3>3. p \in Calls /\ On(p)
      BY <1>1, <1>3, <2>2, <2>8, <3>1, <3>2, MadeFor, MadeOn DEF CallsApart
    <3>4. stage[p] \notin {"wrapping", "unwrapping", "settled"}
      BY <1>1, <2>2, <2>8, <3>1, <3>2 DEF WrapOK
    <3>5. stage[p] = "found"
      BY <1>1, <3>3, <3>4 DEF On, ClaimsOK, Stages
    <3>6. p \in Behind(done, j - 1)
      BY <2>2, <3>1, <3>2 DEF Due
    <3>7. PICK h \in 1 .. j - 1 : done[h].by = p
      BY <3>6 DEF Behind
    <3>8. h \in DOMAIN done
      BY <1>1, <2>2
    <3>9. QED
      BY <1>4, <1>5, <3>3, <3>5, <3>7, <3>8
  <2>9. QED
    BY <1>1, <2>2, <2>5, <2>6, <2>7, <2>8 DEF KnownOK
<1>9. QED
  BY <1>4, <1>7, <1>8

\* The step that has run in the request settles, and is the last of its results.
LEMMA StepResumesReplay == ASSUME CallsApart, ReplayOK, StepResumes PROVE ServerOK' /\ RequestOK'
<1>1. PICK k \in NewSteps :
        /\ stepId[k] \notin IdsOf(done) /\ done' = Recorded(k) /\ known' = known \cup {stepId[k]}
        /\ \E n \in DOMAIN registered : stepId[registered[n]] = stepId[k] /\ Settle(registered[n], done')
  BY DEF StepResumes
<1>2. /\ Cardinality(NewSteps) = 1 /\ k \notin Waits /\ req.step = NoId /\ report' = {}
      /\ UNCHANGED <<planned, req, remaining, stepId, expected, applying>>
  BY DEF StepResumes, EarlyStep, Live, claimVars
<1>3. k \in report
  BY DEF NewSteps
<1>4. /\ k \in Calls /\ stage[k] = "found" /\ stepId[k] \notin known
      /\ stepId[k] = FinalId(done, k) /\ Due(done, k, Len(done))
      /\ [id |-> stepId[k], by |-> k] \in Results
      /\ UserWaits /\ applying = <<>> /\ found = {}
  BY <1>1, <1>3, ReportDue
<1>5. /\ ClaimsOK /\ ServerOK /\ NumbersOK /\ ApplyingOK /\ QueueOK /\ WrapOK /\ KnownOK /\ OrderOK /\ FoundOK /\ GotOK
      /\ Len(done) \in Nat /\ DOMAIN done = 1 .. Len(done) /\ done \in Seq(Results)
  BY ServerDomain DEF ReplayOK, RequestOK, ServerOK
<1>6. /\ SettledUsers = Visible(done, Len(done))
      /\ \A j \in DOMAIN done : done[j].id \in known
      /\ \A c \in Calls : stage[c] = "found" => c = k
  BY <1>1, <1>2, CaughtUp
<1>7. PICK r \in Results : r = [id |-> stepId[k], by |-> k]
  BY <1>4
<1>8. done' = Append(done, r) /\ r.id = stepId[k] /\ r.by = k
  BY <1>1, <1>7 DEF Recorded
<1>9. ServerOK'
  BY <1>1, <1>2, <1>4, <1>5, <1>8, ServerRecords
<1>10. PICK L \in Nat : L = Len(done) + 1
  BY <1>5
<1>11. /\ done' \in Seq(Results) /\ Len(done') = L /\ DOMAIN done' = 1 .. L
       /\ \A i \in 1 .. Len(done) : done'[i] = done[i]
       /\ done'[L] = r
       /\ \A m \in 0 .. Len(done) : /\ Behind(done', m) = Behind(done, m)
                                    /\ Visible(done', m) = Visible(done, m)
       /\ Behind(done', L) = Behind(done, Len(done)) \cup {k}
       /\ \A i \in 1 .. L : i \in 1 .. Len(done) \/ i = L
       /\ L - 1 = Len(done)
  <2>1. PICK e : e = Append(done, r)
    OBVIOUS
  <2>2. /\ e \in Seq(Results) /\ Len(e) = Len(done) + 1
        /\ \A i \in 1 .. Len(done) : e[i] = done[i]
        /\ e[Len(done) + 1] = r
        /\ \A m \in 0 .. Len(done) : /\ Behind(e, m) = Behind(done, m)
                                     /\ Visible(e, m) = Visible(done, m)
        /\ Behind(e, Len(done) + 1) = Behind(done, Len(done)) \cup {k}
    BY <1>5, <1>8, <2>1, ReachSame
  <2>3. DOMAIN e = 1 .. L /\ L - 1 = Len(done) /\ \A i \in 1 .. L : i \in 1 .. Len(done) \/ i = L
    BY <1>5, <1>10, <2>2, LenProperties
  <2>4. done' = e
    BY <1>8, <2>1
  <2>5. QED
    BY <1>10, <2>2, <2>3, <2>4
<1>12. Settle(k, done')
  <2>1. PICK n \in DOMAIN registered : stepId[registered[n]] = stepId[k] /\ Settle(registered[n], done')
    BY <1>1
  <2>2. registered[n] \in Called
    BY <1>5, <2>1, ElementOfSeq DEF ClaimsOK
  <2>3. registered[n] = k
    BY <1>4, <1>5, <2>1, <2>2 DEF ClaimsOK
  <2>4. QED
    BY <2>1, <2>3
<1>13. PICK S : S = {k} \cup {w \in Calls : Prepended[w] = k /\ stage[w] = "unwrapping"}
  OBVIOUS
<1>14. PICK W : W = {w \in Calls : Prepended[w] = k /\ stage[w] = "wrapping"}
  OBVIOUS
<1>15. /\ \A c \in Calls : stage'[c] = IF c \in S THEN "settled" ELSE IF c \in W THEN "found" ELSE stage[c]
       /\ \A c \in Calls : got'[c] = IF c \in S THEN MadeBy(done', stepId[c]) ELSE got[c]
  BY <1>12, <1>13, <1>14 DEF Settle
<1>16. /\ S \subseteq Calls /\ k \in S /\ W \subseteq Calls
       /\ \A c \in S : c # k => stage[c] = "unwrapping" /\ stepId[c] \in known
       /\ \A c \in W : stage[c] = "wrapping"
  BY <1>4, <1>5, <1>13, <1>14 DEF KnownOK
<1>17. Prepended[k] # NoCall => stage[Prepended[k]] = "settled"
  BY <1>2, <1>4, <1>5 DEF WrapOK
<1>18. WrapOK' /\ found' = W
  <2>1. WrapOK' /\ found' = found \cup W
    BY <1>1, <1>2, <1>4, <1>5, <1>12, <1>14, <1>17, SettleWraps
  <2>2. QED
    BY <1>4, <2>1
<1>19. NumbersOK' /\ ApplyingOK' /\ QueueOK'
  <2>1. \A c \in Calls : stage'[c] = stage[c] \/ {stage[c], stage'[c]} \cap {"uncalled", "applying"} = {}
    BY <1>4, <1>15, <1>16
  <2>2. Settled \subseteq Settled'
    BY <1>4, <1>15, <1>16 DEF Settled
  <2>3. QED
    BY <1>2, <1>4, <1>5, <1>8, <2>1, <2>2, NumbersStay
<1>20. \A c \in Calls : stage[c] \in {"settled", "unwrapping"} => c \in Behind(done, Len(done))
  <2> SUFFICES ASSUME NEW c \in Calls, stage[c] \in {"settled", "unwrapping"}
               PROVE  c \in Behind(done, Len(done))
    OBVIOUS
  <2>1. On(c) /\ stepId[c] \in known
    BY <1>5 DEF On, KnownOK
  <2>2. \E u \in DOMAIN done : done[u].by = c
    BY <1>5, <2>1, KnownEntry
  <2>3. QED
    BY <1>5, <2>2 DEF Behind
<1>21. KnownOK'
  <2>1. remaining' \in Seq(Seq(Parts))
    BY <1>2, <1>5 DEF KnownOK
  <2>2. \E n \in 0 .. Len(done') : known' = {done'[i].id : i \in 1 .. n}
    <3>1. PICK n \in 0 .. Len(done) : known = {done[i].id : i \in 1 .. n}
      BY <1>5 DEF KnownOK
    <3>2. known \subseteq {done[i].id : i \in 1 .. Len(done)}
      BY <1>5, <3>1
    <3>3. known = {done[i].id : i \in 1 .. Len(done)}
      BY <1>5, <1>6, <3>2
    <3>4. known = {done'[i].id : i \in 1 .. Len(done)}
      BY <1>11, <3>3
    <3>5. 1 .. L = (1 .. Len(done)) \cup {L}
      BY <1>5, <1>10
    <3>6. known' = {done'[i].id : i \in 1 .. L}
      BY <1>1, <1>8, <1>11, <3>4, <3>5
    <3>7. QED
      BY <1>10, <1>11, <3>6
  <2>3. \A i \in DOMAIN remaining' : remaining'[i] \in known /\ remaining'[i] \in known'
    BY <1>1, <1>2, <1>5 DEF KnownOK
  <2>4. ASSUME NEW h \in DOMAIN remaining', NEW i \in DOMAIN remaining', h < i,
               NEW j \in DOMAIN done', NEW l \in DOMAIN done', done'[j].id = remaining'[h], done'[l].id = remaining'[i]
        PROVE  j < l
    <3>1. done'[L].id \notin known
      BY <1>4, <1>8, <1>11
    <3>2. j \in 1 .. Len(done) /\ l \in 1 .. Len(done)
      BY <1>11, <2>3, <2>4, <3>1
    <3>3. done[j].id = remaining[h] /\ done[l].id = remaining[i] /\ h \in DOMAIN remaining /\ i \in DOMAIN remaining
      BY <1>2, <1>11, <2>4, <3>2
    <3>4. QED
      BY <1>5, <2>4, <3>2, <3>3 DEF KnownOK
  <2>5. ASSUME NEW j \in DOMAIN done', stage'[done'[j].by] \notin {"settled", "unwrapping"}
        PROVE  \E i \in DOMAIN remaining' : remaining'[i] = done'[j].id
    <3>1. j # L
      BY <1>8, <1>11, <1>15, <1>16, <2>5
    <3>2. j \in DOMAIN done /\ done'[j] = done[j] /\ done[j].by \in Calls
      BY <1>5, <1>11, <3>1, ServerDomain
    <3>3. stage[done[j].by] \notin {"settled", "unwrapping"}
      BY <1>15, <1>16, <2>5, <3>2
    <3>4. \E i \in DOMAIN remaining : remaining[i] = done[j].id
      BY <1>5, <1>6, <3>2, <3>3 DEF KnownOK
    <3>5. QED
      BY <1>2, <3>2, <3>4
  <2>6. ASSUME NEW c \in Calls, stage'[c] \in {"settled", "unwrapping"} PROVE stepId'[c] \in known'
    BY <1>1, <1>2, <1>5, <1>15, <1>16, <2>6 DEF KnownOK
  <2>7. QED
    BY <2>1, <2>2, <2>3, <2>4, <2>5, <2>6 DEF KnownOK
<1>22. Settled' = Settled \cup S /\ SettledUsers' = SettledUsers \cup (Users \cap S)
  <2>1. Settled' = Settled \cup S
    BY <1>15, <1>16 DEF Settled
  <2>2. QED
    BY <2>1 DEF SettledUsers
<1>23. \E m \in 0 .. L : \E w : /\ SettledUsers' = Visible(done', m)
                                /\ SettledUsers' \in {SettledUsers, SettledUsers \cup {w}}
  <2>1. SettledUsers = Visible(done', L - 1) /\ L - 1 \in 0 .. L /\ L \in 1 .. L /\ L \in 0 .. L
    BY <1>5, <1>6, <1>10, <1>11
  <2>2. \A l \in Visible(done', L) : l \in Visible(done', L - 1) \/ l = k \/ (Prepended[l] # NoCall /\ k = Prepended[l])
    <3>1. PICK d : d = done'
      OBVIOUS
    <3>2. d \in Seq(Results) /\ L \in 1 .. Len(d) /\ d[L].by = k
      BY <1>8, <1>11, <2>1, <3>1
    <3>3. \A l \in Visible(d, L) : l \in Visible(d, L - 1) \/ d[L].by = l \/ (Prepended[l] # NoCall /\ d[L].by = Prepended[l])
      BY <3>2, VisibleNext
    <3>4. QED
      BY <3>1, <3>2, <3>3
  <2>3. Visible(done', L - 1) \subseteq Settled /\ k \notin Settled /\ k # NoCall
    BY <1>4, <2>1, ProgramAssumption DEF SettledUsers, Settled
  <2>4. CASE k \in Users
    <3>1. S = {k}
      BY <1>13, <2>3, <2>4, MadeFor DEF CallsApart
    <3>2. Prepended[k] # NoCall => Prepended[k] \in Behind(done', L)
      BY <1>4, <1>11, <1>17, <1>20, MadeFor DEF CallsApart
    <3>3. k \in Visible(done', L)
      BY <1>11, <2>4, <3>2, VisibleIn
    <3>4. \A l \in Visible(done', L) : l \in Visible(done', L - 1) \/ l = k
      <4>1. ASSUME NEW l \in Visible(done', L), Prepended[l] # NoCall, k = Prepended[l] PROVE FALSE
        <5>1. l \in Calls
          BY VisibleIn DEF Users
        <5>2. QED
          BY <2>4, <4>1, <5>1, MadeFor DEF CallsApart
      <4>2. QED
        BY <2>2, <4>1
    <3>5. SettledUsers \cup {k} = Visible(done', L)
      <4>1. PICK d : d = done'
        OBVIOUS
      <4>2. /\ Len(d) \in Nat /\ L - 1 \in 0 .. Len(d) /\ SettledUsers = Visible(d, L - 1) /\ L \in 1 .. Len(d)
            /\ Visible(d, L - 1) \subseteq Settled /\ k \in Visible(d, L)
            /\ \A l \in Visible(d, L) : l \in Visible(d, L - 1) \/ l = k
        BY <1>11, <2>1, <2>3, <3>3, <3>4, <4>1
      <4>3. QED
        BY <2>3, <4>1, <4>2, VisibleStep
    <3>6. SettledUsers' = SettledUsers \cup {k}
      BY <1>22, <2>4, <3>1
    <3>7. QED
      BY <2>1, <3>5, <3>6
  <2>5. CASE k \notin Users
    <3>1. PICK w \in Calls : Prepended[w] = k
      BY <1>4, <2>5 DEF Users, Made
    <3>2. w \in Users /\ \A v \in Calls : Prepended[v] = k => v = w
      BY <2>3, <3>1, MadeFor DEF CallsApart
    <3>3. CASE stage[w] # "unwrapping"
      <4>1. Users \cap S = {}
        BY <1>13, <2>5, <3>2, <3>3
      <4>2. SettledUsers' = SettledUsers
        BY <1>22, <4>1
      <4>3. QED
        BY <2>1, <4>2
    <3>4. CASE stage[w] = "unwrapping"
      <4>1. Users \cap S = {w} /\ w \notin Settled
        BY <1>13, <2>5, <3>1, <3>2, <3>4 DEF Settled
      <4>2. w \in Visible(done', L)
        BY <1>11, <1>20, <3>1, <3>2, <3>4, VisibleIn
      <4>3. \A l \in Visible(done', L) : l \in Visible(done', L - 1) \/ l = w
        <5>1. \A l \in Visible(done', L) : l \in Users /\ l \in Calls
          BY VisibleIn DEF Users
        <5>2. QED
          BY <2>2, <2>5, <3>2, <5>1
      <4>4. SettledUsers \cup {w} = Visible(done', L)
        <5>1. PICK d : d = done'
          OBVIOUS
        <5>2. /\ Len(d) \in Nat /\ L - 1 \in 0 .. Len(d) /\ SettledUsers = Visible(d, L - 1) /\ L \in 1 .. Len(d)
              /\ Visible(d, L - 1) \subseteq Settled /\ w \in Visible(d, L)
              /\ \A l \in Visible(d, L) : l \in Visible(d, L - 1) \/ l = w
          BY <1>11, <2>1, <2>3, <4>2, <4>3, <5>1
        <5>3. QED
          BY <4>1, <5>1, <5>2, VisibleStep
      <4>5. SettledUsers' = SettledUsers \cup {w}
        BY <1>22, <4>1
      <4>6. QED
        BY <2>1, <4>4, <4>5
    <3>5. QED
      BY <3>3, <3>4
  <2>6. QED
    BY <2>4, <2>5
<1>24. OrderOK'
  <2>1. PICK m \in 0 .. Len(done') : \E w : /\ SettledUsers' = Visible(done', m)
                                            /\ SettledUsers' \in {SettledUsers, SettledUsers \cup {w}}
    BY <1>11, <1>23
  <2>2. PICK w : SettledUsers' = SettledUsers \/ SettledUsers' = SettledUsers \cup {w}
    BY <2>1
  <2>3. \A c \in Calls : On(c) => On(c)'
    BY <1>15 DEF On
  <2>4. \A h \in 0 .. Len(done') : Visible(done', h) \subseteq Settled' /\ Visible(done', h) # SettledUsers' =>
          \A c \in Calls : Reached(done', c, h) => On(c)'
    BY <1>4, <1>5, <1>8, <2>1, <2>2, <2>3, OrderGrows
  <2>5. ASSUME NEW v \in Calls \ Waits, stage'[v] = "unwrapping", NEW h \in DOMAIN done', done'[h].by = v
        PROVE  Visible(done', h - 1) \subseteq Settled'
    <3>1. stage[v] = "unwrapping" /\ v # k
      BY <1>15, <1>16, <2>5
    <3>2. h \in 1 .. Len(done)
      BY <1>8, <1>11, <2>5, <3>1
    <3>3. done'[h] = done[h] /\ h - 1 \in 0 .. Len(done)
      BY <1>5, <1>11, <3>2
    <3>4. Visible(done, h - 1) \subseteq Settled
      BY <1>5, <2>5, <3>1, <3>2, <3>3 DEF OrderOK
    <3>5. QED
      BY <1>11, <1>22, <3>3, <3>4
  <2>6. QED
    BY <2>1, <2>4, <2>5 DEF OrderOK
<1>25. FoundOK'
  <2>1. \A c \in Calls : stage'[c] = "found" => c \in found'
    BY <1>6, <1>15, <1>16, <1>18
  <2>2. \A c \in found' : c \in Calls /\ stage'[c] = "found"
    <3>1. \A c \in W : c \notin S
      BY <1>4, <1>16
    <3>2. QED
      BY <1>15, <1>16, <1>18, <3>1
  <2>3. QED
    BY <1>2, <2>1, <2>2 DEF FoundOK
<1>26. GotOK'
  <2>1. ASSUME NEW c \in S PROVE got'[c] = c
    <3>1. c \in Calls /\ stage'[c] = "settled"
      BY <1>15, <1>16
    <3>2. stepId[c] = FinalId(done', c)
      BY <1>2, <1>19, <3>1 DEF NumbersOK, Current, FinalId, On
    <3>3. c \in Behind(done', L)
      BY <1>11, <1>16, <1>20
    <3>4. PICK u \in 1 .. L : done'[u].by = c
      BY <3>3 DEF Behind
    <3>5. PICK d : d = done'
      OBVIOUS
    <3>6. /\ d \in Seq(Results) /\ \A i \in DOMAIN d : d[i].id = FinalId(d, d[i].by)
          /\ u \in DOMAIN d /\ d[u].by = c
      BY <1>9, <1>11, <3>4, <3>5 DEF ServerOK
    <3>7. MadeBy(d, FinalId(d, c)) = c
      BY <3>1, <3>6, OwnValue DEF CallsApart
    <3>8. QED
      BY <1>15, <3>1, <3>2, <3>5, <3>7
  <2>2. QED
    BY <1>5, <1>15, <2>1 DEF GotOK
<1>27. QED
  BY <1>9, <1>18, <1>19, <1>21, <1>24, <1>25, <1>26 DEF RequestOK

-----------------------------------------------------------------------------
(* The server, and requests that begin and end.                            *)

\* A request begins with a prefix of the results; between requests there is none.
LEMMA FreshReplay ==
  ASSUME ServerOK', NEW n \in 0 .. Len(done'), Fresh([i \in 1 .. n |-> done'[i].id]) PROVE RequestOK'
<1>1. Cleared([i \in 1 .. n |-> done[i].id])'
  BY DEF Fresh, Cleared
<1>2. NothingCalled'
  BY <1>1 DEF NothingCalled
<1>3. QED
  BY <1>2, ClearedReplayNext

LEMMA EmptyReplay ==
  ASSUME ServerOK', Cleared(<<>>)' PROVE RequestOK'
<1>1. 0 \in 0 .. Len(done')
  BY LenProperties DEF ServerOK
<1>2. [i \in 1 .. 0 |-> done'[i].id] = <<>>
  OBVIOUS
<1>3. Cleared([i \in 1 .. 0 |-> done[i].id])'
  BY <1>2 DEF Cleared
<1>4. NothingCalled'
  BY <1>1, <1>3 DEF NothingCalled
<1>5. QED
  BY <1>4, ClearedReplayNext

\* The end of a request, with what is owed after it.
LEMMA EndReplay ==
  ASSUME ServerOK', IdleOK, NEW owed, EndRequest(owed), \A j \in owed : j.on /\ j.len \in Nat
  PROVE  RequestOK' /\ IdleOK'
<1>1. /\ req' = Idle /\ Cleared(<<>>)'
      /\ jobs' \subseteq owed \cup jobs
  BY DEF EndRequest, Fresh, Cleared, Owe
<1>2. RequestOK'
  BY <1>1, EmptyReplay
<1>3. IdleOK'
  BY <1>1 DEF IdleOK, Idle
<1>4. QED
  BY <1>2, <1>3

LEMMA StartRequestReplay == ASSUME ReplayOK, StartRequest PROVE ServerOK' /\ RequestOK' /\ IdleOK'
<1>1. PICK j \in jobs : \E n \in j.len .. Len(done) :
        req' = j /\ jobs' = jobs \ {j} /\ Fresh([i \in 1 .. n |-> done[i].id])
  BY DEF StartRequest
<1>2. UNCHANGED <<done, planned>> /\ ServerOK /\ IdleOK /\ Len(done) \in Nat
  BY ServerDomain DEF StartRequest, ReplayOK
<1>3. PICK n \in j.len .. Len(done) :
        req' = j /\ jobs' = jobs \ {j} /\ Fresh([i \in 1 .. n |-> done[i].id])
  BY <1>1
<1>4. ServerOK'
  BY <1>2, ServerSame
<1>5. j.on /\ j.len \in Nat
  BY <1>2 DEF IdleOK
<1>6. n \in 0 .. Len(done') /\ Fresh([i \in 1 .. n |-> done'[i].id])
  BY <1>2, <1>3, <1>5
<1>7. RequestOK'
  BY <1>4, <1>6, FreshReplay
<1>8. IdleOK'
  BY <1>2, <1>3, <1>5 DEF IdleOK
<1>9. QED
  BY <1>4, <1>7, <1>8

LEMMA LateRequestReplay == ASSUME ReplayOK, LateRequest PROVE ServerOK' /\ RequestOK' /\ IdleOK'
<1>1. PICK n \in 0 .. Len(done) - 1, die \in BOOLEAN :
        req' = Job(NoId, n, die) /\ Fresh([i \in 1 .. n |-> done[i].id])
  BY DEF LateRequest
<1>2. UNCHANGED <<done, planned, jobs>> /\ ServerOK /\ IdleOK /\ Len(done) \in Nat
  BY ServerDomain DEF LateRequest, ReplayOK, serverVars
<1>3. ServerOK'
  BY <1>2, ServerSame
<1>4. n \in 0 .. Len(done') /\ Fresh([i \in 1 .. n |-> done'[i].id]) /\ n \in Nat
  BY <1>1, <1>2
<1>5. RequestOK'
  BY <1>3, <1>4, FreshReplay
<1>6. IdleOK'
  BY <1>1, <1>2, <1>4 DEF IdleOK, Job
<1>7. QED
  BY <1>3, <1>5, <1>6

LEMMA RequestFailsReplay == ASSUME ReplayOK, RequestFails PROVE ServerOK' /\ RequestOK' /\ IdleOK'
<1>1. req.on /\ EndRequest({req}) /\ UNCHANGED <<done, planned>> /\ ServerOK /\ IdleOK
  BY DEF RequestFails, ReplayOK
<1>2. ServerOK'
  BY <1>1, ServerSame
<1>3. QED
  BY <1>1, <1>2, EndReplay DEF IdleOK

LEMMA DiscoveryJob ==
  ASSUME NEW d \in Seq(Results) PROVE Discovery(d).on /\ Discovery(d).len \in Nat
BY LenProperties DEF Discovery, Job

LEMMA WaitEndsReplay == ASSUME CallsApart, ReplayOK, WaitEnds PROVE ServerOK' /\ RequestOK' /\ IdleOK'
<1>1. PICK p \in planned : p.id \notin IdsOf(done) /\ done' = Append(done, p) /\ Owe({Discovery(done')})
  BY DEF WaitEnds
<1>2. /\ ~req.on /\ UNCHANGED <<planned, requestVars>> /\ ServerOK /\ IdleOK
      /\ UNCHANGED <<req, remaining, known, expected, registered, stepId, applying, stage, found, ticking, report, got>>
  BY DEF WaitEnds, ReplayOK, requestVars, claimVars
<1>3. p \in Results /\ Due(done, p.by, Len(done)) /\ p.id = FinalId(done, p.by)
  BY <1>2 DEF ServerOK
<1>4. ServerOK'
  BY <1>1, <1>2, <1>3, ServerRecords
<1>5. Cleared(<<>>)'
  BY <1>2 DEF IdleOK, Cleared
<1>6. RequestOK'
  BY <1>4, <1>5, EmptyReplay
<1>7. jobs' \subseteq {Discovery(done')} \cup jobs
  BY <1>1 DEF Owe
<1>8. PICK d \in Seq(Results) : d = done'
  BY <1>4 DEF ServerOK
<1>9. Discovery(d).on /\ Discovery(d).len \in Nat
  BY DiscoveryJob
<1>10. Discovery(done') = Discovery(d)
  BY <1>8
<1>11. IdleOK'
  BY <1>2, <1>5, <1>7, <1>9, <1>10 DEF IdleOK
<1>12. QED
  BY <1>4, <1>6, <1>11

LEMMA StepRanReplay == ASSUME CallsApart, ReplayOK, StepRan PROVE ServerOK' /\ RequestOK' /\ IdleOK'
<1>1. PICK k \in report \ Waits :
        /\ done' = IF stepId[k] \in IdsOf(done) THEN done ELSE Recorded(k)
        /\ EndRequest({Discovery(done')})
  BY DEF StepRan
<1>2. UNCHANGED planned /\ ServerOK /\ IdleOK
  BY DEF StepRan, ReplayOK
<1>3. ServerOK'
  <2>1. CASE stepId[k] \in IdsOf(done)
    BY <1>1, <1>2, <2>1, ServerSame
  <2>2. CASE stepId[k] \notin IdsOf(done)
    <3>1. /\ stepId[k] = FinalId(done, k) /\ Due(done, k, Len(done))
          /\ [id |-> stepId[k], by |-> k] \in Results
      BY <2>2, ReportDue
    <3>2. PICK r \in Results : r = [id |-> stepId[k], by |-> k]
      BY <3>1
    <3>3. done' = Append(done, r) /\ r.id = stepId[k] /\ r.by = k
      BY <1>1, <2>2, <3>2 DEF Recorded
    <3>4. QED
      BY <1>2, <2>2, <3>1, <3>3, ServerRecords
  <2>3. QED
    BY <2>1, <2>2
<1>4. PICK d \in Seq(Results) : d = done'
  BY <1>3 DEF ServerOK
<1>5. PICK j : j = Discovery(d)
  OBVIOUS
<1>6. EndRequest({j}) /\ j.on /\ j.len \in Nat
  BY <1>1, <1>4, <1>5, DiscoveryJob
<1>7. QED
  BY <1>2, <1>3, <1>6, EndReplay

LEMMA StepsPlannedReplay == ASSUME CallsApart, ReplayOK, StepsPlanned PROVE ServerOK' /\ RequestOK' /\ IdleOK'
<1>1. PICK new : new = {k \in NewSteps : stepId[k] \notin PlannedIds \cup IdsOf(done)}
  OBVIOUS
<1>2. /\ planned' = planned \cup {[id |-> stepId[k], by |-> k] : k \in new}
      /\ EndRequest({Job(stepId[k], Len(done), FALSE) : k \in new \ Waits})
      /\ done' = done /\ ServerOK /\ IdleOK /\ Len(done) \in Nat
  BY <1>1, ServerDomain DEF StepsPlanned, ReplayOK
<1>3. ASSUME NEW k \in new
      PROVE  /\ [id |-> stepId[k], by |-> k] \in Results
             /\ Due(done, k, Len(done)) /\ stepId[k] = FinalId(done, k)
  <2>1. k \in report /\ stepId[k] \notin IdsOf(done)
    BY <1>1 DEF NewSteps
  <2>2. QED
    BY <2>1, ReportDue
<1>4. ServerOK'
  <2>1. planned' \subseteq Results
    BY <1>2, <1>3 DEF ServerOK
  <2>2. ASSUME NEW p \in planned' PROVE Due(done, p.by, Len(done)) /\ p.id = FinalId(done, p.by)
    <3>1. CASE p \in planned
      BY <1>2, <3>1 DEF ServerOK
    <3>2. CASE p \notin planned
      <4>1. PICK k \in new : p = [id |-> stepId[k], by |-> k]
        BY <1>2, <3>2
      <4>2. p.by = k /\ p.id = stepId[k]
        BY <4>1
      <4>3. QED
        BY <1>3, <4>2
    <3>3. QED
      BY <3>1, <3>2
  <2>3. QED
    BY <1>2, <2>1, <2>2 DEF ServerOK
<1>5. PICK owed : owed = {Job(stepId[k], Len(done), FALSE) : k \in new \ Waits}
  OBVIOUS
<1>6. EndRequest(owed) /\ \A j \in owed : j.on /\ j.len \in Nat
  BY <1>2, <1>5 DEF Job
<1>7. QED
  BY <1>2, <1>4, <1>6, EndReplay

LEMMA FunctionReturnsReplay == ASSUME ReplayOK, FunctionReturns PROVE ServerOK' /\ RequestOK' /\ IdleOK'
<1>1. /\ req' = Idle /\ jobs' = {} /\ Fresh(<<>>)
      /\ UNCHANGED <<done, planned>> /\ ServerOK /\ IdleOK
  BY DEF FunctionReturns, ReplayOK
<1>2. ServerOK'
  BY <1>1, ServerSame
<1>3. Cleared(<<>>)'
  BY <1>1 DEF Fresh, Cleared
<1>4. RequestOK'
  BY <1>2, <1>3, EmptyReplay
<1>5. IdleOK'
  BY <1>1, <1>3 DEF IdleOK, Idle
<1>6. QED
  BY <1>2, <1>4, <1>5

-----------------------------------------------------------------------------
(* All steps.                                                              *)

LEMMA NextReplay == ASSUME CallsApart, ReplayOK, [Next]_vars PROVE ReplayOK'
<1>1. ClaimsOK'
  BY NextClaims DEF CallsApart, ReplayOK
<1>2. ASSUME req.on, UNCHANGED <<jobs, req>> PROVE IdleOK'
  BY <1>2 DEF ReplayOK, IdleOK
<1>3. ASSUME UNCHANGED <<done, planned>> PROVE ServerOK'
  BY <1>3, ServerSame DEF ReplayOK
<1>4. CASE StartRequest
  BY <1>1, <1>4, StartRequestReplay DEF ReplayOK
<1>5. CASE LateRequest
  BY <1>1, <1>5, LateRequestReplay DEF ReplayOK
<1>6. CASE RequestFails
  BY <1>1, <1>6, RequestFailsReplay DEF ReplayOK
<1>7. CASE WaitEnds
  BY <1>1, <1>7, WaitEndsReplay DEF ReplayOK
<1>8. CASE CallStep
  <2>1. RequestOK'
    BY <1>8, CallStepReplay
  <2>2. req.on /\ UNCHANGED <<done, planned, jobs, req>>
    BY <1>8 DEF CallStep, serverVars
  <2>3. QED
    BY <1>1, <1>2, <1>3, <2>1, <2>2 DEF ReplayOK
<1>9. CASE ApplyMiddleware
  <2>1. RequestOK'
    BY <1>9, ApplyMiddlewareReplay
  <2>2. req.on /\ UNCHANGED <<done, planned, jobs, req>>
    BY <1>9 DEF ApplyMiddleware, serverVars
  <2>3. QED
    BY <1>1, <1>2, <1>3, <2>1, <2>2 DEF ReplayOK
<1>10. CASE HandleMemoized
  <2>1. RequestOK'
    BY <1>10, HandleMemoizedReplay
  <2>2. req.on /\ UNCHANGED <<done, planned, jobs, req>>
    BY <1>10 DEF HandleMemoized, Prepared, serverVars
  <2>3. QED
    BY <1>1, <1>2, <1>3, <2>1, <2>2 DEF ReplayOK
<1>11. CASE ReportFound
  <2>1. RequestOK'
    BY <1>11, ReportFoundReplay
  <2>2. req.on /\ UNCHANGED <<done, planned, jobs, req>>
    BY <1>11 DEF ReportFound, Prepared, serverVars
  <2>3. QED
    BY <1>1, <1>2, <1>3, <2>1, <2>2 DEF ReplayOK
<1>12. CASE StepRan
  BY <1>1, <1>12, StepRanReplay DEF ReplayOK
<1>13. CASE StepResumes
  <2>1. ServerOK' /\ RequestOK'
    BY <1>13, StepResumesReplay
  <2>2. req.on /\ UNCHANGED <<jobs, req>>
    BY <1>13 DEF StepResumes
  <2>3. QED
    BY <1>1, <1>2, <2>1, <2>2 DEF ReplayOK
<1>14. CASE StepsPlanned
  BY <1>1, <1>14, StepsPlannedReplay DEF ReplayOK
<1>15. CASE NothingToDo
  <2>1. RequestOK'
    BY <1>15, NothingToDoReplay
  <2>2. req.on /\ UNCHANGED <<done, planned, jobs, req>>
    BY <1>15 DEF NothingToDo, serverVars
  <2>3. QED
    BY <1>1, <1>2, <1>3, <2>1, <2>2 DEF ReplayOK
<1>16. CASE FunctionReturns
  BY <1>1, <1>16, FunctionReturnsReplay DEF ReplayOK
<1>17. CASE UNCHANGED vars
  <2>1. /\ UNCHANGED <<done, planned, jobs, req, remaining, known, claimVars, stage, found, ticking, report, got>>
        /\ UNCHANGED <<expected, registered, stepId, applying>>
    BY <1>17 DEF vars, serverVars, requestVars, claimVars
  <2>2. FoundOK'
    BY <2>1 DEF ReplayOK, RequestOK, FoundOK, UserWaits, Ready, InWrap, Settled
  <2>3. RequestOK'
    BY <2>1, <2>2, RequestStays DEF ReplayOK
  <2>4. IdleOK'
    BY <2>1 DEF ReplayOK, IdleOK, Cleared
  <2>5. QED
    BY <1>1, <1>3, <2>1, <2>3, <2>4 DEF ReplayOK
<1>18. QED
  BY <1>4, <1>5, <1>6, <1>7, <1>8, <1>9, <1>10, <1>11, <1>12, <1>13, <1>14, <1>15, <1>16, <1>17
     DEF Next, SdkStep

LEMMA InitReplay == Init => ReplayOK
<1> SUFFICES ASSUME Init PROVE ReplayOK
  OBVIOUS
<1>1. ClaimsOK
  BY InitClaims
<1>2. done = <<>> /\ DOMAIN done = {} /\ planned = {} /\ Len(done) = 0
  BY DEF Init
<1>3. ServerOK
  BY <1>2, EmptySeq DEF ServerOK
<1>4. Cleared(<<>>)
  <2>1. ToSet(<<>>) = {}
    BY DEF ToSet
  <2>2. QED
    BY <2>1 DEF Init, Cleared
<1>5. NothingCalled
  <2>1. [i \in 1 .. 0 |-> done[i].id] = <<>>
    OBVIOUS
  <2>2. Cleared([i \in 1 .. 0 |-> done[i].id])
    BY <1>4, <2>1
  <2>3. QED
    BY <1>2, <2>2 DEF NothingCalled
<1>6. RequestOK
  BY <1>3, <1>5, ClearedReplay
<1>7. IdleOK
  BY <1>4 DEF Init, IdleOK, Idle, Job
<1>8. QED
  BY <1>1, <1>3, <1>6, <1>7 DEF ReplayOK

\* Every request of a run, whatever has been lost, repeated or has come late, keeps what
\* replay rests on: the ids are those of the places of the calls.
THEOREM ReplayInvariant == CallsApart => (Spec => []ReplayOK)
<1> SUFFICES ASSUME CallsApart PROVE Spec => []ReplayOK
  OBVIOUS
<1>1. Init => ReplayOK
  BY InitReplay
<1>2. ReplayOK /\ [Next]_vars => ReplayOK'
  BY NextReplay
<1>3. QED
  BY <1>1, <1>2, PTL DEF Spec

\* In every request the id of a call, once the middleware is through with it, is the one its
\* result has been recorded under, and no other call's (resolveStepIdCollision numbers the
\* calls of an id alike in each replay).
IdsReplayed ==
  \A k \in Calls : On(k) => \A i \in DOMAIN done : done[i].id = stepId[k] <=> done[i].by = k
THEOREM IdsAreReplayed == CallsApart => (Spec => []IdsReplayed)
<1> SUFFICES ASSUME CallsApart PROVE Spec => []IdsReplayed
  OBVIOUS
<1>1. ReplayOK => IdsReplayed
  BY KnownEntry DEF ReplayOK, RequestOK, IdsReplayed
<1>2. Spec => []ReplayOK
  BY ReplayInvariant
<1>3. QED
  BY <1>1, <1>2, PTL

\* A call only ever receives the result its own body has made, in whichever request, and no
\* body makes two, for every program whose middleware keeps its steps apart
\* (resolveStepIdCollision, the completion order of reportNextTick).
THEOREM OwnResults == CallsApart => (Spec => []OwnResult)
<1> SUFFICES ASSUME CallsApart PROVE Spec => []OwnResult
  OBVIOUS
<1>1. ReplayOK => OwnResult
  BY DEF ReplayOK, RequestOK, GotOK, ServerOK, OwnResult
<1>2. Spec => []ReplayOK
  BY ReplayInvariant
<1>3. QED
  BY <1>1, <1>2, PTL

\* What a middleware does before next() is done before the step it wraps has run, for every
\* such program.
THEOREM PrependedRunsFirst == CallsApart => (Spec => []PrependedFirst)
<1> SUFFICES ASSUME CallsApart PROVE Spec => []PrependedFirst
  OBVIOUS
<1>1. ReplayOK => PrependedFirst
  BY DEF ReplayOK, ServerOK, Due, Behind, PrependedFirst
<1>2. Spec => []ReplayOK
  BY ReplayInvariant
<1>3. QED
  BY <1>1, <1>2, PTL
=============================================================================
