----------------------- MODULE AnalysisLifecycle_proofs -----------------------
(***************************************************************************)
(* Proofs about AnalysisLifecycle, for any number of workflows and of      *)
(* requests and any retry limits.  Two things make the properties          *)
(* inductive: where an attempt stands says what it has already written     *)
(* (WrittenIsSettled), and the drafts of an analysis are counted against   *)
(* the attempts that have got past creating one (DraftCount), the          *)
(* announcements against the drafts still to be announced (AnnounceCount). *)
(***************************************************************************)
EXTENDS AnalysisLifecycle, FiniteSetTheorems, TLAPS

Attempt == 1..AgentAttempts
Fresh(w) == pc[w] \in {"none", "buildThreadSnapshot", "markAnalyzing"}

\* Before runAnalysisAgent there is no attempt of it, and no row is settled.
FreshIsUntouched ==
  \A w \in Workflow : Fresh(w) =>
    /\ \A k \in Attempt : step[<<w, k>>] = "none"
    /\ \A b \in 1..FastAttempts : status[<<w, b>>] \notin Settled

Begun == \A w \in Workflow, k \in Attempt : step[<<w, k>>] # "none" => k <= attempt[w]

\* An attempt past its result, or returned, has written a settled status.
WrittenIsSettled ==
  \A w \in Workflow, k \in Attempt :
    step[<<w, k>>] \in {"drafting", "emitting", "returned"} => status[RowOf(w)] \in Settled

DraftingHasDraft ==
  \A w \in Workflow, k \in Attempt : At(w, k, "drafting") => answer[<<w, k>>] = "draft"

Shape == TypeOK /\ FreshIsUntouched /\ Begun /\ WrittenIsSettled /\ DraftingHasDraft

-------------------------------------------------------------------------------
(* Types *)

LEMMA RowType == ASSUME TypeOK, NEW w \in Workflow PROVE RowOf(w) \in Analysis
BY DEF TypeOK, RowOf, Analysis

LEMMA TypeInit == ASSUME Init PROVE TypeOK
<1>1. MaxOf("none") >= 1 /\ 1 \in 1..FastAttempts
  BY AttemptsAssumption DEF MaxOf
<1> QED
  BY <1>1 DEF Init, TypeOK, Ends

\* Retries keeps the attempt number within the limit of the activity.
LEMMA TypeRetries ==
  ASSUME TypeOK, NEW w \in Workflow, pc[w] \in Activities, Retries(w)
  PROVE  /\ pc' \in [Workflow -> Activities \cup Closed \cup {"none"}]
         /\ attempt' \in [Workflow -> Nat \ {0}]
         /\ \A v \in Workflow : pc'[v] \notin Closed => attempt'[v] <= MaxOf(pc'[v])
         /\ made' \in [Workflow -> 1..FastAttempts]
<1>1. MaxOf(pc[w]) \in Nat
  BY AttemptsAssumption DEF MaxOf
<1>2. CASE attempt[w] < MaxOf(pc[w])
  <2>1. attempt[w] + 1 \in Nat \ {0} /\ attempt[w] + 1 <= MaxOf(pc[w])
    BY <1>1, <1>2 DEF TypeOK
  <2> QED
    BY <1>2, <2>1 DEF TypeOK, Retries
<1>3. CASE ~(attempt[w] < MaxOf(pc[w]))
  BY <1>3 DEF TypeOK, Retries, Activities, Closed
<1> QED
  BY <1>2, <1>3

LEMMA TypeEngine ==
  ASSUME TypeOK, NEW w \in Workflow, EngineStep(w)
  PROVE  TypeOK'
<1> USE DEF rowVars, attemptVars
<1>2. ASSUME CreatesRow(w)
      PROVE  /\ status' \in [Analysis -> AnalysisStatus \cup {"none"}]
             /\ pc[w] \in Activities /\ attempt[w] \in 1..FastAttempts
  <2>1. attempt[w] \in 1..FastAttempts
    BY <1>2, AttemptsAssumption DEF TypeOK, CreatesRow, MaxOf, Activities, Closed
  <2> QED
    BY <1>2, <2>1 DEF TypeOK, CreatesRow, AnalysisStatus, Activities
<1>3. ASSUME MarksRow(w)
      PROVE  /\ status' \in [Analysis -> AnalysisStatus \cup {"none"}]
             /\ pc[w] \in Activities
  BY <1>3 DEF TypeOK, MarksRow, AnalysisStatus, Activities
<1>4. CASE BuildReturns(w)
  <2>1. MaxOf("markAnalyzing") >= 1
    BY AttemptsAssumption DEF MaxOf
  <2> QED
    BY <1>4, <1>2, <2>1 DEF BuildReturns, CreatesRow, Goes, TypeOK, Activities
<1>5. CASE BuildLost(w)
  BY <1>5, <1>2, TypeRetries DEF BuildLost, CreatesRow, TypeOK
<1>6. CASE MarkReturns(w)
  <2>1. MaxOf("runAnalysisAgent") >= 1 /\ 1 \in 1..AgentAttempts
    BY AttemptsAssumption DEF MaxOf
  <2> QED
    BY <1>6, <1>3, <2>1 DEF MarkReturns, MarksRow, Goes, TypeOK, Activities, Steps
<1>7. CASE MarkLost(w)
  BY <1>7, <1>3, TypeRetries DEF MarkLost, MarksRow, TypeOK
<1>8. CASE FastFails(w)
  BY <1>8, TypeRetries DEF FastFails, TypeOK, Activities
<1>9. CASE AgentReturns(w)
  BY <1>9 DEF AgentReturns, TypeOK, Closed, Activities
<1>10. CASE AgentRetried(w)
  <2>1. step' \in [Workflow \X (1..AgentAttempts) -> Steps \cup Ends]
    BY <1>10, AttemptsAssumption DEF AgentRetried, Step, TypeOK, Steps
  <2>2. pc[w] \in Activities
    BY <1>10 DEF AgentRetried, Activities
  <2> QED
    BY <1>10, <2>1, <2>2, TypeRetries DEF AgentRetried, TypeOK
<1> QED
  BY <1>4, <1>5, <1>6, <1>7, <1>8, <1>9, <1>10 DEF EngineStep

LEMMA TypeAttempt ==
  ASSUME TypeOK, NEW w \in Workflow, NEW k \in Attempt, AttemptStep(w, k) \/ AttemptDies(w, k)
  PROVE  TypeOK'
<1> USE DEF rowVars, engineVars, Attempt, Step, At, TypeOK
<1>1. CASE AgentAnswers(w, k)
  BY <1>1 DEF AgentAnswers, Steps
<1>2. CASE ResultLoads(w, k)
  BY <1>2 DEF ResultLoads, Steps
<1>3. CASE ResultWrites(w, k)
  BY <1>3 DEF ResultWrites, Steps, AnalysisStatus
<1>4. CASE DraftCreates(w, k)
  BY <1>4, RowType DEF DraftCreates, Steps
<1>5. CASE EventEmits(w, k)
  BY <1>5, RowType DEF EventEmits, Ends
<1>6. CASE StepFails(w, k)
  BY <1>6 DEF StepFails, Steps
<1>7. CASE FailureLoads(w, k)
  BY <1>7 DEF FailureLoads, Steps, Ends
<1>8. CASE FailureWrites(w, k)
  BY <1>8 DEF FailureWrites, Ends, AnalysisStatus
<1>9. CASE FailureThrows(w, k)
  BY <1>9 DEF FailureThrows, Ends
<1>10. CASE AttemptDies(w, k)
  BY <1>10 DEF AttemptDies, Ends
<1> QED
  BY <1>1, <1>2, <1>3, <1>4, <1>5, <1>6, <1>7, <1>8, <1>9, <1>10 DEF AttemptStep

\* The triggers, and what they do not touch.
LEMMA TypeTrigger ==
  ASSUME TypeOK,
         \/ \E o \in Operator : TriggerChecks(o) \/ TriggerDispatches(o) \/ TriggerFails(o)
         \/ DispatchAnalysis
  PROVE  /\ TypeOK'
         /\ UNCHANGED <<rowVars, attempt, made, attemptVars>>
         /\ \/ UNCHANGED pc
            \/ \E w \in Workflow :
                 pc[w] = "none" /\ pc' = [pc EXCEPT ![w] = "buildThreadSnapshot"]
<1> USE DEF rowVars, engineVars, attemptVars
<1>1. ASSUME NEW o \in Operator, TriggerChecks(o) \/ TriggerFails(o)
      PROVE  TypeOK' /\ UNCHANGED <<rowVars, engineVars, attemptVars>>
  BY <1>1 DEF TriggerChecks, TriggerFails, TypeOK
<1>2. ASSUME NEW w \in Workflow, Starts(w), UNCHANGED <<rowVars, attemptVars>>,
             asking' \subseteq asking
      PROVE  TypeOK'
  <2>1. MaxOf("none") = MaxOf("buildThreadSnapshot")
    BY DEF MaxOf
  <2> QED
    BY <1>2, <2>1 DEF Starts, TypeOK, Activities, Closed
<1> QED
  BY <1>1, <1>2 DEF TriggerDispatches, DispatchAnalysis, Starts

-------------------------------------------------------------------------------
(* Where the attempts stand *)

LEMMA SettledIsNot ==
  /\ Settled = {"ANALYZED", "NEEDS_CONTEXT", "FAILED"}
  /\ "none" \notin Settled
BY DEF Settled, AnalysisStatus, InProgress

\* What an attempt of runAnalysisAgent may change.
LEMMA AttemptEffect ==
  ASSUME Shape, NEW w \in Workflow, NEW k \in Attempt, AttemptStep(w, k) \/ AttemptDies(w, k)
  PROVE  /\ step[<<w, k>>] \in Steps
         /\ step' = [step EXCEPT ![<<w, k>>] = step'[<<w, k>>]]
         /\ step'[<<w, k>>] # "none"
         /\ \/ status' = status
            \/ \E new \in Settled : status' = [status EXCEPT ![RowOf(w)] = new]
         /\ step'[<<w, k>>] \in {"drafting", "emitting", "returned"}
              => status'[RowOf(w)] \in Settled
         /\ At(w, k, "drafting")' => answer'[<<w, k>>] = "draft"
         /\ \A v \in Workflow, j \in Attempt :
              <<v, j>> # <<w, k>> => answer'[<<v, j>>] = answer[<<v, j>>]
         /\ UNCHANGED engineVars
<1> USE RowType, SettledIsNot
        DEF Shape, TypeOK, WrittenIsSettled, Attempt, At, Step, Steps, rowVars
<1>1. CASE AgentAnswers(w, k)
  BY <1>1 DEF AgentAnswers
<1>2. CASE ResultLoads(w, k)
  BY <1>2 DEF ResultLoads
<1>3. CASE ResultWrites(w, k)
  BY <1>3 DEF ResultWrites
<1>4. CASE DraftCreates(w, k)
  BY <1>4 DEF DraftCreates
<1>5. CASE EventEmits(w, k)
  BY <1>5 DEF EventEmits
<1>6. CASE StepFails(w, k)
  BY <1>6 DEF StepFails
<1>7. CASE FailureLoads(w, k)
  BY <1>7 DEF FailureLoads
<1>8. CASE FailureWrites(w, k)
  BY <1>8 DEF FailureWrites
<1>9. CASE FailureThrows(w, k)
  BY <1>9 DEF FailureThrows
<1>10. CASE AttemptDies(w, k)
  BY <1>10 DEF AttemptDies
<1> QED
  BY <1>1, <1>2, <1>3, <1>4, <1>5, <1>6, <1>7, <1>8, <1>9, <1>10 DEF AttemptStep

LEMMA ShapeAttempt ==
  ASSUME Shape, NEW w \in Workflow, NEW k \in Attempt, AttemptStep(w, k) \/ AttemptDies(w, k)
  PROVE  Shape'
<1>1. TypeOK'
  BY TypeAttempt DEF Shape
<1>2. ~Fresh(w) /\ k <= attempt[w]
  BY AttemptEffect DEF Shape, FreshIsUntouched, Begun, Steps
<1>3. \A v \in Workflow, b \in 1..FastAttempts :
        v # w => status'[<<v, b>>] = status[<<v, b>>]
  <2> SUFFICES ASSUME NEW v \in Workflow, NEW b \in 1..FastAttempts, v # w
               PROVE  status'[<<v, b>>] = status[<<v, b>>]
    OBVIOUS
  <2>1. <<v, b>> \in Analysis /\ <<v, b>> # RowOf(w)
    BY DEF Analysis, RowOf
  <2> QED
    BY <2>1, AttemptEffect DEF Shape, TypeOK
<1>4. \A v \in Workflow, j \in Attempt :
        <<v, j>> # <<w, k>> => step'[<<v, j>>] = step[<<v, j>>]
  BY AttemptEffect DEF Shape, TypeOK, Attempt
<1>5. \A v \in Workflow : status[RowOf(v)] \in Settled => status'[RowOf(v)] \in Settled
  BY AttemptEffect, RowType DEF Shape, TypeOK
<1>6. UNCHANGED engineVars
  BY AttemptEffect
<1>7. \A v \in Workflow : RowOf(v)' = RowOf(v) /\ Fresh(v)' = Fresh(v)
  BY <1>6 DEF RowOf, Fresh, engineVars
<1>8. FreshIsUntouched'
  <2> SUFFICES ASSUME NEW v \in Workflow, Fresh(v)
               PROVE  /\ \A j \in Attempt : step'[<<v, j>>] = "none"
                      /\ \A b \in 1..FastAttempts : status'[<<v, b>>] \notin Settled
    BY <1>7 DEF FreshIsUntouched
  <2>1. v # w
    BY <1>2
  <2> QED
    BY <2>1, <1>3, <1>4 DEF Shape, FreshIsUntouched
<1>9. Begun'
  BY <1>2, <1>4, <1>6 DEF Shape, Begun, engineVars
<1>10. WrittenIsSettled'
  <2> SUFFICES ASSUME NEW v \in Workflow, NEW j \in Attempt,
                      step'[<<v, j>>] \in {"drafting", "emitting", "returned"}
               PROVE  status'[RowOf(v)] \in Settled
    BY <1>7 DEF WrittenIsSettled
  <2>1. CASE <<v, j>> = <<w, k>>
    BY <2>1, AttemptEffect
  <2>2. CASE <<v, j>> # <<w, k>>
    BY <2>2, <1>4, <1>5 DEF Shape, WrittenIsSettled
  <2> QED
    BY <2>1, <2>2
<1>11. DraftingHasDraft'
  <2> SUFFICES ASSUME NEW v \in Workflow, NEW j \in Attempt, At(v, j, "drafting")'
               PROVE  answer'[<<v, j>>] = "draft"
    BY DEF DraftingHasDraft
  <2>1. CASE <<v, j>> = <<w, k>>
    BY <2>1, AttemptEffect DEF At
  <2>2. CASE <<v, j>> # <<w, k>>
    <3>1. \A i \in Workflow, l \in Attempt :
            <<i, l>> # <<w, k>> => answer'[<<i, l>>] = answer[<<i, l>>]
      BY AttemptEffect
    <3>2. At(v, j, "drafting")
      BY <2>2, <1>4 DEF At
    <3> QED
      BY <2>2, <3>1, <3>2 DEF Shape, DraftingHasDraft
  <2> QED
    BY <2>1, <2>2
<1> QED
  BY <1>1, <1>8, <1>9, <1>10, <1>11 DEF Shape

\* What a step of the engine may change.
LEMMA EngineEffect ==
  ASSUME Shape, NEW w \in Workflow, EngineStep(w)
  PROVE  /\ \A v \in Workflow \ {w} :
              pc'[v] = pc[v] /\ attempt'[v] = attempt[v] /\ made'[v] = made[v]
         /\ Fresh(w)' => Fresh(w)
         /\ Fresh(w) \/ UNCHANGED <<made, status>>
         /\ \/ UNCHANGED status
            \/ \E b \in 1..FastAttempts, new \in InProgress :
                 status' = [status EXCEPT ![<<w, b>>] = new]
         /\ \/ UNCHANGED step
            \/ Fresh(w) /\ ~Fresh(w)' /\ attempt'[w] = 1
                 /\ step' = [step EXCEPT ![<<w, 1>>] = "calling"]
            \/ attempt'[w] = attempt[w] + 1 /\ attempt[w] + 1 \in Attempt
                 /\ ~Fresh(w) /\ ~Fresh(w)'
                 /\ step' = [step EXCEPT ![<<w, attempt[w] + 1>>] = "calling"]
         /\ Fresh(w) \/ attempt'[w] = attempt[w] \/ attempt'[w] = attempt[w] + 1
         /\ UNCHANGED <<drafts, announced, asking, answer>>
<1> USE DEF Shape, TypeOK, Fresh, rowVars, attemptVars, InProgress
<1>0. ASSUME CreatesRow(w)
      PROVE  \E b \in 1..FastAttempts, new \in InProgress :
               status' = [status EXCEPT ![<<w, b>>] = new]
  <2>1. attempt[w] \in 1..FastAttempts
    BY <1>0, AttemptsAssumption DEF CreatesRow, MaxOf, Closed
  <2> QED
    BY <1>0, <2>1 DEF CreatesRow
<1>1. CASE BuildReturns(w)
  BY <1>0, <1>1 DEF BuildReturns, CreatesRow, Goes
<1>2. CASE BuildLost(w)
  BY <1>0, <1>2 DEF BuildLost, CreatesRow, Retries
<1>3. CASE MarkReturns(w)
  BY <1>3 DEF MarkReturns, MarksRow, Goes, RowOf
<1>4. CASE MarkLost(w)
  BY <1>4 DEF MarkLost, MarksRow, Retries, RowOf
<1>5. CASE FastFails(w)
  BY <1>5 DEF FastFails, Retries
<1>6. CASE AgentReturns(w)
  BY <1>6 DEF AgentReturns
<1>7. CASE AgentRetried(w)
  BY <1>7, AttemptsAssumption DEF AgentRetried, Retries, Step, MaxOf, Attempt
<1> QED
  BY <1>1, <1>2, <1>3, <1>4, <1>5, <1>6, <1>7 DEF EngineStep

LEMMA ExceptPair ==
  ASSUME NEW V, NEW N, NEW R, NEW f \in [V \X N -> R],
         NEW v \in V, NEW j \in N, NEW w, NEW n, NEW e
  PROVE  [f EXCEPT ![<<w, n>>] = e][<<v, j>>] =
           IF v = w /\ j = n THEN e ELSE f[<<v, j>>]
OBVIOUS

\* The same, row by row and attempt by attempt.
LEMMA EngineSteps ==
  ASSUME Shape, NEW w \in Workflow, EngineStep(w), NEW v \in Workflow, NEW j \in Attempt
  PROVE  \/ step'[<<v, j>>] = step[<<v, j>>]
         \/ v = w /\ j = attempt'[w] /\ ~Fresh(w)' /\ step'[<<v, j>>] = "calling"
<1> DEFINE t == <<v, j>>
<1>1. t \in Workflow \X (1..AgentAttempts)
  BY DEF Attempt
<1>2. CASE UNCHANGED step
  BY <1>2
<1>3. ASSUME NEW n, n = attempt'[w], step' = [step EXCEPT ![<<w, n>>] = "calling"], ~Fresh(w)'
      PROVE  step'[t] = step[t] \/ (v = w /\ j = n /\ step'[t] = "calling")
  <2>1. step \in [Workflow \X (1..AgentAttempts) -> Steps \cup Ends]
    BY DEF Shape, TypeOK
  <2> QED
    BY <1>3, <2>1, ExceptPair DEF Attempt
<1> QED
  BY <1>2, <1>3, EngineEffect

LEMMA EngineRows ==
  ASSUME Shape, NEW w \in Workflow, EngineStep(w),
         NEW v \in Workflow, NEW b \in 1..FastAttempts
  PROVE  \/ status'[<<v, b>>] = status[<<v, b>>]
         \/ v = w /\ Fresh(w) /\ status'[<<v, b>>] \in InProgress
<1> DEFINE a == <<v, b>>
<1>1. a \in Analysis
  BY DEF Analysis
<1>2. ASSUME NEW c \in 1..FastAttempts, NEW new \in InProgress,
             status' = [status EXCEPT ![<<w, c>>] = new]
      PROVE  status'[a] = status[a] \/ (v = w /\ status'[a] = new)
  <2>1. status \in [Analysis -> AnalysisStatus \cup {"none"}]
    BY DEF Shape, TypeOK
  <2> QED
    BY <1>2, <2>1, ExceptPair DEF Analysis
<1>3. CASE UNCHANGED status
  BY <1>3
<1>4. CASE Fresh(w) /\ \E c \in 1..FastAttempts, new \in InProgress :
             status' = [status EXCEPT ![<<w, c>>] = new]
  BY <1>2, <1>4
<1> QED
  BY <1>3, <1>4, EngineEffect

LEMMA ShapeEngine ==
  ASSUME Shape, NEW w \in Workflow, EngineStep(w)
  PROVE  Shape'
<1>1. TypeOK'
  BY TypeEngine DEF Shape
<1>2. \A v \in Workflow \ {w}, j \in Attempt : step'[<<v, j>>] = step[<<v, j>>]
  BY EngineSteps
<1>3. \A v \in Workflow, j \in Attempt :
        step'[<<v, j>>] = step[<<v, j>>] \/ step'[<<v, j>>] = "calling"
  BY EngineSteps
<1>4. \A v \in Workflow \ {w} :
        /\ pc'[v] = pc[v] /\ attempt'[v] = attempt[v]
        /\ RowOf(v)' = RowOf(v) /\ Fresh(v)' = Fresh(v)
  BY EngineEffect DEF RowOf, Fresh
<1>5. \A v \in Workflow, b \in 1..FastAttempts :
        status'[<<v, b>>] \in Settled => status[<<v, b>>] = status'[<<v, b>>]
  BY EngineRows, SettledIsNot DEF InProgress
<1>6. FreshIsUntouched'
  <2> SUFFICES ASSUME NEW v \in Workflow, Fresh(v)'
               PROVE  /\ \A j \in Attempt : step'[<<v, j>>] = "none"
                      /\ \A b \in 1..FastAttempts : status'[<<v, b>>] \notin Settled
    BY DEF FreshIsUntouched
  <2>1. Fresh(v)
    BY <1>4, EngineEffect
  <2>2. \A b \in 1..FastAttempts : status'[<<v, b>>] \notin Settled
    BY <2>1, <1>5 DEF Shape, FreshIsUntouched
  <2>3. \A j \in Attempt : step'[<<v, j>>] = step[<<v, j>>]
    BY <1>2, EngineSteps
  <2> QED
    BY <2>1, <2>2, <2>3 DEF Shape, FreshIsUntouched
<1>7. Begun'
  <2> SUFFICES ASSUME NEW v \in Workflow, NEW j \in Attempt, step'[<<v, j>>] # "none"
               PROVE  j <= attempt'[v]
    BY DEF Begun
  <2>1. CASE v # w
    BY <2>1, <1>2, <1>4 DEF Shape, Begun
  <2>2. CASE v = w /\ step'[<<v, j>>] # step[<<v, j>>]
    BY <2>2, EngineSteps, <1>1 DEF TypeOK
  <2>3. CASE v = w /\ step'[<<v, j>>] = step[<<v, j>>]
    <3>1. ~Fresh(w) /\ j <= attempt[w] /\ attempt[w] \in Nat /\ j \in Nat
      BY <2>3 DEF Shape, Begun, FreshIsUntouched, TypeOK, Attempt
    <3>2. attempt'[w] = attempt[w] \/ attempt'[w] = attempt[w] + 1
      BY <3>1, EngineEffect
    <3> QED
      BY <2>3, <3>1, <3>2
  <2> QED
    BY <2>1, <2>2, <2>3
<1>8. WrittenIsSettled'
  <2> SUFFICES ASSUME NEW v \in Workflow, NEW j \in Attempt,
                      step'[<<v, j>>] \in {"drafting", "emitting", "returned"}
               PROVE  status'[RowOf(v)'] \in Settled
    BY DEF WrittenIsSettled
  <2>1. step[<<v, j>>] = step'[<<v, j>>]
    BY <1>3
  <2>2. status[RowOf(v)] \in Settled /\ ~Fresh(v)
    BY <2>1 DEF Shape, WrittenIsSettled, FreshIsUntouched
  <2>3. CASE v = w
    BY <2>2, <2>3, EngineEffect DEF RowOf
  <2>4. CASE v # w
    <3>1. made[v] \in 1..FastAttempts
      BY DEF Shape, TypeOK
    <3>2. status'[RowOf(v)] = status[RowOf(v)]
      BY <2>4, <3>1, EngineRows DEF RowOf
    <3> QED
      BY <2>2, <2>4, <3>2, <1>4
  <2> QED
    BY <2>3, <2>4
<1>9. DraftingHasDraft'
  BY <1>3, EngineEffect DEF Shape, DraftingHasDraft, At
<1> QED
  BY <1>1, <1>6, <1>7, <1>8, <1>9 DEF Shape

LEMMA ShapeTrigger ==
  ASSUME Shape,
         \/ \E o \in Operator : TriggerChecks(o) \/ TriggerDispatches(o) \/ TriggerFails(o)
         \/ DispatchAnalysis
  PROVE  Shape' /\ \A v \in Workflow : Fresh(v)' = Fresh(v)
<1>1. TypeOK' /\ UNCHANGED <<rowVars, attempt, made, attemptVars>>
  BY TypeTrigger DEF Shape
<1>2. \A v \in Workflow : Fresh(v)' = Fresh(v)
  BY TypeTrigger DEF Fresh, Shape, TypeOK
<1> QED
  BY <1>1, <1>2 DEF Shape, FreshIsUntouched, Begun, WrittenIsSettled, DraftingHasDraft,
                    At, RowOf, rowVars, attemptVars

LEMMA ShapeInit == ASSUME Init PROVE Shape
BY TypeInit, SettledIsNot
   DEF Init, Shape, FreshIsUntouched, Begun, WrittenIsSettled, DraftingHasDraft, At,
       Analysis, Attempt

LEMMA ShapeNext == ASSUME Shape, [Next]_vars PROVE Shape'
<1>1. CASE UNCHANGED vars
  BY <1>1 DEF vars, Shape, TypeOK, FreshIsUntouched, Begun, WrittenIsSettled,
              DraftingHasDraft, At, RowOf, Fresh
<1> QED
  BY <1>1, ShapeTrigger, ShapeEngine, ShapeAttempt DEF Next, Attempt

\* Rows, workflows, attempts and drafts keep their types for any number of workflows.
THEOREM TypeCorrectness == Spec => []TypeOK
<1>1. Shape => TypeOK
  BY DEF Shape
<1> QED
  BY <1>1, ShapeInit, ShapeNext, PTL DEF Spec

-------------------------------------------------------------------------------
(* Settled analyses *)

LEMMA SettledStep ==
  ASSUME Shape, [Next]_vars, NEW a \in Analysis, status[a] \in Settled
  PROVE  status'[a] \in Settled
<1>1. CASE UNCHANGED status
  BY <1>1
<1>2. ASSUME NEW w \in Workflow, EngineStep(w)
      PROVE  status'[a] \in Settled
  <2>1. PICK v \in Workflow, b \in 1..FastAttempts : a = <<v, b>>
    BY DEF Analysis
  <2>2. Fresh(v) => status[<<v, b>>] \notin Settled
    BY DEF Shape, FreshIsUntouched
  <2> QED
    BY <1>2, <2>1, <2>2, EngineRows
<1>3. ASSUME NEW w \in Workflow, NEW k \in Attempt, AttemptStep(w, k) \/ AttemptDies(w, k)
      PROVE  status'[a] \in Settled
  BY <1>3, AttemptEffect DEF Shape, TypeOK
<1>4. (\/ \E o \in Operator : TriggerChecks(o) \/ TriggerDispatches(o) \/ TriggerFails(o)
       \/ DispatchAnalysis) => UNCHANGED status
  BY TypeTrigger DEF Shape, rowVars
<1> QED
  BY <1>1, <1>2, <1>3, <1>4 DEF Next, vars, Attempt

\* No settled analysis is in progress again, for any number of workflows and
\* attempts that overlap.
THEOREM Settlement == Spec => SettledStaysSettled
<1>1. ASSUME Shape, [Next]_vars
      PROVE  [\A a \in Analysis : status[a] \in Settled => status'[a] \in Settled]_vars
  BY <1>1, SettledStep
<1> QED
  BY <1>1, ShapeInit, ShapeNext, PTL DEF Spec, SettledStaysSettled

LEMMA CompletedStep ==
  ASSUME Shape, CompletedIsSettled, [Next]_vars
  PROVE  CompletedIsSettled'
<1> SUFFICES ASSUME NEW w \in Workflow, pc'[w] = "completed"
             PROVE  status'[RowOf(w)'] \in Settled
  BY DEF CompletedIsSettled
<1>1. status[RowOf(w)] \in Settled /\ RowOf(w)' = RowOf(w)
  <2>1. CASE UNCHANGED <<pc, made>>
    BY <2>1 DEF CompletedIsSettled, RowOf
  <2>2. ASSUME NEW v \in Workflow, EngineStep(v)
        PROVE  status[RowOf(w)] \in Settled /\ RowOf(w)' = RowOf(w)
    <3>1. CASE v = w
      <4>1. AgentReturns(w)
        BY <2>2, <3>1 DEF EngineStep, BuildReturns, BuildLost, MarkReturns, MarkLost, FastFails,
               AgentRetried, Retries, Goes, CreatesRow, MarksRow, Shape, TypeOK
      <4>2. attempt[w] \in Attempt
        BY <4>1 DEF AgentReturns, Shape, TypeOK, MaxOf, Attempt, Closed
      <4> QED
        BY <4>1, <4>2 DEF AgentReturns, At, Shape, WrittenIsSettled, RowOf
    <3>2. CASE v # w
      BY <2>2, <3>2, EngineEffect DEF CompletedIsSettled, RowOf
    <3> QED
      BY <3>1, <3>2
  <2>3. ASSUME NEW v \in Workflow, NEW k \in Attempt, AttemptStep(v, k) \/ AttemptDies(v, k)
        PROVE  UNCHANGED <<pc, made>>
    BY <2>3, AttemptEffect DEF engineVars
  <2>4. ASSUME \/ \E o \in Operator : TriggerChecks(o) \/ TriggerDispatches(o) \/ TriggerFails(o)
               \/ DispatchAnalysis
        PROVE  status[RowOf(w)] \in Settled /\ RowOf(w)' = RowOf(w)
    BY <2>4, TypeTrigger DEF Shape, TypeOK, CompletedIsSettled, RowOf
  <2> QED
    BY <2>1, <2>2, <2>3, <2>4 DEF Next, vars, Attempt
<1> QED
  BY <1>1, SettledStep, RowType DEF Shape

\* A workflow that completes leaves no analysis in progress behind.
THEOREM Completion == Spec => []CompletedIsSettled
<1>1. Init => CompletedIsSettled
  BY DEF Init, CompletedIsSettled
<1> QED
  BY <1>1, CompletedStep, ShapeInit, ShapeNext, PTL DEF Spec

-------------------------------------------------------------------------------
(* An attempt that is alone *)

\* The sole attempt does not write a status again once its result is recorded.
SoleWriter ==
  \A w \in Workflow : attempt[w] = 1 /\ status[RowOf(w)] = "ANALYZED" =>
    step[<<w, 1>>] \notin {"writing", "overwriting"}

LEMMA OneIsAttempt == 1 \in Attempt
BY AttemptsAssumption DEF Attempt

LEMMA AnalyzedIsFinal ==
  /\ "ANALYZED" \in Settled
  /\ \A event \in {"contextReady", "analyzed", "needsContext", "failed"} :
       ~Allows("ANALYZED", event)
BY DEF Allows, AnalysisEdges, Settled, AnalysisStatus, InProgress

\* The attempt itself.
LEMMA SoleAttempt ==
  ASSUME Shape, SoleWriter, NEW w \in Workflow, AttemptStep(w, 1) \/ AttemptDies(w, 1),
         attempt[w] = 1
  PROVE  /\ status[RowOf(w)] = "ANALYZED" => status'[RowOf(w)] = "ANALYZED"
         /\ status'[RowOf(w)] = "ANALYZED" => step'[<<w, 1>>] \notin {"writing", "overwriting"}
<1> USE RowType, OneIsAttempt, AnalyzedIsFinal
        DEF Shape, TypeOK, SoleWriter, Attempt, At, Step, rowVars
<1>1. CASE AgentAnswers(w, 1)
  BY <1>1 DEF AgentAnswers
<1>2. CASE ResultLoads(w, 1)
  BY <1>2 DEF ResultLoads, Event
<1>3. CASE ResultWrites(w, 1)
  BY <1>3 DEF ResultWrites
<1>4. CASE DraftCreates(w, 1)
  BY <1>4 DEF DraftCreates
<1>5. CASE EventEmits(w, 1)
  BY <1>5 DEF EventEmits
<1>6. CASE StepFails(w, 1)
  BY <1>6 DEF StepFails
<1>7. CASE FailureLoads(w, 1)
  BY <1>7 DEF FailureLoads
<1>8. CASE FailureWrites(w, 1)
  BY <1>8 DEF FailureWrites
<1>9. CASE FailureThrows(w, 1)
  BY <1>9 DEF FailureThrows
<1>10. CASE AttemptDies(w, 1)
  BY <1>10 DEF AttemptDies
<1> QED
  BY <1>1, <1>2, <1>3, <1>4, <1>5, <1>6, <1>7, <1>8, <1>9, <1>10 DEF AttemptStep

LEMMA SoleStep ==
  ASSUME Shape, SoleWriter, [Next]_vars, NEW w \in Workflow
  PROVE  /\ attempt[w] = 1 /\ status[RowOf(w)] = "ANALYZED" => status'[RowOf(w)] = "ANALYZED"
         /\ attempt'[w] = 1 /\ status'[RowOf(w)'] = "ANALYZED" =>
              step'[<<w, 1>>] \notin {"writing", "overwriting"}
<1>0. made[w] \in 1..FastAttempts /\ RowOf(w) = <<w, made[w]>>
  BY DEF Shape, TypeOK, RowOf
<1>1. ASSUME UNCHANGED <<status, attempt, made, step>>
      PROVE  /\ attempt[w] = 1 /\ status[RowOf(w)] = "ANALYZED" => status'[RowOf(w)] = "ANALYZED"
             /\ attempt'[w] = 1 /\ status'[RowOf(w)'] = "ANALYZED" =>
                  step'[<<w, 1>>] \notin {"writing", "overwriting"}
  BY <1>1 DEF SoleWriter, RowOf
<1>2. ASSUME NEW v \in Workflow, EngineStep(v)
      PROVE  /\ attempt[w] = 1 /\ status[RowOf(w)] = "ANALYZED" => status'[RowOf(w)] = "ANALYZED"
             /\ attempt'[w] = 1 /\ status'[RowOf(w)'] = "ANALYZED" =>
                  step'[<<w, 1>>] \notin {"writing", "overwriting"}
  <2>1. status[RowOf(w)] = "ANALYZED" => ~Fresh(w)
    BY <1>0, AnalyzedIsFinal DEF Shape, FreshIsUntouched
  <2>2. status[RowOf(w)] = "ANALYZED" => status'[RowOf(w)] = "ANALYZED"
    BY <1>0, <1>2, <2>1, EngineRows
  <2>3. step'[<<w, 1>>] = step[<<w, 1>>] \/ step'[<<w, 1>>] = "calling"
    BY <1>2, EngineSteps, OneIsAttempt
  <2>4. CASE Fresh(w)
    BY <2>2, <2>3, <2>4, OneIsAttempt DEF Shape, FreshIsUntouched
  <2>5. CASE ~Fresh(w)
    <3>1. UNCHANGED <<attempt[w], made[w]>> \/ attempt'[w] = attempt[w] + 1
      BY <1>2, <2>5, EngineEffect
    <3>2. attempt[w] \in Nat \ {0}
      BY DEF Shape, TypeOK
    <3>3. made'[w] = made[w]
      BY <1>2, <2>5, EngineEffect
    <3>4. status'[RowOf(w)] = status[RowOf(w)]
      BY <1>0, <1>2, <2>5, EngineRows
    <3> QED
      BY <2>2, <2>3, <3>1, <3>2, <3>3, <3>4 DEF SoleWriter, RowOf
  <2> QED
    BY <2>2, <2>4, <2>5
<1>3. ASSUME NEW v \in Workflow, NEW k \in Attempt, AttemptStep(v, k) \/ AttemptDies(v, k)
      PROVE  /\ attempt[w] = 1 /\ status[RowOf(w)] = "ANALYZED" => status'[RowOf(w)] = "ANALYZED"
             /\ attempt'[w] = 1 /\ status'[RowOf(w)'] = "ANALYZED" =>
                  step'[<<w, 1>>] \notin {"writing", "overwriting"}
  <2>1. UNCHANGED <<attempt, made>> /\ RowOf(w)' = RowOf(w)
    BY <1>3, AttemptEffect DEF engineVars, RowOf
  <2>2. CASE v = w /\ attempt[w] = 1
    <3>0. step[<<w, k>>] # "none"
      BY <1>3, <2>2, AttemptEffect DEF Steps
    <3>1. k = 1
      BY <2>2, <3>0 DEF Shape, Begun, Attempt
    <3> QED
      BY <1>3, <2>1, <2>2, <3>1, SoleAttempt
  <2>3. CASE v # w
    <3>1. RowOf(v) # RowOf(w) /\ RowOf(w) \in Analysis
      BY <2>3, RowType DEF RowOf, Shape
    <3>2. status'[RowOf(w)] = status[RowOf(w)]
      BY <1>3, <3>1, AttemptEffect DEF Shape, TypeOK
    <3>3. step'[<<w, 1>>] = step[<<w, 1>>]
      <4>1. step' = [step EXCEPT ![<<v, k>>] = step'[<<v, k>>]]
        BY <1>3, AttemptEffect
      <4>2. step \in [Workflow \X (1..AgentAttempts) -> Steps \cup Ends]
        BY DEF Shape, TypeOK
      <4> QED
        BY <4>1, <4>2, <2>3, OneIsAttempt, ExceptPair DEF Attempt
    <3> QED
      BY <2>1, <3>2, <3>3 DEF SoleWriter
  <2>4. CASE attempt[w] # 1
    BY <2>1, <2>4
  <2> QED
    BY <2>2, <2>3, <2>4
<1>4. (\/ \E o \in Operator : TriggerChecks(o) \/ TriggerDispatches(o) \/ TriggerFails(o)
       \/ DispatchAnalysis) => UNCHANGED <<status, attempt, made, step>>
  BY TypeTrigger DEF Shape, rowVars, attemptVars
<1> QED
  BY <1>1, <1>2, <1>3, <1>4 DEF Next, vars, Attempt

\* Without a retry of runAnalysisAgent, the state machine does keep an ANALYZED
\* analysis, whatever else fails.
THEOREM AloneKeeps == Spec => AloneKeepsResult
<1>1. Init => SoleWriter
  BY OneIsAttempt DEF Init, SoleWriter, Attempt
<1>2. Shape /\ SoleWriter /\ [Next]_vars => SoleWriter'
  BY SoleStep DEF SoleWriter
<1>3. ASSUME Shape, SoleWriter, [Next]_vars
      PROVE  [\A w \in Workflow : attempt[w] = 1 /\ status[RowOf(w)] = "ANALYZED"
                => status'[RowOf(w)] = "ANALYZED"]_vars
  BY <1>3, SoleStep
<1> QED
  BY <1>1, <1>2, <1>3, ShapeInit, ShapeNext, PTL DEF Spec, AloneKeepsResult

-------------------------------------------------------------------------------
(* Counting drafts and announcements *)

\* Attempts that are past creating a draft, and those that will announce one.
Past(w) ==
  {k \in Attempt :
     step[<<w, k>>] \notin {"none", "calling", "answered", "writing", "drafting"}}
Announcing(w) == {k \in Attempt : At(w, k, "emitting") /\ answer[<<w, k>>] = "draft"}

NoDraftYet ==
  \A w \in Workflow, b \in 1..FastAttempts :
    Fresh(w) \/ b # made[w] => drafts[<<w, b>>] = 0 /\ announced[<<w, b>>] = 0
DraftCount == \A w \in Workflow : drafts[RowOf(w)] <= Cardinality(Past(w))
AnnounceCount ==
  \A w \in Workflow :
    announced[RowOf(w)] + Cardinality(Announcing(w)) <= drafts[RowOf(w)]

Counts == NoDraftYet /\ DraftCount /\ AnnounceCount

LEMMA FiniteAttempts ==
  ASSUME NEW S \in SUBSET Attempt
  PROVE  IsFiniteSet(S) /\ Cardinality(S) \in Nat
<1>1. IsFiniteSet(Attempt)
  BY FS_Interval, AttemptsAssumption DEF Attempt
<1> QED
  BY <1>1, FS_Subset, FS_CardinalityType

LEMMA Grows ==
  ASSUME NEW S \in SUBSET Attempt, NEW T \in SUBSET S
  PROVE  Cardinality(T) <= Cardinality(S)
BY FiniteAttempts, FS_Subset

\* The attempts of one analysis as one of them takes a step.
LEMMA CountEffect ==
  ASSUME Shape, NEW w \in Workflow, NEW k \in Attempt, AttemptStep(w, k) \/ AttemptDies(w, k)
  PROVE  /\ Past(w) \subseteq Past(w)'
         /\ \/ /\ UNCHANGED <<drafts, announced>>
               /\ Announcing(w)' \subseteq Announcing(w)
            \/ /\ drafts' = [drafts EXCEPT ![RowOf(w)] = @ + 1]
               /\ announced' = announced
               /\ status[RowOf(w)] \in Settled
               /\ k \notin Past(w) /\ k \in Past(w)'
               /\ Announcing(w)' \subseteq Announcing(w) \cup {k}
            \/ /\ announced' = [announced EXCEPT ![RowOf(w)] = @ + 1]
               /\ drafts' = drafts
               /\ k \in Announcing(w)
               /\ Announcing(w)' \subseteq Announcing(w) \ {k}
<1>1. \A j \in Attempt : j # k =>
        step'[<<w, j>>] = step[<<w, j>>] /\ answer'[<<w, j>>] = answer[<<w, j>>]
  <2>1. step' = [step EXCEPT ![<<w, k>>] = step'[<<w, k>>]]
    BY AttemptEffect
  <2>2. step \in [Workflow \X (1..AgentAttempts) -> Steps \cup Ends]
    BY DEF Shape, TypeOK
  <2>3. \A j \in Attempt : j # k => step'[<<w, j>>] = step[<<w, j>>]
    BY <2>1, <2>2, ExceptPair DEF Attempt
  <2>4. ASSUME NEW j \in Attempt, j # k
        PROVE  answer'[<<w, j>>] = answer[<<w, j>>]
    <3>1. <<w, j>> # <<w, k>>
      BY <2>4
    <3>2. \A v \in Workflow, i \in Attempt :
            <<v, i>> # <<w, k>> => answer'[<<v, i>>] = answer[<<v, i>>]
      BY AttemptEffect
    <3> QED
      BY <3>1, <3>2
  <2> QED
    BY <2>3, <2>4
<1>2. step' \in [Workflow \X (1..AgentAttempts) -> Steps \cup Ends] /\ k \in 1..AgentAttempts
  BY TypeAttempt DEF Shape, TypeOK, Attempt
<1> USE DEF At, Past, Announcing, Step
<1>4. step[<<w, k>>] \in Steps /\ step \in [Workflow \X (1..AgentAttempts) -> Steps \cup Ends]
  BY AttemptEffect DEF Shape, TypeOK
<1>5. CASE AgentAnswers(w, k)
  BY <1>1, <1>2, <1>4, <1>5 DEF AgentAnswers, rowVars
<1>6. CASE ResultLoads(w, k)
  BY <1>1, <1>2, <1>4, <1>6 DEF ResultLoads, rowVars
<1>7. CASE ResultWrites(w, k)
  BY <1>1, <1>2, <1>4, <1>7 DEF ResultWrites
<1>8. CASE DraftCreates(w, k)
  BY <1>1, <1>2, <1>4, <1>8 DEF DraftCreates, Shape, WrittenIsSettled
<1>9. CASE EventEmits(w, k)
  BY <1>1, <1>2, <1>4, <1>9 DEF EventEmits
<1>10. CASE StepFails(w, k)
  BY <1>1, <1>2, <1>4, <1>10 DEF StepFails, rowVars
<1>11. CASE FailureLoads(w, k)
  BY <1>1, <1>2, <1>4, <1>11 DEF FailureLoads, rowVars
<1>12. CASE FailureWrites(w, k)
  BY <1>1, <1>2, <1>4, <1>12 DEF FailureWrites
<1>13. CASE FailureThrows(w, k)
  BY <1>1, <1>2, <1>4, <1>13 DEF FailureThrows, rowVars
<1>14. CASE AttemptDies(w, k)
  BY <1>1, <1>2, <1>4, <1>14 DEF AttemptDies, rowVars
<1> QED
  BY <1>5, <1>6, <1>7, <1>8, <1>9, <1>10, <1>11, <1>12, <1>13, <1>14 DEF AttemptStep

LEMMA CountsAttempt ==
  ASSUME Shape, Counts, NEW w \in Workflow, NEW k \in Attempt,
         AttemptStep(w, k) \/ AttemptDies(w, k)
  PROVE  Counts'
<1>1. UNCHANGED engineVars /\ \A v \in Workflow : RowOf(v)' = RowOf(v) /\ Fresh(v)' = Fresh(v)
  BY AttemptEffect DEF engineVars, RowOf, Fresh
<1>2. ~Fresh(w)
  BY AttemptEffect DEF Shape, FreshIsUntouched, Steps
<1>3. /\ drafts \in [Analysis -> Nat] /\ announced \in [Analysis -> Nat]
      /\ \A v \in Workflow : RowOf(v) \in Analysis
  BY RowType DEF Shape, TypeOK
<1>4. /\ \A a \in Analysis : a # RowOf(w) =>
           drafts'[a] = drafts[a] /\ announced'[a] = announced[a]
  BY <1>3, CountEffect
<1>5. \A v \in Workflow : v # w =>
        RowOf(v) # RowOf(w) /\ Past(v)' = Past(v) /\ Announcing(v)' = Announcing(v)
  <2> SUFFICES ASSUME NEW v \in Workflow, v # w
               PROVE  RowOf(v) # RowOf(w) /\ Past(v)' = Past(v) /\ Announcing(v)' = Announcing(v)
    OBVIOUS
  <2>1. step' = [step EXCEPT ![<<w, k>>] = step'[<<w, k>>]]
    BY AttemptEffect
  <2>2. step \in [Workflow \X (1..AgentAttempts) -> Steps \cup Ends]
    BY DEF Shape, TypeOK
  <2>3. \A j \in Attempt : step'[<<v, j>>] = step[<<v, j>>]
    BY <2>1, <2>2, ExceptPair DEF Attempt
  <2>4. \A j \in Attempt : answer'[<<v, j>>] = answer[<<v, j>>]
    <3>1. \A j \in Attempt : <<v, j>> # <<w, k>>
      OBVIOUS
    <3>2. \A u \in Workflow, i \in Attempt :
            <<u, i>> # <<w, k>> => answer'[<<u, i>>] = answer[<<u, i>>]
      BY AttemptEffect
    <3> QED
      BY <3>1, <3>2
  <2> QED
    BY <2>3, <2>4 DEF RowOf, Past, Announcing, At
<1>6. NoDraftYet'
  <2> SUFFICES ASSUME NEW v \in Workflow, NEW b \in 1..FastAttempts, Fresh(v) \/ b # made[v]
               PROVE  drafts'[<<v, b>>] = 0 /\ announced'[<<v, b>>] = 0
    BY <1>1 DEF NoDraftYet, engineVars
  <2>1. <<v, b>> \in Analysis /\ <<v, b>> # RowOf(w)
    BY <1>2 DEF Analysis, RowOf
  <2> QED
    BY <2>1, <1>4 DEF Counts, NoDraftYet
<1>7. /\ drafts[RowOf(w)] <= Cardinality(Past(w))
      /\ announced[RowOf(w)] + Cardinality(Announcing(w)) <= drafts[RowOf(w)]
      /\ drafts[RowOf(w)] \in Nat /\ announced[RowOf(w)] \in Nat
  BY <1>3 DEF Counts, DraftCount, AnnounceCount
<1>8. /\ Past(w) \in SUBSET Attempt /\ Past(w)' \in SUBSET Attempt
      /\ Announcing(w) \in SUBSET Attempt /\ Announcing(w)' \in SUBSET Attempt
  BY DEF Past, Announcing
<1>9. /\ IsFiniteSet(Past(w)) /\ Cardinality(Past(w)) \in Nat /\ Cardinality(Past(w)') \in Nat
      /\ IsFiniteSet(Announcing(w)) /\ Cardinality(Announcing(w)) \in Nat
      /\ Cardinality(Announcing(w)') \in Nat
      /\ Cardinality(Past(w)) <= Cardinality(Past(w)')
  BY <1>8, FiniteAttempts, Grows, CountEffect
<1>10. /\ drafts'[RowOf(w)] <= Cardinality(Past(w)')
       /\ announced'[RowOf(w)] + Cardinality(Announcing(w)') <= drafts'[RowOf(w)]
  <2>1. CASE UNCHANGED <<drafts, announced>> /\ Announcing(w)' \subseteq Announcing(w)
    <3>1. Cardinality(Announcing(w)') <= Cardinality(Announcing(w))
      BY <2>1, <1>8, Grows
    <3> QED
      BY <2>1, <3>1, <1>7, <1>9
  <2>2. CASE /\ drafts' = [drafts EXCEPT ![RowOf(w)] = @ + 1]
             /\ announced' = announced
             /\ k \notin Past(w) /\ k \in Past(w)'
             /\ Announcing(w)' \subseteq Announcing(w) \cup {k}
    <3>1. Past(w) \cup {k} \in SUBSET Past(w)'
      BY <2>2, CountEffect
    <3>2. Cardinality(Past(w) \cup {k}) = Cardinality(Past(w)) + 1
      BY <2>2, <1>9, FS_AddElement
    <3>3. Cardinality(Past(w) \cup {k}) <= Cardinality(Past(w)')
      BY <3>1, <1>8, Grows
    <3>4. Announcing(w) \cup {k} \in SUBSET Attempt
      BY <1>8
    <3>5. /\ Cardinality(Announcing(w)') <= Cardinality(Announcing(w) \cup {k})
          /\ Cardinality(Announcing(w) \cup {k}) \in Nat
      BY <2>2, <3>4, Grows, FiniteAttempts
    <3>6. Cardinality(Announcing(w) \cup {k}) <= Cardinality(Announcing(w)) + 1
      <4>1. Cardinality(Announcing(w) \cup {k}) =
              IF k \in Announcing(w) THEN Cardinality(Announcing(w))
                                     ELSE Cardinality(Announcing(w)) + 1
        BY <1>9, FS_AddElement
      <4> QED
        BY <4>1, <1>9
    <3>7. drafts'[RowOf(w)] = drafts[RowOf(w)] + 1 /\ announced'[RowOf(w)] = announced[RowOf(w)]
      BY <2>2, <1>3
    <3> QED
      BY <3>2, <3>3, <3>5, <3>6, <3>7, <1>7, <1>9
  <2>3. CASE /\ announced' = [announced EXCEPT ![RowOf(w)] = @ + 1]
             /\ drafts' = drafts
             /\ k \in Announcing(w)
             /\ Announcing(w)' \subseteq Announcing(w) \ {k}
    <3>1. Cardinality(Announcing(w) \ {k}) = Cardinality(Announcing(w)) - 1
      BY <2>3, <1>9, FS_RemoveElement
    <3>2. Announcing(w) \ {k} \in SUBSET Attempt
      BY <1>8
    <3>3. Cardinality(Announcing(w)') <= Cardinality(Announcing(w) \ {k})
      BY <2>3, <3>2, Grows
    <3>4. announced'[RowOf(w)] = announced[RowOf(w)] + 1 /\ drafts'[RowOf(w)] = drafts[RowOf(w)]
      BY <2>3, <1>3
    <3> QED
      BY <3>1, <3>3, <3>4, <1>7, <1>9
  <2> QED
    BY <2>1, <2>2, <2>3, CountEffect
<1>11. DraftCount' /\ AnnounceCount'
  <2> SUFFICES ASSUME NEW v \in Workflow
               PROVE  /\ drafts'[RowOf(v)] <= Cardinality(Past(v)')
                      /\ announced'[RowOf(v)] + Cardinality(Announcing(v)') <= drafts'[RowOf(v)]
    BY <1>1 DEF DraftCount, AnnounceCount
  <2>1. CASE v = w
    BY <2>1, <1>10
  <2>2. CASE v # w
    BY <2>2, <1>3, <1>4, <1>5 DEF Counts, DraftCount, AnnounceCount
  <2> QED
    BY <2>1, <2>2
<1> QED
  BY <1>6, <1>11 DEF Counts

LEMMA CountsEngine ==
  ASSUME Shape, Counts, NEW w \in Workflow, EngineStep(w)
  PROVE  Counts'
<1>1. UNCHANGED <<drafts, announced, answer>>
  BY EngineEffect
<1>2. \A v \in Workflow, j \in Attempt :
        step'[<<v, j>>] = step[<<v, j>>] \/ step'[<<v, j>>] = "calling"
  BY EngineSteps
<1>3. \A v \in Workflow : Past(v)' = Past(v) /\ Announcing(v)' = Announcing(v)
  <2> SUFFICES ASSUME NEW v \in Workflow, NEW j \in Attempt
               PROVE  /\ j \in Past(v)' <=> j \in Past(v)
                      /\ j \in Announcing(v)' <=> j \in Announcing(v)
    BY DEF Past, Announcing
  <2>1. step'[<<v, j>>] = step[<<v, j>>] \/ step[<<v, j>>] = "none"
    <3>1. CASE v = w /\ j = attempt'[w] /\ step'[<<v, j>>] # step[<<v, j>>] /\ ~Fresh(w)
      <4>1. attempt'[w] = attempt[w] + 1
        <5>1. UNCHANGED step \/ attempt'[w] = attempt[w] + 1
          BY <3>1, EngineEffect
        <5> QED
          BY <3>1, <5>1
      <4> QED
        BY <3>1, <4>1 DEF Shape, Begun, TypeOK
    <3>2. CASE v = w /\ Fresh(w)
      BY <3>2 DEF Shape, FreshIsUntouched
    <3> QED
      BY <3>1, <3>2, EngineSteps
  <2> QED
    BY <1>1, <1>2, <2>1 DEF Past, Announcing, At
<1>4. \A v \in Workflow :
        \/ RowOf(v)' = RowOf(v)
        \/ v = w /\ Fresh(w)
  BY EngineEffect DEF RowOf
<1>5. \A v \in Workflow : Fresh(v)' => Fresh(v)
  BY EngineEffect DEF Fresh
<1>6. NoDraftYet'
  <2> SUFFICES ASSUME NEW v \in Workflow, NEW b \in 1..FastAttempts, Fresh(v)' \/ b # made'[v]
               PROVE  drafts[<<v, b>>] = 0 /\ announced[<<v, b>>] = 0
    BY <1>1 DEF NoDraftYet
  <2>1. Fresh(v) \/ b # made[v]
    BY <1>5, EngineEffect
  <2> QED
    BY <2>1 DEF Counts, NoDraftYet
<1>7. DraftCount' /\ AnnounceCount'
  <2> SUFFICES ASSUME NEW v \in Workflow
               PROVE  /\ drafts[RowOf(v)'] <= Cardinality(Past(v))
                      /\ announced[RowOf(v)'] + Cardinality(Announcing(v)) <= drafts[RowOf(v)']
    BY <1>1, <1>3 DEF DraftCount, AnnounceCount
  <2>1. CASE RowOf(v)' = RowOf(v)
    BY <2>1 DEF Counts, DraftCount, AnnounceCount
  <2>2. CASE v = w /\ Fresh(w)
    <3>1. made'[w] \in 1..FastAttempts
      BY ShapeEngine DEF Shape, TypeOK
    <3>2. drafts[RowOf(v)'] = 0 /\ announced[RowOf(v)'] = 0
      BY <2>2, <3>1 DEF Counts, NoDraftYet, RowOf
    <3>3. Past(v) = {} /\ Announcing(v) = {}
      BY <2>2 DEF Shape, FreshIsUntouched, Past, Announcing, At
    <3> QED
      BY <3>2, <3>3, FS_EmptySet
  <2> QED
    BY <2>1, <2>2, <1>4
<1> QED
  BY <1>6, <1>7 DEF Counts

LEMMA CountsInit == ASSUME Init PROVE Counts
<1>1. \A w \in Workflow : RowOf(w) \in Analysis /\ Past(w) = {} /\ Announcing(w) = {}
  BY RowType, TypeInit DEF Init, Past, Announcing, At, Attempt
<1>2. \A w \in Workflow :
        /\ drafts[RowOf(w)] = 0 /\ announced[RowOf(w)] = 0
        /\ Cardinality(Past(w)) = 0 /\ Cardinality(Announcing(w)) = 0
  BY <1>1, FS_EmptySet DEF Init
<1>3. NoDraftYet
  BY DEF Init, NoDraftYet, Analysis
<1> QED
  BY <1>2, <1>3 DEF Counts, DraftCount, AnnounceCount

LEMMA CountsNext == ASSUME Shape, Counts, [Next]_vars PROVE Counts'
<1>1. CASE UNCHANGED vars
  BY <1>1 DEF vars, Counts, NoDraftYet, DraftCount, AnnounceCount, Past, Announcing, At,
              RowOf, Fresh
<1>2. ASSUME \/ \E o \in Operator : TriggerChecks(o) \/ TriggerDispatches(o) \/ TriggerFails(o)
             \/ DispatchAnalysis
      PROVE  Counts'
  <2>1. UNCHANGED <<rowVars, made, attemptVars>> /\ \A v \in Workflow : Fresh(v)' = Fresh(v)
    BY <1>2, TypeTrigger, ShapeTrigger DEF Shape
  <2>2. \A v \in Workflow :
          RowOf(v)' = RowOf(v) /\ Past(v)' = Past(v) /\ Announcing(v)' = Announcing(v)
    BY <2>1 DEF RowOf, Past, Announcing, At, attemptVars
  <2> QED
    BY <2>1, <2>2 DEF Counts, NoDraftYet, DraftCount, AnnounceCount, rowVars
<1> QED
  BY <1>1, <1>2, CountsEngine, CountsAttempt DEF Next, Attempt

\* Overlapping attempts write at most one draft each, and only for the row
\* the workflow goes on with.
THEOREM BoundedDrafts == Spec => []DraftsBounded
<1>1. ASSUME Shape, Counts PROVE DraftsBounded
  <2> SUFFICES ASSUME NEW w \in Workflow, NEW b \in 1..FastAttempts
               PROVE  drafts[<<w, b>>] <= IF b = made[w] THEN attempt[w] ELSE 0
    BY DEF DraftsBounded
  <2>1. CASE b # made[w]
    BY <1>1, <2>1 DEF Counts, NoDraftYet
  <2>2. CASE b = made[w]
    <3>1. attempt[w] \in Nat /\ Past(w) \in SUBSET (1..attempt[w])
      BY <1>1 DEF Shape, TypeOK, Begun, Past, Attempt
    <3>2. Cardinality(1..attempt[w]) = attempt[w] /\ IsFiniteSet(1..attempt[w])
      BY <1>1, FS_Interval DEF Shape, TypeOK
    <3>3. Cardinality(Past(w)) <= attempt[w]
      BY <3>1, <3>2, FS_Subset
    <3>4. drafts[<<w, b>>] <= Cardinality(Past(w))
      BY <1>1, <2>2 DEF Counts, DraftCount, RowOf
    <3>5. drafts[<<w, b>>] \in Nat /\ Cardinality(Past(w)) \in Nat
      BY <1>1, FiniteAttempts DEF Shape, TypeOK, Analysis, Past
    <3> QED
      BY <2>2, <3>1, <3>3, <3>4, <3>5
  <2> QED
    BY <2>1, <2>2
<1> QED
  BY <1>1, ShapeInit, ShapeNext, CountsInit, CountsNext, PTL DEF Spec

\* No event announces a draft that does not exist.
THEOREM Announcements == Spec => []AnnouncedExists
<1>1. ASSUME Shape, Counts PROVE AnnouncedExists
  <2> SUFFICES ASSUME NEW w \in Workflow, NEW b \in 1..FastAttempts
               PROVE  announced[<<w, b>>] <= drafts[<<w, b>>]
    BY DEF AnnouncedExists, Analysis
  <2>1. CASE b # made[w]
    BY <1>1, <2>1 DEF Counts, NoDraftYet
  <2>2. CASE b = made[w]
    <3>1. announced[<<w, b>>] + Cardinality(Announcing(w)) <= drafts[<<w, b>>]
      BY <1>1, <2>2 DEF Counts, AnnounceCount, RowOf
    <3>2. /\ drafts[<<w, b>>] \in Nat /\ announced[<<w, b>>] \in Nat
          /\ Cardinality(Announcing(w)) \in Nat
      BY <1>1, FiniteAttempts DEF Shape, TypeOK, Analysis, Announcing
    <3> QED
      BY <3>1, <3>2
  <2> QED
    BY <2>1, <2>2
<1> QED
  BY <1>1, ShapeInit, ShapeNext, CountsInit, CountsNext, PTL DEF Spec

LEMMA ResultStep ==
  ASSUME Shape, Counts, DraftFollowsResult, [Next]_vars
  PROVE  DraftFollowsResult'
<1> SUFFICES ASSUME NEW a \in Analysis, drafts'[a] > 0 PROVE status'[a] \in Settled
  BY DEF DraftFollowsResult
<1>1. status[a] \in Settled
  <2>1. CASE drafts'[a] = drafts[a]
    BY <2>1 DEF DraftFollowsResult
  <2>2. ASSUME NEW w \in Workflow, NEW k \in Attempt, AttemptStep(w, k) \/ AttemptDies(w, k)
        PROVE  drafts'[a] = drafts[a] \/ status[a] \in Settled
    <3>1. drafts \in [Analysis -> Nat]
      BY DEF Shape, TypeOK
    <3>2. \/ drafts' = drafts
          \/ drafts' = [drafts EXCEPT ![RowOf(w)] = @ + 1] /\ status[RowOf(w)] \in Settled
      BY <2>2, CountEffect
    <3> QED
      BY <3>1, <3>2
  <2>3. ASSUME NEW w \in Workflow, EngineStep(w)
        PROVE  drafts'[a] = drafts[a]
    BY <2>3, EngineEffect
  <2>4. (\/ \E o \in Operator : TriggerChecks(o) \/ TriggerDispatches(o) \/ TriggerFails(o)
         \/ DispatchAnalysis) => drafts' = drafts
    BY TypeTrigger DEF Shape, rowVars
  <2> QED
    BY <2>1, <2>2, <2>3, <2>4 DEF Next, vars, Attempt
<1> QED
  BY <1>1, SettledStep

\* A draft is for review only when its analysis is settled.
THEOREM DraftsFollow == Spec => []DraftFollowsResult
<1>1. ASSUME Init PROVE DraftFollowsResult
  BY <1>1 DEF Init, DraftFollowsResult
<1> QED
  BY <1>1, ResultStep, ShapeInit, ShapeNext, CountsInit, CountsNext, PTL DEF Spec

-------------------------------------------------------------------------------
(* Nothing goes on for ever: the attempts a workflow has left, and what an   *)
(* attempt of runAnalysisAgent has left to do.                               *)

\* Attempts of activities after this one.
Later == [buildThreadSnapshot |-> FastAttempts + AgentAttempts, markAnalyzing |-> AgentAttempts, runAnalysisAgent |-> 0]

\* The attempts a workflow can still be given, the one it waits for included.
Tries(w) ==
  IF pc[w] = "none" THEN 2 * FastAttempts + AgentAttempts + 1
  ELSE IF pc[w] \in Closed THEN 0
  ELSE Later[pc[w]] + MaxOf(pc[w]) + 1 - attempt[w]

\* What an attempt of runAnalysisAgent can still do.
Ahead == [none |-> 8, calling |-> 7, answered |-> 6, writing |-> 5, drafting |-> 4, emitting |-> 3,
          failing |-> 2, overwriting |-> 1, returned |-> 0, thrown |-> 0, dead |-> 0]

Todo(w, k) == Ahead[step[<<w, k>>]]

\* Each step of the engine takes one of the workflow's attempts, and no step gives one back.
TriesAreUsedUp ==
  [][\A w \in Workflow : Tries(w)' <= Tries(w) /\ (EngineStep(w) => Tries(w)' < Tries(w))]_vars

\* An attempt, abandoned or not, only goes forward, and none is begun twice.
AttemptsGoOn ==
  [][\A w \in Workflow, k \in 1..AgentAttempts :
       /\ Todo(w, k)' <= Todo(w, k)
       /\ AttemptStep(w, k) \/ AttemptDies(w, k) => Todo(w, k)' < Todo(w, k)]_vars

\* The retry policies bound them.
TriesAreBounded == \A w \in Workflow : Tries(w) \in 0 .. (AgentAttempts + 2 * FastAttempts + 1)

LEMMA TriesBounded == TypeOK => TriesAreBounded
<1>. SUFFICES ASSUME TypeOK, NEW w \in Workflow
              PROVE  Tries(w) \in 0 .. (AgentAttempts + 2 * FastAttempts + 1)
  BY DEF TriesAreBounded
<1>1. AgentAttempts \in Nat /\ FastAttempts \in Nat
  BY AttemptsAssumption
<1>2. attempt[w] \in Nat \ {0} /\ (pc[w] \notin Closed => attempt[w] <= MaxOf(pc[w]))
  BY DEF TypeOK
<1>3. pc[w] \in Activities \cup Closed \cup {"none"}
  BY DEF TypeOK
<1>4. ASSUME pc[w] \in Activities
      PROVE  Tries(w) = Later[pc[w]] + MaxOf(pc[w]) + 1 - attempt[w]
  BY <1>4 DEF Tries, Activities, Closed
<1>. QED BY <1>1, <1>2, <1>3, <1>4 DEF Tries, Later, MaxOf, Activities, Closed

LEMMA RetriesTake ==
  ASSUME TypeOK, NEW w \in Workflow, pc[w] \in Activities, Retries(w)
  PROVE  Tries(w)' < Tries(w)
<1>1. AgentAttempts \in Nat \ {0} /\ FastAttempts \in Nat \ {0} /\ MaxOf(pc[w]) \in Nat /\ Later[pc[w]] \in Nat
  BY AttemptsAssumption DEF MaxOf, Later, Activities
<1>2. attempt[w] \in Nat \ {0} /\ attempt[w] <= MaxOf(pc[w]) /\ pc[w] \notin Closed \cup {"none"}
  BY DEF TypeOK, Activities, Closed
<1>3. CASE attempt[w] < MaxOf(pc[w])
  <2>1. pc'[w] = pc[w] /\ attempt'[w] = attempt[w] + 1
    BY <1>3 DEF Retries, TypeOK
  <2>. QED BY <1>1, <1>2, <2>1 DEF Tries
<1>4. CASE ~(attempt[w] < MaxOf(pc[w]))
  <2>1. pc'[w] = "failed"
    BY <1>4 DEF Retries, TypeOK
  <2>. QED BY <1>1, <1>2, <2>1 DEF Tries, Closed
<1>. QED BY <1>3, <1>4

LEMMA EngineTakes ==
  ASSUME TypeOK, NEW w \in Workflow, EngineStep(w)
  PROVE  Tries(w)' < Tries(w)
<1>1. AgentAttempts \in Nat \ {0} /\ FastAttempts \in Nat \ {0}
  BY AttemptsAssumption
<1>2. attempt[w] \in Nat \ {0} /\ (pc[w] \notin Closed => attempt[w] <= MaxOf(pc[w]))
  BY DEF TypeOK
<1>3. CASE BuildReturns(w)
  <2>1. pc[w] = "buildThreadSnapshot" /\ pc'[w] = "markAnalyzing" /\ attempt'[w] = 1
    BY <1>3 DEF BuildReturns, CreatesRow, Goes, TypeOK
  <2>. QED BY <1>1, <1>2, <2>1 DEF Tries, Later, MaxOf, Closed
<1>4. CASE MarkReturns(w)
  <2>1. pc[w] = "markAnalyzing" /\ pc'[w] = "runAnalysisAgent" /\ attempt'[w] = 1
    BY <1>4 DEF MarkReturns, MarksRow, Goes, TypeOK
  <2>. QED BY <1>1, <1>2, <2>1 DEF Tries, Later, MaxOf, Closed
<1>5. CASE AgentReturns(w)
  <2>1. pc[w] = "runAnalysisAgent" /\ pc'[w] = "completed"
    BY <1>5 DEF AgentReturns, TypeOK
  <2>. QED BY <1>1, <1>2, <2>1 DEF Tries, Later, MaxOf, Closed
<1>6. CASE BuildLost(w) \/ MarkLost(w) \/ FastFails(w) \/ AgentRetried(w)
  BY <1>6, RetriesTake DEF BuildLost, MarkLost, FastFails, AgentRetried, CreatesRow, MarksRow, Activities
<1>. QED BY <1>3, <1>4, <1>5, <1>6 DEF EngineStep

\* Starting a workflow leaves it with less than it had before.
LEMMA StartTakes ==
  ASSUME TypeOK, NEW w \in Workflow, NEW v \in Workflow, pc[w] = "none",
         pc' = [pc EXCEPT ![w] = "buildThreadSnapshot"], attempt' = attempt
  PROVE  Tries(v)' <= Tries(v)
<1>1. Tries(v) \in Int
  BY TriesBounded, AttemptsAssumption DEF TriesAreBounded
<1>2. CASE v = w
  <2>1. pc'[v] = "buildThreadSnapshot" /\ attempt'[v] \in Nat \ {0}
    BY <1>2 DEF TypeOK
  <2>. QED BY <1>2, <2>1, AttemptsAssumption DEF Tries, Later, MaxOf, Closed
<1>3. CASE v # w
  <2>1. pc'[v] = pc[v] /\ attempt'[v] = attempt[v]
    BY <1>3 DEF TypeOK
  <2>. QED BY <1>1, <2>1 DEF Tries
<1>. QED BY <1>2, <1>3

LEMMA TriesStep ==
  ASSUME Shape, [Next]_vars, NEW v \in Workflow
  PROVE  Tries(v)' <= Tries(v)
<1>1. Tries(v) \in Int /\ TypeOK
  BY TriesBounded, AttemptsAssumption DEF TriesAreBounded, Shape
<1>2. ASSUME pc'[v] = pc[v], attempt'[v] = attempt[v] PROVE Tries(v)' <= Tries(v)
  BY <1>1, <1>2 DEF Tries
<1>3. CASE UNCHANGED vars
  BY <1>2, <1>3 DEF vars
<1>4. CASE \/ \E o \in Operator : TriggerChecks(o) \/ TriggerDispatches(o) \/ TriggerFails(o)
           \/ DispatchAnalysis
  BY <1>1, <1>2, <1>4, TypeTrigger, StartTakes
<1>5. ASSUME NEW w \in Workflow, EngineStep(w) PROVE Tries(v)' <= Tries(v)
  <2>1. CASE v = w
    <3>1. Tries(v)' < Tries(v) /\ TypeOK'
      BY <1>1, <1>5, <2>1, EngineTakes, TypeEngine
    <3>2. Tries(v)' \in Int
      BY <3>1, AttemptsAssumption DEF Tries, Later, MaxOf, TypeOK, Activities, Closed
    <3>. QED BY <1>1, <3>1, <3>2
  <2>2. CASE v # w
    BY <1>2, <1>5, <2>2, EngineEffect
  <2>. QED BY <2>1, <2>2
<1>6. ASSUME NEW w \in Workflow, NEW k \in 1..AgentAttempts, AttemptStep(w, k) \/ AttemptDies(w, k)
      PROVE  Tries(v)' <= Tries(v)
  BY <1>2, <1>6, AttemptEffect DEF Attempt, engineVars
<1>. QED BY <1>3, <1>4, <1>5, <1>6 DEF Next

-------------------------------------------------------------------------------

LEMMA AheadType == \A s \in Steps \cup Ends : Ahead[s] \in 0..8
BY DEF Ahead, Steps, Ends

LEMMA AttemptGoesOn ==
  ASSUME Shape, NEW w \in Workflow, NEW k \in Attempt, AttemptStep(w, k) \/ AttemptDies(w, k)
  PROVE  Todo(w, k)' < Todo(w, k)
<1> USE DEF Attempt, Step, At, Todo, Ahead, Shape, TypeOK
<1>1. CASE AgentAnswers(w, k)
  BY <1>1 DEF AgentAnswers
<1>2. CASE ResultLoads(w, k)
  BY <1>2 DEF ResultLoads
<1>3. CASE ResultWrites(w, k)
  BY <1>3 DEF ResultWrites
<1>4. CASE DraftCreates(w, k)
  BY <1>4 DEF DraftCreates
<1>5. CASE EventEmits(w, k)
  BY <1>5 DEF EventEmits
<1>6. CASE StepFails(w, k)
  BY <1>6 DEF StepFails
<1>7. CASE FailureLoads(w, k)
  BY <1>7 DEF FailureLoads
<1>8. CASE FailureWrites(w, k)
  BY <1>8 DEF FailureWrites
<1>9. CASE FailureThrows(w, k)
  BY <1>9 DEF FailureThrows
<1>10. CASE AttemptDies(w, k)
  BY <1>10 DEF AttemptDies, Steps
<1> QED
  BY <1>1, <1>2, <1>3, <1>4, <1>5, <1>6, <1>7, <1>8, <1>9, <1>10 DEF AttemptStep

\* The engine begins an attempt that was not begun, and touches no other.
LEMMA TodoStep ==
  ASSUME Shape, [Next]_vars, NEW v \in Workflow, NEW j \in Attempt
  PROVE  Todo(v, j)' <= Todo(v, j)
<1>1. Todo(v, j) \in 0..8 /\ step[<<v, j>>] \in Steps \cup Ends
  BY AheadType DEF Todo, Shape, TypeOK, Attempt
<1>2. ASSUME step'[<<v, j>>] = step[<<v, j>>] PROVE Todo(v, j)' <= Todo(v, j)
  BY <1>1, <1>2 DEF Todo
<1>3. CASE UNCHANGED vars
  BY <1>2, <1>3 DEF vars
<1>4. CASE \/ \E o \in Operator : TriggerChecks(o) \/ TriggerDispatches(o) \/ TriggerFails(o)
           \/ DispatchAnalysis
  BY <1>2, <1>4, TypeTrigger DEF Shape, attemptVars
<1>5. ASSUME NEW w \in Workflow, EngineStep(w) PROVE Todo(v, j)' <= Todo(v, j)
  <2>1. ASSUME step'[<<v, j>>] # step[<<v, j>>] PROVE v = w /\ step[<<v, j>>] = "none" /\ step'[<<v, j>>] = "calling"
    <3>1. v = w /\ j = attempt'[w] /\ step'[<<v, j>>] = "calling"
      BY <1>5, <2>1, EngineSteps
    <3>2. CASE Fresh(w)
      BY <3>1, <3>2 DEF Shape, FreshIsUntouched
    <3>3. CASE ~Fresh(w)
      <4>1. j = attempt[w] + 1 \/ UNCHANGED step
        BY <1>5, <3>1, <3>3, EngineEffect
      <4>2. attempt[w] \in Nat
        BY DEF Shape, TypeOK
      <4>. QED BY <2>1, <3>1, <4>1, <4>2 DEF Shape, Begun, Attempt
    <3>. QED BY <3>1, <3>2, <3>3
  <2>. QED BY <1>1, <1>2, <2>1 DEF Todo, Ahead
<1>6. ASSUME NEW w \in Workflow, NEW k \in 1..AgentAttempts, AttemptStep(w, k) \/ AttemptDies(w, k)
      PROVE  Todo(v, j)' <= Todo(v, j)
  <2>1. CASE v = w /\ j = k
    <3>1. Todo(v, j)' < Todo(v, j) /\ Shape'
      BY <1>6, <2>1, AttemptGoesOn, ShapeAttempt DEF Attempt
    <3>2. Todo(v, j)' \in 0..8
      BY <3>1, AheadType DEF Todo, Shape, TypeOK, Attempt
    <3>. QED BY <1>1, <3>1, <3>2
  <2>2. CASE ~(v = w /\ j = k)
    <3>1. step' = [step EXCEPT ![<<w, k>>] = step'[<<w, k>>]] /\ <<v, j>> # <<w, k>>
      BY <1>6, <2>2, AttemptEffect DEF Attempt
    <3>2. step'[<<v, j>>] = step[<<v, j>>]
      BY <3>1 DEF Shape, TypeOK, Attempt
    <3>. QED BY <1>2, <3>2
  <2>. QED BY <2>1, <2>2
<1>. QED BY <1>3, <1>4, <1>5, <1>6 DEF Next

\* The attempts of a workflow run out: a step of the engine takes one of a number the retry policies bound,
\* and no trigger, other workflow or abandoned attempt gives one back.  Nor does an attempt of
\* runAnalysisAgent go round in its try and catch blocks.
THEOREM TriesRunOut == Spec => []TriesAreBounded /\ TriesAreUsedUp /\ AttemptsGoOn
<1>1. ASSUME Shape, [Next]_vars
      PROVE  /\ \A w \in Workflow : Tries(w)' <= Tries(w) /\ (EngineStep(w) => Tries(w)' < Tries(w))
             /\ \A w \in Workflow, k \in 1..AgentAttempts :
                  /\ Todo(w, k)' <= Todo(w, k)
                  /\ AttemptStep(w, k) \/ AttemptDies(w, k) => Todo(w, k)' < Todo(w, k)
  BY <1>1, TriesStep, EngineTakes, TodoStep, AttemptGoesOn DEF Shape, Attempt
<1>2. Shape => TriesAreBounded
  BY TriesBounded DEF Shape
<1>3. Shape /\ [Next]_vars
        => [\A w \in Workflow : Tries(w)' <= Tries(w) /\ (EngineStep(w) => Tries(w)' < Tries(w))]_vars
  BY <1>1
<1>4. Shape /\ [Next]_vars
        => [\A w \in Workflow, k \in 1..AgentAttempts :
              /\ Todo(w, k)' <= Todo(w, k)
              /\ AttemptStep(w, k) \/ AttemptDies(w, k) => Todo(w, k)' < Todo(w, k)]_vars
  BY <1>1
<1>. QED BY <1>2, <1>3, <1>4, ShapeInit, ShapeNext, PTL DEF Spec, TriesAreUsedUp, AttemptsGoOn
===============================================================================
