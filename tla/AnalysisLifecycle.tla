--------------------------- MODULE AnalysisLifecycle ---------------------------
(***************************************************************************)
(* The analyses of one conversation: trigger of support-analysis-service,  *)
(* dispatchAnalysis of the debounce workflow, and supportAnalysisWorkflow  *)
(* with its activities.                                                    *)
(*                                                                         *)
(* The interleaving unit is one database statement, one answer of the      *)
(* agent service or one call of the workflow engine.  runAnalysisAgent     *)
(* waits up to four minutes for the agent service and does not heartbeat   *)
(* while it waits, with a heartbeat timeout of 45 seconds: the engine may  *)
(* start the next attempt while the one before it is still running, so     *)
(* every attempt is a process.  The two activities before it run a few     *)
(* statements within thirty seconds; an attempt of theirs takes effect or  *)
(* fails, and its completion may be lost.                                  *)
(*                                                                         *)
(* Left out: the contents of snapshots and results, the evidence rows, and *)
(* retryCount, which nothing increments, so that neither the FSM's retry   *)
(* cap nor escalateToManualHandling is ever reached.                       *)
(***************************************************************************)
EXTENDS Naturals, FiniteSets

CONSTANTS
  Workflow,      \* executions of supportAnalysisWorkflow, each with an id of its own
  Operator,      \* trigger requests that may be in progress at a time
  FastAttempts,  \* maximumAttempts of buildThreadSnapshot and markAnalyzing
  AgentAttempts  \* maximumAttempts of runAnalysisAgent

ASSUME AttemptsAssumption == FastAttempts \in Nat \ {0} /\ AgentAttempts \in Nat \ {0}

VARIABLES
  status,     \* SupportAnalysis.status of each row, "none" before it exists
  drafts,     \* SupportDraft rows of each analysis
  announced,  \* ANALYSIS_COMPLETED events that name a draft of it
  asking,     \* requests that found no analysis in progress and have not dispatched
  pc,         \* the activity a workflow waits for, or how it ended
  attempt,    \* number of the running attempt of that activity
  made,       \* the attempt of buildThreadSnapshot the workflow learned the row of
  step,       \* progress of each attempt of runAnalysisAgent
  answer      \* what the agent service answered it

rowVars == <<status, drafts, announced>>
engineVars == <<pc, attempt, made>>
attemptVars == <<step, answer>>
vars == <<status, drafts, announced, asking, pc, attempt, made, step, answer>>

\* A row is named by the attempt of buildThreadSnapshot that created it.
Analysis == Workflow \X (1..FastAttempts)
RowOf(w) == <<w, made[w]>>

AnalysisStatus == { "GATHERING_CONTEXT", "ANALYZING", "ANALYZED", "NEEDS_CONTEXT", "FAILED" }
InProgress == { "GATHERING_CONTEXT", "ANALYZING" }
Settled == AnalysisStatus \ InProgress

AnalysisEdges ==
  { <<"GATHERING_CONTEXT", "contextReady", "ANALYZING">>,
    <<"GATHERING_CONTEXT", "failed", "FAILED">>,
    <<"ANALYZING", "analyzed", "ANALYZED">>,
    <<"ANALYZING", "needsContext", "NEEDS_CONTEXT">>,
    <<"ANALYZING", "failed", "FAILED">>,
    <<"NEEDS_CONTEXT", "retry", "GATHERING_CONTEXT">>,
    <<"FAILED", "retry", "GATHERING_CONTEXT">> }
Allows(from, event) == \E to \in AnalysisStatus : <<from, event, to>> \in AnalysisEdges

Activities == { "buildThreadSnapshot", "markAnalyzing", "runAnalysisAgent" }
Closed == { "completed", "failed" }
Steps == { "calling", "answered", "writing", "drafting", "emitting", "failing", "overwriting" }
Ends == { "none", "returned", "thrown", "dead" }
MaxOf(activity) == IF activity = "runAnalysisAgent" THEN AgentAttempts ELSE FastAttempts

TypeOK ==
  /\ status \in [Analysis -> AnalysisStatus \cup {"none"}]
  /\ drafts \in [Analysis -> Nat]
  /\ announced \in [Analysis -> Nat]
  /\ asking \subseteq Operator
  /\ pc \in [Workflow -> Activities \cup Closed \cup {"none"}]
  /\ attempt \in [Workflow -> Nat \ {0}]
  /\ \A w \in Workflow : pc[w] \notin Closed => attempt[w] <= MaxOf(pc[w])
  /\ made \in [Workflow -> 1..FastAttempts]
  /\ step \in [Workflow \X (1..AgentAttempts) -> Steps \cup Ends]
  /\ answer \in [Workflow \X (1..AgentAttempts) -> {"draft", "context"}]

Init ==
  /\ status = [a \in Analysis |-> "none"]
  /\ drafts = [a \in Analysis |-> 0]
  /\ announced = [a \in Analysis |-> 0]
  /\ asking = {}
  /\ pc = [w \in Workflow |-> "none"]
  /\ attempt = [w \in Workflow |-> 1]
  /\ made = [w \in Workflow |-> 1]
  /\ step = [t \in Workflow \X (1..AgentAttempts) |-> "none"]
  /\ answer = [t \in Workflow \X (1..AgentAttempts) |-> "context"]

(***************************************************************************)
(* The two triggers.  Only trigger looks for an analysis in progress, and  *)
(* it dispatches later; the workflow id holds the time, so every dispatch  *)
(* starts a workflow.                                                      *)
(***************************************************************************)

Starts(w) ==
  /\ pc[w] = "none"
  /\ pc' = [pc EXCEPT ![w] = "buildThreadSnapshot"]
  /\ UNCHANGED <<attempt, made>>

TriggerChecks(o) ==
  /\ o \notin asking
  /\ \A a \in Analysis : status[a] \notin InProgress
  /\ asking' = asking \cup {o}
  /\ UNCHANGED <<rowVars, engineVars, attemptVars>>

TriggerDispatches(o) ==
  /\ o \in asking
  /\ asking' = asking \ {o}
  /\ \E w \in Workflow : Starts(w)
  /\ UNCHANGED <<rowVars, attemptVars>>

\* The engine cannot be reached.
TriggerFails(o) ==
  /\ o \in asking
  /\ asking' = asking \ {o}
  /\ UNCHANGED <<rowVars, engineVars, attemptVars>>

\* An attempt of dispatchAnalysis whose completion is lost dispatches again.
DispatchAnalysis ==
  /\ \E w \in Workflow : Starts(w)
  /\ UNCHANGED <<rowVars, asking, attemptVars>>

(***************************************************************************)
(* buildThreadSnapshot and markAnalyzing.                                  *)
(***************************************************************************)

\* Mutant: no maximumAttempts.
Retries_Unlimited(w) ==
  /\ made' = made
  /\ attempt' = [attempt EXCEPT ![w] = IF @ < MaxOf(pc[w]) THEN @ + 1 ELSE 1]
  /\ pc' = pc

\* The engine retries the activity, or gives up, and with it the workflow.
Retries(w) ==
  /\ made' = made
  /\ IF attempt[w] < MaxOf(pc[w])
     THEN attempt' = [attempt EXCEPT ![w] = @ + 1] /\ pc' = pc
     ELSE pc' = [pc EXCEPT ![w] = "failed"] /\ attempt' = attempt

Goes(w, activity) ==
  /\ pc' = [pc EXCEPT ![w] = activity]
  /\ attempt' = [attempt EXCEPT ![w] = 1]

CreatesRow(w) ==
  /\ pc[w] = "buildThreadSnapshot"
  /\ status' = [status EXCEPT ![<<w, attempt[w]>>] = "GATHERING_CONTEXT"]
  /\ UNCHANGED <<drafts, announced, asking, attemptVars>>

BuildReturns(w) ==
  /\ CreatesRow(w)
  /\ Goes(w, "markAnalyzing")
  /\ made' = [made EXCEPT ![w] = attempt[w]]

\* The row is created and the completion lost: the retry creates another.
BuildLost(w) == CreatesRow(w) /\ Retries(w)

MarksRow(w) ==
  /\ pc[w] = "markAnalyzing"
  /\ Allows(status[RowOf(w)], "contextReady")
  /\ status' = [status EXCEPT ![RowOf(w)] = "ANALYZING"]
  /\ UNCHANGED <<drafts, announced, asking>>

MarkReturns(w) ==
  /\ MarksRow(w)
  /\ Goes(w, "runAnalysisAgent")
  /\ made' = made
  /\ step' = [step EXCEPT ![<<w, 1>>] = "calling"]
  /\ UNCHANGED answer

\* The retry finds the row ANALYZING, and contextReady is illegal there.
MarkLost(w) == MarksRow(w) /\ Retries(w) /\ UNCHANGED attemptVars

FastFails(w) ==
  /\ pc[w] \in {"buildThreadSnapshot", "markAnalyzing"}
  /\ Retries(w)
  /\ UNCHANGED <<rowVars, asking, attemptVars>>

(***************************************************************************)
(* An attempt of runAnalysisAgent.  Every exception inside its try block   *)
(* leads to handleAnalysisFailure, which may throw itself.                 *)
(***************************************************************************)

At(w, k, s) == step[<<w, k>>] = s
Step(w, k, s) == step' = [step EXCEPT ![<<w, k>>] = s]
Event(w, k) == IF answer[<<w, k>>] = "draft" THEN "analyzed" ELSE "needsContext"

AgentAnswers(w, k) ==
  /\ At(w, k, "calling") /\ Step(w, k, "answered")
  /\ \E outcome \in {"draft", "context"} : answer' = [answer EXCEPT ![<<w, k>>] = outcome]
  /\ UNCHANGED <<rowVars, asking, engineVars>>

\* Mutant: the draft is persisted before the result.
ResultLoads_DraftFirst(w, k) ==
  /\ At(w, k, "answered")
  /\ Step(w, k, IF ~Allows(status[RowOf(w)], Event(w, k)) THEN "failing"
                ELSE IF answer[<<w, k>>] = "draft" THEN "drafting" ELSE "writing")
  /\ UNCHANGED <<rowVars, asking, engineVars, answer>>

ResultLoads(w, k) ==
  /\ At(w, k, "answered")
  /\ Step(w, k, IF Allows(status[RowOf(w)], Event(w, k)) THEN "writing" ELSE "failing")
  /\ UNCHANGED <<rowVars, asking, engineVars, answer>>

\* The status computed from the row it loaded is written by id.
ResultWrites(w, k) ==
  /\ At(w, k, "writing")
  /\ IF answer[<<w, k>>] = "draft"
     THEN status' = [status EXCEPT ![RowOf(w)] = "ANALYZED"] /\ Step(w, k, "drafting")
     ELSE status' = [status EXCEPT ![RowOf(w)] = "NEEDS_CONTEXT"] /\ Step(w, k, "emitting")
  /\ UNCHANGED <<drafts, announced, asking, engineVars, answer>>

DraftCreates(w, k) ==
  /\ At(w, k, "drafting") /\ Step(w, k, "emitting")
  /\ drafts' = [drafts EXCEPT ![RowOf(w)] = @ + 1]
  /\ UNCHANGED <<status, announced, asking, engineVars, answer>>

EventEmits(w, k) ==
  /\ At(w, k, "emitting") /\ Step(w, k, "returned")
  /\ announced' = IF answer[<<w, k>>] = "draft"
                  THEN [announced EXCEPT ![RowOf(w)] = @ + 1] ELSE announced
  /\ UNCHANGED <<status, drafts, asking, engineVars, answer>>

\* The agent service fails or runs out of time, or a statement fails.
StepFails(w, k) ==
  /\ step[<<w, k>>] \in {"calling", "answered", "writing", "drafting", "emitting"}
  /\ Step(w, k, "failing")
  /\ UNCHANGED <<rowVars, asking, engineVars, answer>>

\* Mutant: the failure is not routed through the state machine.
FailureLoads_Unguarded(w, k) ==
  /\ At(w, k, "failing") /\ Step(w, k, "overwriting")
  /\ UNCHANGED <<rowVars, asking, engineVars, answer>>

FailureLoads(w, k) ==
  /\ At(w, k, "failing")
  /\ Step(w, k, IF Allows(status[RowOf(w)], "failed") THEN "overwriting" ELSE "thrown")
  /\ UNCHANGED <<rowVars, asking, engineVars, answer>>

FailureWrites(w, k) ==
  /\ At(w, k, "overwriting") /\ Step(w, k, "returned")
  /\ status' = [status EXCEPT ![RowOf(w)] = "FAILED"]
  /\ UNCHANGED <<drafts, announced, asking, engineVars, answer>>

\* Mutant: handleAnalysisFailure swallows its own errors.
FailureThrows_Swallowed(w, k) ==
  /\ step[<<w, k>>] \in {"failing", "overwriting"}
  /\ Step(w, k, "returned")
  /\ UNCHANGED <<rowVars, asking, engineVars, answer>>

FailureThrows(w, k) ==
  /\ step[<<w, k>>] \in {"failing", "overwriting"}
  /\ Step(w, k, "thrown")
  /\ UNCHANGED <<rowVars, asking, engineVars, answer>>

\* The worker dies.
AttemptDies(w, k) ==
  /\ step[<<w, k>>] \in Steps
  /\ Step(w, k, "dead")
  /\ UNCHANGED <<rowVars, asking, engineVars, answer>>

AttemptStep(w, k) ==
  \/ AgentAnswers(w, k) \/ ResultLoads(w, k) \/ ResultWrites(w, k)
  \/ DraftCreates(w, k) \/ EventEmits(w, k) \/ StepFails(w, k)
  \/ FailureLoads(w, k) \/ FailureWrites(w, k) \/ FailureThrows(w, k)

(***************************************************************************)
(* The engine and the attempts of runAnalysisAgent.                        *)
(***************************************************************************)

AgentReturns(w) ==
  /\ pc[w] = "runAnalysisAgent" /\ At(w, attempt[w], "returned")
  /\ pc' = [pc EXCEPT ![w] = "completed"]
  /\ UNCHANGED <<rowVars, asking, attempt, made, attemptVars>>

\* The attempt threw, its worker died, its completion was lost, or it did not
\* heartbeat in time, in which case it goes on beside the next one.
AgentRetried(w) ==
  /\ pc[w] = "runAnalysisAgent"
  /\ Retries(w)
  /\ IF attempt[w] < AgentAttempts THEN Step(w, attempt[w] + 1, "calling") ELSE step' = step
  /\ UNCHANGED <<rowVars, asking, answer>>

EngineStep(w) ==
  \/ BuildReturns(w) \/ BuildLost(w) \/ MarkReturns(w) \/ MarkLost(w)
  \/ FastFails(w) \/ AgentReturns(w) \/ AgentRetried(w)

Next ==
  \/ \E o \in Operator : TriggerChecks(o) \/ TriggerDispatches(o) \/ TriggerFails(o)
  \/ DispatchAnalysis
  \/ \E w \in Workflow : EngineStep(w)
  \/ \E w \in Workflow, k \in 1..AgentAttempts : AttemptStep(w, k) \/ AttemptDies(w, k)

Spec == Init /\ [][Next]_vars

\* The engine runs a workflow until it ends, and retries or gives up activities.
FairSpec == Spec /\ \A w \in Workflow : WF_vars(EngineStep(w))

(***************************************************************************)
(* What the analyses of a conversation promise.                            *)
(***************************************************************************)

\* A draft is there for review only when its analysis is settled: nobody is
\* asked to approve a reply of an analysis that the inbox shows as running.
DraftFollowsResult == \A a \in Analysis : drafts[a] > 0 => status[a] \in Settled

\* The timeline announces no draft that does not exist, whichever attempt of
\* runAnalysisAgent wrote the one and emitted the other.
AnnouncedExists == \A a \in Analysis : announced[a] <= drafts[a]

\* However attempts overlap, an analysis gets at most one draft from each
\* attempt that was begun, and a row the workflow lost track of gets none.
DraftsBounded ==
  \A w \in Workflow, b \in 1..FastAttempts :
    drafts[<<w, b>>] <= IF b = made[w] THEN attempt[w] ELSE 0

\* A workflow that completes leaves its analysis settled, whatever attempts
\* that were given up still do: it blocks no trigger.
CompletedIsSettled ==
  \A w \in Workflow : pc[w] = "completed" => status[RowOf(w)] \in Settled

\* A settled analysis is never in progress again, although every write of a
\* status is by id and computed from an earlier read.
SettledStaysSettled ==
  [][\A a \in Analysis : status[a] \in Settled => status'[a] \in Settled]_vars

\* A workflow whose agent attempt was not retried keeps an ANALYZED result: the
\* state machine protects it as long as no second attempt runs beside the first.
AloneKeepsResult ==
  [][\A w \in Workflow : attempt[w] = 1 /\ status[RowOf(w)] = "ANALYZED"
       => status'[RowOf(w)] = "ANALYZED"]_vars

\* Every workflow that was started ends.
WorkflowEnds == \A w \in Workflow : pc[w] # "none" ~> pc[w] \in Closed

================================================================================
