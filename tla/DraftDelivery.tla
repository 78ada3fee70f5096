---------------------------- MODULE DraftDelivery ----------------------------
(***************************************************************************)
(* Approval and delivery of an AI-written support draft: approveDraft and  *)
(* dismissDraft of support-analysis-service.ts, the transactional outbox   *)
(* row they leave, sendDraftToSlackWorkflow with its activities, and the   *)
(* sweep that restarts what was never started.                             *)
(*                                                                         *)
(* The interleaving unit is one database transaction, one Slack request or *)
(* one call of the workflow engine.  An activity is therefore three steps, *)
(* separated by the places where its worker may die: it loads the rows, it *)
(* commits its effect, and the engine learns of its completion.            *)
(*                                                                         *)
(* Left out because no guard of the code reads it: attempt counters and    *)
(* error texts of the two rows, timestamps other than the order in which   *)
(* outbox rows were created, the edited body, and conversation events.     *)
(***************************************************************************)
EXTENDS Naturals, FiniteSets, DraftFsm

CONSTANTS Draft,               \* drafts already written by the analysis
          MaxAttempts,         \* retry.maximumAttempts of the proxied activities
          MaxReconcileRetries, \* MAX_RECONCILE_RETRIES of the workflow
          SweepBatch,          \* BATCH_SIZE of the sweep
          LongThread           \* drafts whose thread outgrew the page reconcile reads

ASSUME AttemptsAssumption == MaxAttempts \in Nat \ {0}
ASSUME RetriesAssumption == MaxReconcileRetries \in Nat
ASSUME BatchAssumption == SweepBatch \in Nat \ {0}
ASSUME LongThreadAssumption == LongThread \subseteq Draft

VARIABLES
  draft,      \* SupportDraft.status
  dispatch,   \* DraftDispatch.status, at most one row per draft
  older,      \* pairs of outbox rows in createdAt order
  starting,   \* an approve request committed and has not called the engine yet
  dismissing, \* a dismiss request read AWAITING_APPROVAL and has not written yet
  sweep,      \* outbox rows the running sweep activity still has to visit
  wf,         \* the activity send-draft-${draftId} waits for, or how it ended
  step,       \* progress of the running attempt of that activity
  next,       \* the status the running attempt computed from the row it loaded
  attempt,    \* number of the running attempt
  passes,     \* reconcileRetries of the workflow
  accepted,   \* post requests Slack accepted
  inflight    \* post requests abandoned by a timeout and still on the wire

requestVars == <<starting, dismissing>>
attemptVars == <<step, next, attempt>>
workflowVars == <<wf, passes, step, next, attempt>>
slackVars == <<accepted, inflight>>
rowVars == <<draft, dispatch, older>>
vars == <<draft, dispatch, older, starting, dismissing, sweep, wf, step, next,
          attempt, passes, accepted, inflight>>

Marks == { "markDraftSending", "markDraftSent", "markDraftDeliveryUnknown",
           "markDraftSentReconciled", "markDraftSendFailed" }
Activities == Marks \cup { "sendDraftActivity", "reconcileDraftActivity" }
Closed == { "completed", "failed" }

TypeOK ==
  /\ draft \in [Draft -> DraftStatus]
  /\ dispatch \in [Draft -> DispatchStatus]
  /\ older \subseteq Draft \X Draft
  /\ starting \in [Draft -> BOOLEAN]
  /\ dismissing \in [Draft -> BOOLEAN]
  /\ sweep \subseteq Draft
  /\ wf \in [Draft -> Activities \cup Closed \cup {"none"}]
  /\ step \in [Draft -> {"begin", "loaded", "committed"}]
  /\ next \in [Draft -> DraftStatus \cup {"none"}]
  /\ attempt \in [Draft -> 1..MaxAttempts]
  /\ passes \in [Draft -> 0..MaxReconcileRetries]
  /\ accepted \in [Draft -> Nat]
  /\ inflight \in [Draft -> Nat]

\* persistDraft writes a draft as AWAITING_APPROVAL.
Init ==
  /\ draft = [d \in Draft |-> "AWAITING_APPROVAL"]
  /\ dispatch = [d \in Draft |-> "NONE"]
  /\ older = {}
  /\ starting = [d \in Draft |-> FALSE]
  /\ dismissing = [d \in Draft |-> FALSE]
  /\ sweep = {}
  /\ wf = [d \in Draft |-> "none"]
  /\ step = [d \in Draft |-> "begin"]
  /\ next = [d \in Draft |-> "none"]
  /\ attempt = [d \in Draft |-> 1]
  /\ passes = [d \in Draft |-> 0]
  /\ accepted = [d \in Draft |-> 0]
  /\ inflight = [d \in Draft |-> 0]

-------------------------------------------------------------------------------
(* Operators' requests *)

\* The compare-and-swap of updateMany and the outbox row, one transaction.
ApproveDraft(d) ==
  /\ draft[d] = "AWAITING_APPROVAL"
  /\ draft' = [draft EXCEPT ![d] = "APPROVED"]
  /\ dispatch' = [dispatch EXCEPT ![d] = "PENDING"]
  /\ older' = older \cup { <<e, d>> : e \in {e \in Draft : dispatch[e] # "NONE"} }
  /\ starting' = [starting EXCEPT ![d] = TRUE]
  /\ UNCHANGED <<dismissing, sweep, workflowVars, slackVars>>

\* Starting send-draft-${draftId} under REJECT_DUPLICATE: a no-op once it ever ran.
StartWorkflow(d) ==
  /\ wf' = IF wf[d] = "none" THEN [wf EXCEPT ![d] = "markDraftSending"] ELSE wf
  /\ UNCHANGED <<attemptVars, passes>>

\* The request that approved also starts the workflow.
ApproveStarts(d) ==
  /\ starting[d]
  /\ StartWorkflow(d)
  /\ starting' = [starting EXCEPT ![d] = FALSE]
  /\ UNCHANGED <<rowVars, dismissing, sweep, slackVars>>

\* The engine is unreachable, or the web process dies before calling it.
ApproveStartFails(d) ==
  /\ starting[d]
  /\ starting' = [starting EXCEPT ![d] = FALSE]
  /\ UNCHANGED <<rowVars, dismissing, sweep, workflowVars, slackVars>>

\* dismissDraft reads the row and asks the state machine...
DismissLoads(d) ==
  /\ ~dismissing[d]
  /\ DraftAllows(draft[d], "dismiss")
  /\ dismissing' = [dismissing EXCEPT ![d] = TRUE]
  /\ UNCHANGED <<rowVars, starting, sweep, workflowVars, slackVars>>

\* ...and later updates it by id, whatever its status is by then.
DismissWrites(d) ==
  /\ dismissing[d]
  /\ draft' = [draft EXCEPT ![d] = "DISMISSED"]
  /\ dismissing' = [dismissing EXCEPT ![d] = FALSE]
  /\ UNCHANGED <<dispatch, older, starting, sweep, workflowVars, slackVars>>

-------------------------------------------------------------------------------
(* The sweep: every minute, the oldest PENDING rows *)

\* Mutant: the sweep looks for FAILED rows.
Pending_Failed == {d \in Draft : dispatch[d] = "FAILED"}

Pending == {d \in Draft : dispatch[d] = "PENDING"}

\* orderBy createdAt asc, take BATCH_SIZE
OldestBatch(batch) ==
  /\ \A d \in batch, e \in Pending \ batch : <<d, e>> \in older
  /\ \/ batch = Pending /\ Cardinality(batch) <= SweepBatch
     \/ Cardinality(batch) = SweepBatch

SweepScans ==
  /\ sweep = {}
  /\ Pending # {}
  /\ \E batch \in SUBSET Pending : OldestBatch(batch) /\ sweep' = batch
  /\ UNCHANGED <<rowVars, requestVars, workflowVars, slackVars>>

SweepStarts(d) ==
  /\ d \in sweep
  /\ StartWorkflow(d)
  /\ sweep' = sweep \ {d}
  /\ UNCHANGED <<rowVars, requestVars, slackVars>>

\* The start call throws: the error is recorded and the loop goes on.
SweepStartFails(d) ==
  /\ d \in sweep
  /\ sweep' = sweep \ {d}
  /\ UNCHANGED <<rowVars, requestVars, workflowVars, slackVars>>

-------------------------------------------------------------------------------
(* How the workflow goes on *)

\* Leaving an activity for activity or end state pc.
Goto(d, pc) ==
  /\ wf' = [wf EXCEPT ![d] = pc]
  /\ step' = [step EXCEPT ![d] = "begin"]
  /\ next' = [next EXCEPT ![d] = "none"]
  /\ attempt' = [attempt EXCEPT ![d] = 1]

\* The await that follows each activity when it returns.
AfterSuccess(pc) ==
  CASE pc = "markDraftSending"         -> "sendDraftActivity"
    [] pc = "sendDraftActivity"        -> "markDraftSent"
    [] pc = "markDraftDeliveryUnknown" -> "reconcileDraftActivity"
    [] OTHER                           -> "completed"

\* Only the two activities of the try block have a catch.
AfterFailure(pc) ==
  IF pc \in {"sendDraftActivity", "markDraftSent"}
  THEN "markDraftDeliveryUnknown"
  ELSE "failed"

\* An attempt ends without a result: the engine retries it, or gives up and
\* raises ActivityFailure in the workflow.
AttemptFails(d) ==
  IF attempt[d] < MaxAttempts
  THEN /\ attempt' = [attempt EXCEPT ![d] = @ + 1]
       /\ step' = [step EXCEPT ![d] = "begin"]
       /\ next' = [next EXCEPT ![d] = "none"]
       /\ UNCHANGED wf
  ELSE Goto(d, AfterFailure(wf[d]))

\* The worker dies, the database errs or the activity times out; a transient
\* answer of Slack that posted nothing ends an attempt the same way.  After the
\* commit this is a completion the engine never hears of.
AttemptLost(d) ==
  /\ wf[d] \in Activities
  /\ AttemptFails(d)
  /\ UNCHANGED <<rowVars, requestVars, sweep, passes, slackVars>>

ActivityReturns(d) ==
  /\ wf[d] \in Activities
  /\ step[d] = "committed"
  /\ Goto(d, AfterSuccess(wf[d]))
  /\ UNCHANGED <<rowVars, requestVars, sweep, passes, slackVars>>

-------------------------------------------------------------------------------
(* The activities that move the rows: load, transition, commit *)

\* The event each of them feeds to the draft machine.
DraftEvent(pc, status) ==
  CASE pc = "markDraftSending"         -> "startSending"
    [] pc = "markDraftDeliveryUnknown" -> "deliveryUnknown"
    [] pc = "markDraftSendFailed"      ->
         IF status = "DELIVERY_UNKNOWN" THEN "failed" ELSE "sendFailedPermanent"
    [] OTHER                           ->
         IF status = "DELIVERY_UNKNOWN" THEN "reconcileFound" ELSE "sendSucceeded"

\* Mutant: an ambiguous delivery closes the outbox row.
DispatchTarget_UnknownFails(pc, status) ==
  CASE pc \in {"markDraftSendFailed", "markDraftDeliveryUnknown"} -> "FAILED"
    [] pc \in {"markDraftSent", "markDraftSentReconciled"}        -> "DISPATCHED"
    [] OTHER                                                      -> status

\* What the activity does to the outbox row; markDraftSending and
\* markDraftDeliveryUnknown leave it alone.
DispatchTarget(pc, status) ==
  CASE pc = "markDraftSendFailed"                             -> "FAILED"
    [] pc \in {"markDraftSent", "markDraftSentReconciled"}    -> "DISPATCHED"
    [] OTHER                                                  -> status

\* transitionDraftDispatch, where the activity runs it
DispatchLegal(pc, status) ==
  CASE pc = "markDraftSendFailed" -> DispatchAllows(status, "dispatchFailed")
    [] pc \in {"markDraftSent", "markDraftSentReconciled"}
                                  -> DispatchAllows(status, "dispatched")
    [] OTHER                      -> TRUE

MarkLegal(d) ==
  /\ DraftAllows(draft[d], DraftEvent(wf[d], draft[d]))
  /\ DispatchLegal(wf[d], dispatch[d])

MarkLoads(d) ==
  /\ wf[d] \in Marks /\ step[d] = "begin"
  /\ MarkLegal(d)
  /\ \E to \in DraftStatus :
       /\ <<draft[d], DraftEvent(wf[d], draft[d]), to>> \in DraftEdges
       /\ next' = [next EXCEPT ![d] = to]
  /\ step' = [step EXCEPT ![d] = "loaded"]
  /\ UNCHANGED <<rowVars, requestVars, sweep, wf, attempt, passes, slackVars>>

\* InvalidDraftTransitionError is not in nonRetryableErrorTypes.
MarkThrows(d) ==
  /\ wf[d] \in Marks /\ step[d] = "begin"
  /\ ~MarkLegal(d)
  /\ AttemptFails(d)
  /\ UNCHANGED <<rowVars, requestVars, sweep, passes, slackVars>>

\* Both rows in one transaction, updated by id and not by status.
MarkCommits(d) ==
  /\ wf[d] \in Marks /\ step[d] = "loaded"
  /\ draft' = [draft EXCEPT ![d] = next[d]]
  /\ dispatch' = [dispatch EXCEPT ![d] = DispatchTarget(wf[d], dispatch[d])]
  /\ step' = [step EXCEPT ![d] = "committed"]
  /\ UNCHANGED <<older, requestVars, sweep, wf, next, attempt, passes, slackVars>>

-------------------------------------------------------------------------------
(* sendDraftActivity and Slack *)

SendLoads(d) ==
  /\ wf[d] = "sendDraftActivity" /\ step[d] = "begin"
  /\ draft[d] = "SENDING"
  /\ step' = [step EXCEPT ![d] = "loaded"]
  /\ UNCHANGED <<rowVars, requestVars, sweep, wf, next, attempt, passes, slackVars>>

\* ConflictError, which is retried like a transport error.
SendRefuses(d) ==
  /\ wf[d] = "sendDraftActivity" /\ step[d] = "begin"
  /\ draft[d] # "SENDING"
  /\ AttemptFails(d)
  /\ UNCHANGED <<rowVars, requestVars, sweep, passes, slackVars>>

SlackAccepts(d) ==
  /\ wf[d] = "sendDraftActivity" /\ step[d] = "loaded"
  /\ accepted' = [accepted EXCEPT ![d] = @ + 1]
  /\ step' = [step EXCEPT ![d] = "committed"]
  /\ UNCHANGED <<rowVars, requestVars, sweep, wf, next, attempt, passes, inflight>>

\* PermanentExternalError: no retry, and the catch block does not reconcile.
SlackRejects(d) ==
  /\ wf[d] = "sendDraftActivity" /\ step[d] = "loaded"
  /\ Goto(d, "markDraftSendFailed")
  /\ UNCHANGED <<rowVars, requestVars, sweep, passes, slackVars>>

\* startToCloseTimeout expires while the request, sent without a timeout of
\* its own, is still on the wire.
SendTimesOut(d) ==
  /\ wf[d] = "sendDraftActivity" /\ step[d] = "loaded"
  /\ inflight' = [inflight EXCEPT ![d] = @ + 1]
  /\ AttemptFails(d)
  /\ UNCHANGED <<rowVars, requestVars, sweep, passes, accepted>>

LateRequestLands(d) ==
  /\ inflight[d] > 0
  /\ inflight' = [inflight EXCEPT ![d] = @ - 1]
  /\ accepted' = [accepted EXCEPT ![d] = @ + 1]
  /\ UNCHANGED <<rowVars, requestVars, sweep, workflowVars>>

LateRequestDropped(d) ==
  /\ inflight[d] > 0
  /\ inflight' = [inflight EXCEPT ![d] = @ - 1]
  /\ UNCHANGED <<rowVars, requestVars, sweep, workflowVars, accepted>>

-------------------------------------------------------------------------------
(* reconcileDraftActivity: conversations.replies, first page only *)

\* Mutant: any reply of the thread counts as ours.
ReconcileFinds_AnyReply(d) ==
  /\ wf[d] = "reconcileDraftActivity"
  /\ Goto(d, "markDraftSentReconciled")
  /\ UNCHANGED <<rowVars, requestVars, sweep, passes, slackVars>>

ReconcileFinds(d) ==
  /\ wf[d] = "reconcileDraftActivity"
  /\ accepted[d] > 0
  /\ Goto(d, "markDraftSentReconciled")
  /\ UNCHANGED <<rowVars, requestVars, sweep, passes, slackVars>>

\* Nothing found: one more pass of the loop, or give up.
ReconcileMisses(d) ==
  /\ wf[d] = "reconcileDraftActivity"
  /\ accepted[d] = 0 \/ d \in LongThread
  /\ IF passes[d] < MaxReconcileRetries
     THEN /\ passes' = [passes EXCEPT ![d] = @ + 1]
          /\ Goto(d, "sendDraftActivity")
     ELSE /\ Goto(d, "markDraftSendFailed")
          /\ UNCHANGED passes
  /\ UNCHANGED <<rowVars, requestVars, sweep, slackVars>>

-------------------------------------------------------------------------------
Requests(d) ==
  \/ ApproveDraft(d) \/ ApproveStarts(d) \/ ApproveStartFails(d)
  \/ DismissLoads(d) \/ DismissWrites(d)

\* Everything the engine does for the workflow of d.
WorkflowStep(d) ==
  \/ AttemptLost(d) \/ ActivityReturns(d)
  \/ MarkLoads(d) \/ MarkThrows(d) \/ MarkCommits(d)
  \/ SendLoads(d) \/ SendRefuses(d)
  \/ SlackAccepts(d) \/ SlackRejects(d) \/ SendTimesOut(d)
  \/ ReconcileFinds(d) \/ ReconcileMisses(d)

Next ==
  \/ SweepScans
  \/ \E d \in Draft :
       \/ Requests(d)
       \/ SweepStarts(d) \/ SweepStartFails(d)
       \/ WorkflowStep(d)
       \/ LateRequestLands(d) \/ LateRequestDropped(d)

Spec == Init /\ [][Next]_vars

\* The engine keeps scheduling and retrying activities (losing every attempt
\* included); the sweep runs every minute, and an outage of the engine ends.
Fairness ==
  /\ WF_vars(SweepScans)
  /\ \A d \in Draft :
       /\ WF_vars(WorkflowStep(d))
       /\ WF_vars(SweepStarts(d) \/ SweepStartFails(d))
       /\ SF_vars(SweepStarts(d))

FairSpec == Spec /\ Fairness

-------------------------------------------------------------------------------
(* What must hold *)

\* Slack is asked to post a draft only after an operator approved it: no
\* request, delivered or still on the wire, exists without its outbox row
\* (approveDraft inserts it in the transaction that approves).
OnlyApprovedIsRequested ==
  \A d \in Draft : accepted[d] + inflight[d] > 0 => dispatch[d] # "NONE"

\* Every approved draft that has not been taken up is visible to the sweep:
\* the crash window between commit and start loses nothing.
ApprovedIsInOutbox ==
  \A d \in Draft : draft[d] = "APPROVED" => dispatch[d] = "PENDING"

\* A row that claims delivery tells the truth: SENT, or an outbox row
\* DISPATCHED, means Slack accepted a request for this draft, whatever
\* attempts were lost, retried or reconciled on the way.
DeliveryIsTruthful ==
  \A d \in Draft :
    draft[d] = "SENT" \/ dispatch[d] = "DISPATCHED" => accepted[d] > 0

\* The outbox row never disagrees with the draft it was created for: once it
\* is closed the draft rests in the matching outcome, or in the DISMISSED a
\* racing dismissDraft wrote over it.
OutcomesAgree ==
  \A d \in Draft :
    /\ dispatch[d] = "DISPATCHED" => draft[d] \in {"SENT", "DISMISSED"}
    /\ dispatch[d] = "FAILED" => draft[d] \in {"SEND_FAILED", "DISMISSED"}

\* Duplicates are confined to the attempts of one activity: after an
\* ambiguous delivery the workflow never posts blindly again, so Slack sees at
\* most maximumAttempts requests with the draft's client_msg_id.
RequestsBounded ==
  \A d \in Draft : accepted[d] + inflight[d] <= MaxAttempts

\* The outbox row and the requests Slack accepted implement the promise of
\* ApprovedDelivery: the whole machinery of retries, lost completions, racing
\* dismissals and late requests never settles a draft twice, never settles it
\* as delivered without a delivery, and never posts what was not approved.
Promise == INSTANCE ApprovedDelivery
             WITH outcome <- dispatch, requests <- accepted, MaxRequests <- MaxAttempts

KeepsPromise == Promise!Spec

\* A dismissal that no approval raced is final: from DISMISSED without an
\* outbox row the draft never moves and is never approved.
CleanDismissalIsFinal ==
  [][\A d \in Draft :
       draft[d] = "DISMISSED" /\ dispatch[d] = "NONE" =>
         draft'[d] = "DISMISSED" /\ dispatch'[d] = "NONE"]_vars

\* Every approved draft gets its workflow, even if the approving process died
\* before starting it and the engine was down for a while.
ApprovedIsStarted ==
  \A d \in Draft : dispatch[d] = "PENDING" ~> wf[d] # "none"

===============================================================================
