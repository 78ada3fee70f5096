------------------------ MODULE DraftDelivery_proofs ------------------------
(***************************************************************************)
(* Proofs about DraftDelivery, for any set of drafts and any value of the  *)
(* bounds.  The inductive invariant adds to the type invariant and the     *)
(* properties what the engine's control state implies about the rows: what *)
(* an attempt that has loaded will write, that an unopened draft has no    *)
(* workflow, and how many requests the current attempt can have issued.    *)
(***************************************************************************)
EXTENDS DraftDelivery, TLAPS

\* Without an outbox row nothing has happened to the draft but a dismissal.
Unopened(d) ==
  dispatch[d] = "NONE" =>
    /\ draft[d] \in {"AWAITING_APPROVAL", "DISMISSED"}
    /\ wf[d] = "none" /\ ~starting[d] /\ d \notin sweep
    /\ accepted[d] = 0 /\ inflight[d] = 0

\* A draft that waits for approval was never opened; one that is approved is open.
Opened(d) ==
  /\ draft[d] = "AWAITING_APPROVAL" => dispatch[d] = "NONE"
  /\ draft[d] = "APPROVED" => dispatch[d] = "PENDING"

\* The status a loaded mark activity is about to write, and its open row.  The
\* running sweep holds rows only, and before its start a workflow has loaded
\* nothing.
Target(pc) ==
  CASE pc = "markDraftSending"         -> "SENDING"
    [] pc = "markDraftDeliveryUnknown" -> "DELIVERY_UNKNOWN"
    [] pc = "markDraftSendFailed"      -> "SEND_FAILED"
    [] OTHER                           -> "SENT"

Loaded(d) ==
  /\ wf[d] = "none" => step[d] = "begin"
  /\ wf[d] \in Marks /\ step[d] = "loaded" =>
       next[d] = Target(wf[d]) /\ dispatch[d] = "PENDING"

Agree(d) ==
  /\ dispatch[d] = "DISPATCHED" => draft[d] \in {"SENT", "DISMISSED"}
  /\ dispatch[d] = "FAILED" => draft[d] \in {"SEND_FAILED", "DISMISSED"}

\* Wherever delivery is claimed or about to be claimed, Slack accepted a request.
Truthful(d) ==
  \/ draft[d] = "SENT"
  \/ dispatch[d] = "DISPATCHED"
  \/ wf[d] \in {"markDraftSent", "markDraftSentReconciled"}
  \/ wf[d] = "sendDraftActivity" /\ step[d] = "committed"
  => accepted[d] > 0

\* After an ambiguous delivery the row never returns to SENDING.
NeverSendingAgain(d) ==
  /\ wf[d] \in {"none", "markDraftSending"} => passes[d] = 0
  /\ \/ wf[d] = "markDraftDeliveryUnknown" /\ step[d] = "committed"
     \/ wf[d] \in {"reconcileDraftActivity", "markDraftSentReconciled"}
     \/ passes[d] > 0
     => draft[d] # "SENDING"

\* Requests issued so far, counted by attempts of the first pass.
Issued(d) ==
  /\ accepted[d] + inflight[d] <= MaxAttempts
  /\ wf[d] \in {"none", "markDraftSending"} => accepted[d] + inflight[d] = 0
  /\ wf[d] = "sendDraftActivity" /\ passes[d] = 0 =>
       accepted[d] + inflight[d] < attempt[d] + (IF step[d] = "committed" THEN 1 ELSE 0)
  /\ wf[d] = "sendDraftActivity" /\ passes[d] > 0 => step[d] = "begin"

DraftInv(d) ==
  /\ Unopened(d) /\ Opened(d) /\ Loaded(d) /\ Agree(d)
  /\ Truthful(d) /\ NeverSendingAgain(d) /\ Issued(d)

IInv == TypeOK /\ \A d \in Draft : DraftInv(d)

-------------------------------------------------------------------------------
(* Type correctness.  MarkCommits writes what MarkLoads computed, so it needs   *)
(* the conjunct Loaded of the inductive invariant.                              *)

LEMMA InitTypeOK == Init => TypeOK
  BY AttemptsAssumption, RetriesAssumption
     DEF Init, TypeOK, DraftStatus, DispatchStatus

\* The control part of the type invariant, which every way of ending an attempt
\* preserves.
ControlTypeOK ==
  /\ wf \in [Draft -> Activities \cup Closed \cup {"none"}]
  /\ step \in [Draft -> {"begin", "loaded", "committed"}]
  /\ next \in [Draft -> DraftStatus \cup {"none"}]
  /\ attempt \in [Draft -> 1..MaxAttempts]

LEMMA GotoTypeOK ==
  ASSUME NEW d \in Draft, ControlTypeOK,
         NEW pc \in Activities \cup Closed \cup {"none"}, Goto(d, pc)
  PROVE  ControlTypeOK'
  BY AttemptsAssumption DEF ControlTypeOK, Goto

LEMMA AttemptFailsTypeOK ==
  ASSUME NEW d \in Draft, ControlTypeOK, AttemptFails(d)
  PROVE  ControlTypeOK'
<1>1. CASE attempt[d] < MaxAttempts
  BY <1>1, AttemptsAssumption DEF AttemptFails, ControlTypeOK
<1>2. CASE ~(attempt[d] < MaxAttempts)
  <2>1. AfterFailure(wf[d]) \in Activities \cup Closed \cup {"none"}
    BY DEF AfterFailure, Activities, Marks, Closed
  <2>2. Goto(d, AfterFailure(wf[d]))
    BY <1>2 DEF AttemptFails
  <2>. QED BY <2>1, <2>2, GotoTypeOK
<1>. QED BY <1>1, <1>2

LEMMA RequestsTypeOK ==
  ASSUME TypeOK, NEW d \in Draft, Requests(d)
  PROVE  TypeOK'
<1>. USE DEF TypeOK
<1>1. CASE ApproveDraft(d)
  BY <1>1 DEF ApproveDraft, DraftStatus, DispatchStatus, workflowVars, slackVars
<1>2. CASE ApproveStarts(d)
  BY <1>2 DEF ApproveStarts, StartWorkflow, rowVars, attemptVars, slackVars,
              Activities, Marks, Closed
<1>3. CASE ApproveStartFails(d)
  BY <1>3 DEF ApproveStartFails, rowVars, workflowVars, slackVars
<1>4. CASE DismissLoads(d)
  BY <1>4 DEF DismissLoads, rowVars, workflowVars, slackVars
<1>5. CASE DismissWrites(d)
  BY <1>5 DEF DismissWrites, DraftStatus, workflowVars, slackVars
<1>. QED BY <1>1, <1>2, <1>3, <1>4, <1>5 DEF Requests

LEMMA WorkflowStepTypeOK ==
  ASSUME TypeOK, NEW d \in Draft, Loaded(d), WorkflowStep(d)
  PROVE  TypeOK'
<1>. USE DEF TypeOK, rowVars, requestVars, workflowVars, slackVars
<1>c. ControlTypeOK
  BY DEF ControlTypeOK
<1>1. CASE AttemptLost(d)
  BY <1>1, <1>c, AttemptFailsTypeOK DEF AttemptLost, ControlTypeOK
<1>2. CASE ActivityReturns(d)
  <2>1. AfterSuccess(wf[d]) \in Activities \cup Closed \cup {"none"}
    BY DEF AfterSuccess, Activities, Marks, Closed
  <2>. QED BY <1>2, <2>1, <1>c, GotoTypeOK DEF ActivityReturns, ControlTypeOK
<1>3. CASE MarkLoads(d)
  BY <1>3 DEF MarkLoads
<1>4. CASE MarkThrows(d)
  BY <1>4, <1>c, AttemptFailsTypeOK DEF MarkThrows, ControlTypeOK
<1>5. CASE MarkCommits(d)
  <2>1. next[d] \in DraftStatus
    BY <1>5 DEF MarkCommits, Loaded, Target, DraftStatus
  <2>2. DispatchTarget(wf[d], dispatch[d]) \in DispatchStatus
    BY DEF DispatchTarget, DispatchStatus
  <2>. QED BY <1>5, <2>1, <2>2 DEF MarkCommits
<1>6. CASE SendLoads(d)
  BY <1>6 DEF SendLoads
<1>7. CASE SendRefuses(d)
  BY <1>7, <1>c, AttemptFailsTypeOK DEF SendRefuses, ControlTypeOK
<1>8. CASE SlackAccepts(d)
  BY <1>8 DEF SlackAccepts
<1>9. CASE SlackRejects(d)
  BY <1>9, <1>c, GotoTypeOK DEF SlackRejects, ControlTypeOK, Activities, Marks
<1>10. CASE SendTimesOut(d)
  BY <1>10, <1>c, AttemptFailsTypeOK DEF SendTimesOut, ControlTypeOK
<1>11. CASE ReconcileFinds(d)
  BY <1>11, <1>c, GotoTypeOK DEF ReconcileFinds, ControlTypeOK, Activities, Marks
<1>12. CASE ReconcileMisses(d)
  BY <1>12, <1>c, GotoTypeOK, RetriesAssumption
     DEF ReconcileMisses, ControlTypeOK, Activities, Marks
<1>. QED BY <1>1, <1>2, <1>3, <1>4, <1>5, <1>6, <1>7, <1>8, <1>9, <1>10, <1>11, <1>12
         DEF WorkflowStep

LEMMA NextTypeOK == IInv /\ [Next]_vars => TypeOK'
<1>. SUFFICES ASSUME IInv, [Next]_vars PROVE TypeOK'
  OBVIOUS
<1>t. TypeOK
  BY DEF IInv
<1>1. CASE UNCHANGED vars
  BY <1>t, <1>1 DEF TypeOK, vars
<1>2. CASE SweepScans
  BY <1>t, <1>2 DEF TypeOK, SweepScans, Pending, rowVars, requestVars, workflowVars, slackVars
<1>3. ASSUME NEW d \in Draft, Requests(d) PROVE TypeOK'
  BY <1>t, <1>3, RequestsTypeOK
<1>4. ASSUME NEW d \in Draft, SweepStarts(d) \/ SweepStartFails(d) PROVE TypeOK'
  BY <1>t, <1>4 DEF TypeOK, SweepStarts, SweepStartFails, StartWorkflow, rowVars,
     requestVars, attemptVars, workflowVars, slackVars, Activities, Marks, Closed
<1>5. ASSUME NEW d \in Draft, WorkflowStep(d) PROVE TypeOK'
  <2>1. Loaded(d)
    BY DEF IInv, DraftInv
  <2>. QED BY <1>t, <1>5, <2>1, WorkflowStepTypeOK
<1>6. ASSUME NEW d \in Draft, LateRequestLands(d) \/ LateRequestDropped(d) PROVE TypeOK'
  BY <1>t, <1>6 DEF TypeOK, LateRequestLands, LateRequestDropped, rowVars, requestVars,
     workflowVars
<1>. QED BY <1>1, <1>2, <1>3, <1>4, <1>5, <1>6 DEF Next

-------------------------------------------------------------------------------
(* The invariant of one draft *)

LEMMA InitInv == Init => IInv
<1>. SUFFICES ASSUME Init PROVE IInv
  OBVIOUS
<1>1. ASSUME NEW d \in Draft PROVE DraftInv(d)
  BY AttemptsAssumption
     DEF Init, DraftInv, Unopened, Opened, Loaded, Agree, Truthful, NeverSendingAgain,
         Issued, Marks
<1>. QED BY <1>1, InitTypeOK DEF IInv

\* A step that does not touch draft e keeps its invariant.
LEMMA Untouched ==
  ASSUME NEW e \in Draft, DraftInv(e),
         draft'[e] = draft[e], dispatch'[e] = dispatch[e], wf'[e] = wf[e],
         step'[e] = step[e], next'[e] = next[e], attempt'[e] = attempt[e],
         passes'[e] = passes[e], accepted'[e] = accepted[e],
         inflight'[e] = inflight[e], ~starting[e] => ~starting'[e],
         e \notin sweep => e \notin sweep'
  PROVE  DraftInv(e)'
  BY DEF DraftInv, Unopened, Opened, Loaded, Agree, Truthful, NeverSendingAgain,
         Issued, Target
\* Ending an attempt of d, and starting the workflow of d, leave e alone.
LEMMA AttemptFailsElsewhere ==
  ASSUME ControlTypeOK, NEW d \in Draft, NEW e \in Draft, e # d, AttemptFails(d)
  PROVE  /\ wf'[e] = wf[e] /\ step'[e] = step[e]
         /\ next'[e] = next[e] /\ attempt'[e] = attempt[e]
<1>1. CASE attempt[d] < MaxAttempts
  BY <1>1 DEF AttemptFails, ControlTypeOK
<1>2. CASE ~(attempt[d] < MaxAttempts)
  BY <1>2 DEF AttemptFails, Goto, ControlTypeOK
<1>. QED BY <1>1, <1>2

LEMMA StartWorkflowAt ==
  ASSUME TypeOK, NEW d \in Draft, NEW e \in Draft, StartWorkflow(d)
  PROVE  wf'[e] = IF e = d /\ wf[d] = "none" THEN "markDraftSending" ELSE wf[e]
<1>1. CASE wf[d] = "none"
  BY <1>1 DEF StartWorkflow, TypeOK
<1>2. CASE wf[d] # "none"
  BY <1>2 DEF StartWorkflow
<1>. QED BY <1>1, <1>2

\* Where an attempt of d ends: retried, or handed to the workflow.
LEMMA AttemptFailsAt ==
  ASSUME ControlTypeOK, NEW d \in Draft, AttemptFails(d)
  PROVE  /\ step'[d] = "begin" /\ next'[d] = "none"
         /\ \/ attempt[d] < MaxAttempts /\ wf'[d] = wf[d] /\ attempt'[d] = attempt[d] + 1
            \/ attempt[d] = MaxAttempts /\ wf'[d] = AfterFailure(wf[d]) /\ attempt'[d] = 1
<1>1. CASE attempt[d] < MaxAttempts
  BY <1>1 DEF AttemptFails, ControlTypeOK
<1>2. CASE ~(attempt[d] < MaxAttempts)
  BY <1>2, AttemptsAssumption DEF AttemptFails, Goto, ControlTypeOK
<1>. QED BY <1>1, <1>2

LEMMA ApproveDraftInv ==
  ASSUME IInv, NEW d \in Draft, ApproveDraft(d), NEW e \in Draft
  PROVE  DraftInv(e)'
<1>. USE DEF rowVars, requestVars, workflowVars, attemptVars, slackVars
<1>t. TypeOK /\ DraftInv(e) /\ DraftInv(d)
  BY DEF IInv
<1>1. CASE e # d
  BY <1>1, <1>t, Untouched DEF ApproveDraft, TypeOK
<1>2. CASE e = d
  BY <1>2, <1>t, AttemptsAssumption
     DEF ApproveDraft, TypeOK, Activities, Marks, Closed,
         DraftInv, Unopened, Opened, Loaded, Agree, Truthful, NeverSendingAgain, Issued
<1>. QED BY <1>1, <1>2

LEMMA ApproveStartsInv ==
  ASSUME IInv, NEW d \in Draft, ApproveStarts(d), NEW e \in Draft
  PROVE  DraftInv(e)'
<1>. USE DEF rowVars, requestVars, workflowVars, attemptVars, slackVars
<1>t. TypeOK /\ DraftInv(e) /\ DraftInv(d)
  BY DEF IInv
<1>s. /\ StartWorkflow(d)
       /\ wf'[e] = IF e = d /\ wf[d] = "none" THEN "markDraftSending" ELSE wf[e]
  BY <1>t, StartWorkflowAt DEF ApproveStarts
<1>1. CASE wf'[e] = wf[e]
  BY <1>1, <1>s, <1>t, Untouched DEF ApproveStarts, StartWorkflow, TypeOK
<1>2. CASE wf'[e] # wf[e]
  BY <1>2, <1>s, <1>t, AttemptsAssumption
     DEF ApproveStarts, StartWorkflow, TypeOK, Marks,
         DraftInv, Unopened, Opened, Loaded, Agree, Truthful, NeverSendingAgain, Issued
<1>. QED BY <1>1, <1>2

LEMMA ApproveStartFailsInv ==
  ASSUME IInv, NEW d \in Draft, ApproveStartFails(d), NEW e \in Draft
  PROVE  DraftInv(e)'
<1>. USE DEF rowVars, requestVars, workflowVars, attemptVars, slackVars
<1>t. TypeOK /\ DraftInv(e) /\ DraftInv(d)
  BY DEF IInv
<1>1. CASE e # d
  BY <1>1, <1>t, Untouched DEF ApproveStartFails, TypeOK
<1>2. CASE e = d
  BY <1>2, <1>t, AttemptsAssumption
     DEF ApproveStartFails, TypeOK, Activities, Marks, Closed,
         DraftInv, Unopened, Opened, Loaded, Agree, Truthful, NeverSendingAgain, Issued
<1>. QED BY <1>1, <1>2

LEMMA DismissLoadsInv ==
  ASSUME IInv, NEW d \in Draft, DismissLoads(d), NEW e \in Draft
  PROVE  DraftInv(e)'
<1>. USE DEF rowVars, requestVars, workflowVars, attemptVars, slackVars
<1>t. TypeOK /\ DraftInv(e) /\ DraftInv(d)
  BY DEF IInv
<1>1. CASE e # d
  BY <1>1, <1>t, Untouched DEF DismissLoads, TypeOK
<1>2. CASE e = d
  BY <1>2, <1>t, AttemptsAssumption
     DEF DismissLoads, TypeOK, Activities, Marks, Closed,
         DraftInv, Unopened, Opened, Loaded, Agree, Truthful, NeverSendingAgain, Issued
<1>. QED BY <1>1, <1>2

LEMMA DismissWritesInv ==
  ASSUME IInv, NEW d \in Draft, DismissWrites(d), NEW e \in Draft
  PROVE  DraftInv(e)'
<1>. USE DEF rowVars, requestVars, workflowVars, attemptVars, slackVars
<1>t. TypeOK /\ DraftInv(e) /\ DraftInv(d)
  BY DEF IInv
<1>1. CASE e # d
  BY <1>1, <1>t, Untouched DEF DismissWrites, TypeOK
<1>2. CASE e = d
  BY <1>2, <1>t, AttemptsAssumption
     DEF DismissWrites, TypeOK, Activities, Marks, Closed,
         DraftInv, Unopened, Opened, Loaded, Agree, Truthful, NeverSendingAgain, Issued
<1>. QED BY <1>1, <1>2

LEMMA SweepStartsInv ==
  ASSUME IInv, NEW d \in Draft, SweepStarts(d), NEW e \in Draft
  PROVE  DraftInv(e)'
<1>. USE DEF rowVars, requestVars, workflowVars, attemptVars, slackVars
<1>t. TypeOK /\ DraftInv(e) /\ DraftInv(d)
  BY DEF IInv
<1>s. /\ StartWorkflow(d)
       /\ wf'[e] = IF e = d /\ wf[d] = "none" THEN "markDraftSending" ELSE wf[e]
  BY <1>t, StartWorkflowAt DEF SweepStarts
<1>1. CASE wf'[e] = wf[e]
  BY <1>1, <1>s, <1>t, Untouched DEF SweepStarts, StartWorkflow, TypeOK
<1>2. CASE wf'[e] # wf[e]
  BY <1>2, <1>s, <1>t, AttemptsAssumption
     DEF SweepStarts, StartWorkflow, TypeOK, Marks,
         DraftInv, Unopened, Opened, Loaded, Agree, Truthful, NeverSendingAgain, Issued
<1>. QED BY <1>1, <1>2

LEMMA SweepStartFailsInv ==
  ASSUME IInv, NEW d \in Draft, SweepStartFails(d), NEW e \in Draft
  PROVE  DraftInv(e)'
<1>. USE DEF rowVars, requestVars, workflowVars, attemptVars, slackVars
<1>t. TypeOK /\ DraftInv(e) /\ DraftInv(d)
  BY DEF IInv
<1>1. CASE e # d
  BY <1>1, <1>t, Untouched DEF SweepStartFails, TypeOK
<1>2. CASE e = d
  BY <1>2, <1>t, AttemptsAssumption
     DEF SweepStartFails, TypeOK, Activities, Marks, Closed,
         DraftInv, Unopened, Opened, Loaded, Agree, Truthful, NeverSendingAgain, Issued
<1>. QED BY <1>1, <1>2

LEMMA AttemptLostInv ==
  ASSUME IInv, NEW d \in Draft, AttemptLost(d), NEW e \in Draft
  PROVE  DraftInv(e)'
<1>. USE DEF rowVars, requestVars, workflowVars, attemptVars, slackVars
<1>t. TypeOK /\ DraftInv(e) /\ DraftInv(d)
  BY DEF IInv
<1>c. ControlTypeOK
  BY <1>t DEF TypeOK, ControlTypeOK
<1>f. AttemptFails(d)
  BY DEF AttemptLost
<1>1. CASE e # d
  BY <1>1, <1>t, <1>c, <1>f, AttemptFailsElsewhere, Untouched DEF AttemptLost, TypeOK
<1>2. CASE e = d
  BY <1>2, <1>t, <1>c, <1>f, AttemptFailsAt, AttemptsAssumption
     DEF AttemptLost, TypeOK, AfterFailure, Activities, Marks, Closed,
         DraftInv, Unopened, Opened, Loaded, Agree, Truthful, NeverSendingAgain, Issued
<1>. QED BY <1>1, <1>2

LEMMA ActivityReturnsInv ==
  ASSUME IInv, NEW d \in Draft, ActivityReturns(d), NEW e \in Draft
  PROVE  DraftInv(e)'
<1>. USE DEF rowVars, requestVars, workflowVars, attemptVars, slackVars
<1>t. TypeOK /\ DraftInv(e) /\ DraftInv(d)
  BY DEF IInv
<1>1. CASE e # d
  BY <1>1, <1>t, Untouched DEF ActivityReturns, TypeOK, Goto, AfterSuccess
<1>2. CASE e = d
  BY <1>2, <1>t, AttemptsAssumption
     DEF ActivityReturns, TypeOK, Goto, AfterSuccess, Activities, Marks, Closed,
         DraftInv, Unopened, Opened, Loaded, Agree, Truthful, NeverSendingAgain, Issued
<1>. QED BY <1>1, <1>2

LEMMA MarkLoadsInv ==
  ASSUME IInv, NEW d \in Draft, MarkLoads(d), NEW e \in Draft
  PROVE  DraftInv(e)'
<1>. USE DEF rowVars, requestVars, workflowVars, attemptVars, slackVars
<1>t. TypeOK /\ DraftInv(e) /\ DraftInv(d)
  BY DEF IInv
<1>n. next'[d] = Target(wf[d]) /\ dispatch[d] = "PENDING" /\ wf[d] \in Marks
  <2>1. PICK to \in DraftStatus :
           /\ <<draft[d], DraftEvent(wf[d], draft[d]), to>> \in DraftEdges
           /\ next' = [next EXCEPT ![d] = to]
    BY DEF MarkLoads
  <2>2. next'[d] = to
    BY <2>1, <1>t DEF TypeOK
  <2>3. to = Target(wf[d]) /\ draft[d] \in {"APPROVED", "SENDING", "DELIVERY_UNKNOWN"}
    BY <2>1 DEF MarkLoads, DraftEdges, DraftEvent, Target, Marks
  <2>. QED BY <2>2, <2>3, <1>t DEF MarkLoads, TypeOK, DispatchStatus, DraftInv, Unopened, Agree
<1>1. CASE e # d
  BY <1>1, <1>t, Untouched DEF MarkLoads, TypeOK
<1>2. CASE e = d
  BY <1>2, <1>n, <1>t
     DEF MarkLoads, TypeOK, Marks,
         DraftInv, Unopened, Opened, Loaded, Agree, Truthful, NeverSendingAgain, Issued
<1>. QED BY <1>1, <1>2

LEMMA MarkThrowsInv ==
  ASSUME IInv, NEW d \in Draft, MarkThrows(d), NEW e \in Draft
  PROVE  DraftInv(e)'
<1>. USE DEF rowVars, requestVars, workflowVars, attemptVars, slackVars
<1>t. TypeOK /\ DraftInv(e) /\ DraftInv(d)
  BY DEF IInv
<1>c. ControlTypeOK
  BY <1>t DEF TypeOK, ControlTypeOK
<1>f. AttemptFails(d)
  BY DEF MarkThrows
<1>1. CASE e # d
  BY <1>1, <1>t, <1>c, <1>f, AttemptFailsElsewhere, Untouched DEF MarkThrows, TypeOK
<1>2. CASE e = d
  BY <1>2, <1>t, <1>c, <1>f, AttemptFailsAt, AttemptsAssumption
     DEF MarkThrows, TypeOK, AfterFailure, Activities, Marks, Closed,
         DraftInv, Unopened, Opened, Loaded, Agree, Truthful, NeverSendingAgain, Issued
<1>. QED BY <1>1, <1>2

LEMMA MarkCommitsInv ==
  ASSUME IInv, NEW d \in Draft, MarkCommits(d), NEW e \in Draft
  PROVE  DraftInv(e)'
<1>. USE DEF rowVars, requestVars, workflowVars, attemptVars, slackVars
<1>t. TypeOK /\ DraftInv(e) /\ DraftInv(d)
  BY DEF IInv
<1>1. CASE e # d
  BY <1>1, <1>t, Untouched DEF MarkCommits, TypeOK, DispatchTarget, Target
<1>2. CASE e = d
  BY <1>2, <1>t, AttemptsAssumption
     DEF MarkCommits, TypeOK, DispatchTarget, Target, Activities, Marks, Closed,
         DraftInv, Unopened, Opened, Loaded, Agree, Truthful, NeverSendingAgain, Issued
<1>. QED BY <1>1, <1>2

LEMMA SendLoadsInv ==
  ASSUME IInv, NEW d \in Draft, SendLoads(d), NEW e \in Draft
  PROVE  DraftInv(e)'
<1>. USE DEF rowVars, requestVars, workflowVars, attemptVars, slackVars
<1>t. TypeOK /\ DraftInv(e) /\ DraftInv(d)
  BY DEF IInv
<1>1. CASE e # d
  BY <1>1, <1>t, Untouched DEF SendLoads, TypeOK
<1>2. CASE e = d
  BY <1>2, <1>t, AttemptsAssumption
     DEF SendLoads, TypeOK, Activities, Marks, Closed,
         DraftInv, Unopened, Opened, Loaded, Agree, Truthful, NeverSendingAgain, Issued
<1>. QED BY <1>1, <1>2

LEMMA SendRefusesInv ==
  ASSUME IInv, NEW d \in Draft, SendRefuses(d), NEW e \in Draft
  PROVE  DraftInv(e)'
<1>. USE DEF rowVars, requestVars, workflowVars, attemptVars, slackVars
<1>t. TypeOK /\ DraftInv(e) /\ DraftInv(d)
  BY DEF IInv
<1>c. ControlTypeOK
  BY <1>t DEF TypeOK, ControlTypeOK
<1>f. AttemptFails(d)
  BY DEF SendRefuses
<1>1. CASE e # d
  BY <1>1, <1>t, <1>c, <1>f, AttemptFailsElsewhere, Untouched DEF SendRefuses, TypeOK
<1>2. CASE e = d
  BY <1>2, <1>t, <1>c, <1>f, AttemptFailsAt, AttemptsAssumption
     DEF SendRefuses, TypeOK, AfterFailure, Activities, Marks, Closed,
         DraftInv, Unopened, Opened, Loaded, Agree, Truthful, NeverSendingAgain, Issued
<1>. QED BY <1>1, <1>2

LEMMA SlackAcceptsInv ==
  ASSUME IInv, NEW d \in Draft, SlackAccepts(d), NEW e \in Draft
  PROVE  DraftInv(e)'
<1>. USE DEF rowVars, requestVars, workflowVars, attemptVars, slackVars
<1>t. TypeOK /\ DraftInv(e) /\ DraftInv(d)
  BY DEF IInv
<1>1. CASE e # d
  BY <1>1, <1>t, Untouched DEF SlackAccepts, TypeOK
<1>2. CASE e = d
  BY <1>2, <1>t, AttemptsAssumption
     DEF SlackAccepts, TypeOK, Activities, Marks, Closed,
         DraftInv, Unopened, Opened, Loaded, Agree, Truthful, NeverSendingAgain, Issued
<1>. QED BY <1>1, <1>2

LEMMA SlackRejectsInv ==
  ASSUME IInv, NEW d \in Draft, SlackRejects(d), NEW e \in Draft
  PROVE  DraftInv(e)'
<1>. USE DEF rowVars, requestVars, workflowVars, attemptVars, slackVars
<1>t. TypeOK /\ DraftInv(e) /\ DraftInv(d)
  BY DEF IInv
<1>1. CASE e # d
  BY <1>1, <1>t, Untouched DEF SlackRejects, TypeOK, Goto
<1>2. CASE e = d
  BY <1>2, <1>t, AttemptsAssumption
     DEF SlackRejects, TypeOK, Goto, Activities, Marks, Closed,
         DraftInv, Unopened, Opened, Loaded, Agree, Truthful, NeverSendingAgain, Issued
<1>. QED BY <1>1, <1>2

LEMMA SendTimesOutInv ==
  ASSUME IInv, NEW d \in Draft, SendTimesOut(d), NEW e \in Draft
  PROVE  DraftInv(e)'
<1>. USE DEF rowVars, requestVars, workflowVars, attemptVars, slackVars
<1>t. TypeOK /\ DraftInv(e) /\ DraftInv(d)
  BY DEF IInv
<1>c. ControlTypeOK
  BY <1>t DEF TypeOK, ControlTypeOK
<1>f. AttemptFails(d)
  BY DEF SendTimesOut
<1>1. CASE e # d
  BY <1>1, <1>t, <1>c, <1>f, AttemptFailsElsewhere, Untouched DEF SendTimesOut, TypeOK
<1>2. CASE e = d
  BY <1>2, <1>t, <1>c, <1>f, AttemptFailsAt, AttemptsAssumption
     DEF SendTimesOut, TypeOK, AfterFailure, Activities, Marks, Closed,
         DraftInv, Unopened, Opened, Loaded, Agree, Truthful, NeverSendingAgain, Issued
<1>. QED BY <1>1, <1>2

LEMMA LateRequestLandsInv ==
  ASSUME IInv, NEW d \in Draft, LateRequestLands(d), NEW e \in Draft
  PROVE  DraftInv(e)'
<1>. USE DEF rowVars, requestVars, workflowVars, attemptVars, slackVars
<1>t. TypeOK /\ DraftInv(e) /\ DraftInv(d)
  BY DEF IInv
<1>1. CASE e # d
  BY <1>1, <1>t, Untouched DEF LateRequestLands, TypeOK
<1>2. CASE e = d
  BY <1>2, <1>t, AttemptsAssumption
     DEF LateRequestLands, TypeOK, Activities, Marks, Closed,
         DraftInv, Unopened, Opened, Loaded, Agree, Truthful, NeverSendingAgain, Issued
<1>. QED BY <1>1, <1>2

LEMMA LateRequestDroppedInv ==
  ASSUME IInv, NEW d \in Draft, LateRequestDropped(d), NEW e \in Draft
  PROVE  DraftInv(e)'
<1>. USE DEF rowVars, requestVars, workflowVars, attemptVars, slackVars
<1>t. TypeOK /\ DraftInv(e) /\ DraftInv(d)
  BY DEF IInv
<1>1. CASE e # d
  BY <1>1, <1>t, Untouched DEF LateRequestDropped, TypeOK
<1>2. CASE e = d
  BY <1>2, <1>t, AttemptsAssumption
     DEF LateRequestDropped, TypeOK, Activities, Marks, Closed,
         DraftInv, Unopened, Opened, Loaded, Agree, Truthful, NeverSendingAgain, Issued
<1>. QED BY <1>1, <1>2

LEMMA ReconcileFindsInv ==
  ASSUME IInv, NEW d \in Draft, ReconcileFinds(d), NEW e \in Draft
  PROVE  DraftInv(e)'
<1>. USE DEF rowVars, requestVars, workflowVars, attemptVars, slackVars
<1>t. TypeOK /\ DraftInv(e) /\ DraftInv(d)
  BY DEF IInv
<1>1. CASE e # d
  BY <1>1, <1>t, Untouched DEF ReconcileFinds, TypeOK, Goto
<1>2. CASE e = d
  BY <1>2, <1>t, AttemptsAssumption
     DEF ReconcileFinds, TypeOK, Goto, Activities, Marks, Closed,
         DraftInv, Unopened, Opened, Loaded, Agree, Truthful, NeverSendingAgain, Issued
<1>. QED BY <1>1, <1>2

LEMMA ReconcileMissesInv ==
  ASSUME IInv, NEW d \in Draft, ReconcileMisses(d), NEW e \in Draft
  PROVE  DraftInv(e)'
<1>. USE DEF rowVars, requestVars, workflowVars, attemptVars, slackVars
<1>t. TypeOK /\ DraftInv(e) /\ DraftInv(d)
  BY DEF IInv
<1>g. \/ passes[d] < MaxReconcileRetries /\ Goto(d, "sendDraftActivity")
          /\ passes' = [passes EXCEPT ![d] = @ + 1]
      \/ Goto(d, "markDraftSendFailed") /\ passes' = passes
  BY DEF ReconcileMisses
<1>1. CASE e # d
  <2>1. passes'[e] = passes[e] /\ wf'[e] = wf[e] /\ step'[e] = step[e]
        /\ next'[e] = next[e] /\ attempt'[e] = attempt[e]
    BY <1>1, <1>g, <1>t DEF Goto, TypeOK
  <2>. QED BY <1>1, <2>1, <1>t, Untouched DEF ReconcileMisses, TypeOK
<1>2. CASE e = d
  BY <1>2, <1>g, <1>t, AttemptsAssumption
     DEF ReconcileMisses, Goto, TypeOK, Marks,
         DraftInv, Unopened, Opened, Loaded, Agree, Truthful, NeverSendingAgain, Issued
<1>. QED BY <1>1, <1>2
LEMMA SweepScansInv ==
  ASSUME IInv, SweepScans, NEW e \in Draft
  PROVE  DraftInv(e)'
  BY DEF IInv, SweepScans, Pending, DraftInv, Unopened, Opened, Loaded, Agree, Truthful,
         NeverSendingAgain, Issued, rowVars, requestVars, workflowVars, slackVars

LEMMA NextInv == IInv /\ [Next]_vars => IInv'
<1>. SUFFICES ASSUME IInv, [Next]_vars PROVE IInv'
  OBVIOUS
<1>. SUFFICES ASSUME NEW e \in Draft PROVE DraftInv(e)'
  BY NextTypeOK DEF IInv
<1>1. CASE UNCHANGED vars
  BY <1>1, Untouched DEF vars, IInv
<1>2. CASE SweepScans
  BY <1>2, SweepScansInv
<1>3. ASSUME NEW d \in Draft, Requests(d) PROVE DraftInv(e)'
  BY <1>3, ApproveDraftInv, ApproveStartsInv, ApproveStartFailsInv, DismissLoadsInv,
     DismissWritesInv DEF Requests
<1>4. ASSUME NEW d \in Draft, SweepStarts(d) \/ SweepStartFails(d) PROVE DraftInv(e)'
  BY <1>4, SweepStartsInv, SweepStartFailsInv
<1>5. ASSUME NEW d \in Draft, WorkflowStep(d) PROVE DraftInv(e)'
  BY <1>5, AttemptLostInv, ActivityReturnsInv, MarkLoadsInv, MarkThrowsInv, MarkCommitsInv,
     SendLoadsInv, SendRefusesInv, SlackAcceptsInv, SlackRejectsInv, SendTimesOutInv,
     ReconcileFindsInv, ReconcileMissesInv DEF WorkflowStep
<1>6. ASSUME NEW d \in Draft, LateRequestLands(d) \/ LateRequestDropped(d)
      PROVE  DraftInv(e)'
  BY <1>6, LateRequestLandsInv, LateRequestDroppedInv
<1>. QED BY <1>1, <1>2, <1>3, <1>4, <1>5, <1>6 DEF Next

LEMMA Invariance == Spec => []IInv
  BY InitInv, NextInv, PTL DEF Spec

-------------------------------------------------------------------------------
(* The properties *)

\* The rows and the engine's state keep their types (DraftDelivery!TypeOK).
THEOREM TypeCorrectness == Spec => []TypeOK
  BY Invariance, PTL DEF IInv

\* No request reaches Slack, or is on its way, for a draft nobody approved.
THEOREM ApprovedOnly == Spec => []OnlyApprovedIsRequested
<1>1. IInv => OnlyApprovedIsRequested
  BY DEF IInv, TypeOK, DraftInv, Unopened, OnlyApprovedIsRequested
<1>. QED BY <1>1, Invariance, PTL

\* An approved draft is in the outbox, so the sweep can find it after a crash.
THEOREM OutboxComplete == Spec => []ApprovedIsInOutbox
<1>1. IInv => ApprovedIsInOutbox
  BY DEF IInv, DraftInv, Opened, ApprovedIsInOutbox
<1>. QED BY <1>1, Invariance, PTL

\* SENT and DISPATCHED are only recorded for a draft Slack accepted.
THEOREM Truthfulness == Spec => []DeliveryIsTruthful
<1>1. IInv => DeliveryIsTruthful
  BY DEF IInv, DraftInv, Truthful, DeliveryIsTruthful
<1>. QED BY <1>1, Invariance, PTL

\* The closed outbox row and the draft record the same outcome.
THEOREM Agreement == Spec => []OutcomesAgree
<1>1. IInv => OutcomesAgree
  BY DEF IInv, DraftInv, Agree, OutcomesAgree
<1>. QED BY <1>1, Invariance, PTL

\* However often activities are retried, Slack gets at most MaxAttempts requests.
THEOREM BoundedRequests == Spec => []RequestsBounded
<1>1. IInv => RequestsBounded
  BY DEF IInv, DraftInv, Issued, RequestsBounded
<1>. QED BY <1>1, Invariance, PTL

\* A draft dismissed before any approval stays dismissed and unopened.
THEOREM DismissalFinality == Spec => CleanDismissalIsFinal
<1>. DEFINE Final(d) ==
       draft[d] = "DISMISSED" /\ dispatch[d] = "NONE" =>
         draft'[d] = "DISMISSED" /\ dispatch'[d] = "NONE"
<1>1. ASSUME IInv, [Next]_vars, NEW e \in Draft PROVE Final(e)
  <2>. USE DEF rowVars
  <2>t. TypeOK /\ Unopened(e)
    BY <1>1 DEF IInv, DraftInv
  <2>1. CASE UNCHANGED vars
    BY <2>1 DEF vars
  <2>2. ASSUME NEW d \in Draft, ApproveDraft(d) PROVE Final(e)
    BY <2>2, <2>t DEF ApproveDraft, TypeOK
  <2>3. ASSUME NEW d \in Draft, DismissWrites(d) PROVE Final(e)
    BY <2>3, <2>t DEF DismissWrites, TypeOK
  <2>4. ASSUME NEW d \in Draft, MarkCommits(d) PROVE Final(e)
    BY <2>4, <2>t DEF MarkCommits, TypeOK, Unopened, Marks
  <2>5. ASSUME UNCHANGED <<draft, dispatch>> PROVE Final(e)
    BY <2>5
  <2>. QED
    BY <1>1, <2>1, <2>2, <2>3, <2>4, <2>5
       DEF Next, Requests, WorkflowStep, SweepScans, SweepStarts, SweepStartFails,
           ApproveStarts, ApproveStartFails, DismissLoads, AttemptLost, ActivityReturns,
           MarkLoads, MarkThrows, SendLoads, SendRefuses, SlackAccepts, SlackRejects,
           SendTimesOut, ReconcileFinds, ReconcileMisses, LateRequestLands,
           LateRequestDropped
<1>2. IInv /\ [Next]_vars => [\A d \in Draft : Final(d)]_vars
  BY <1>1
<1>. HIDE DEF Final
<1>3. Spec => [][\A d \in Draft : Final(d)]_vars
  BY <1>2, Invariance, PTL DEF Spec
<1>. QED BY <1>3 DEF Final, CleanDismissalIsFinal

-------------------------------------------------------------------------------
(* Refinement: every step is a step of ApprovedDelivery or stutters there.      *)

LEMMA RefinesInit == Init => Promise!Init
  BY DEF Init, Promise!Init

\* The two steps after which Slack has accepted one more request.
LEMMA RefinesAccept ==
  ASSUME IInv, NEW d \in Draft, SlackAccepts(d) \/ LateRequestLands(d)
  PROVE  Promise!Accept(d)
<1>1. TypeOK /\ Unopened(d) /\ Issued(d)
  BY DEF IInv, DraftInv
<1>2. dispatch[d] # "NONE"
  BY <1>1 DEF SlackAccepts, LateRequestLands, Unopened, TypeOK
<1>3. accepted[d] < MaxAttempts
  BY <1>1, AttemptsAssumption, RetriesAssumption
     DEF SlackAccepts, LateRequestLands, Issued, TypeOK
<1>. QED
  BY <1>2, <1>3 DEF SlackAccepts, LateRequestLands, Promise!Accept, rowVars

\* What a mark activity commits settles an open draft once, or changes nothing
\* the promise speaks of.
LEMMA RefinesCommit ==
  ASSUME IInv, NEW d \in Draft, MarkCommits(d)
  PROVE  \/ Promise!Deliver(d)
         \/ Promise!GiveUp(d)
         \/ UNCHANGED <<dispatch, accepted>>
<1>1. TypeOK /\ Loaded(d) /\ Truthful(d)
  BY DEF IInv, DraftInv
<1>2. dispatch[d] = "PENDING" /\ UNCHANGED accepted
  BY <1>1 DEF MarkCommits, Loaded, slackVars
<1>3. CASE wf[d] = "markDraftSendFailed"
  BY <1>2, <1>3 DEF MarkCommits, DispatchTarget, Promise!GiveUp
<1>4. CASE wf[d] \in {"markDraftSent", "markDraftSentReconciled"}
  BY <1>1, <1>2, <1>4 DEF MarkCommits, DispatchTarget, Truthful, TypeOK, Promise!Deliver
<1>5. CASE wf[d] \in {"markDraftSending", "markDraftDeliveryUnknown"}
  BY <1>1, <1>2, <1>5 DEF MarkCommits, DispatchTarget, TypeOK
<1>. QED BY <1>3, <1>4, <1>5 DEF MarkCommits, Marks

LEMMA RefinesNext == IInv /\ [Next]_vars => [Promise!Next]_(Promise!promiseVars)
<1>. SUFFICES ASSUME IInv, [Next]_vars PROVE [Promise!Next]_<<dispatch, accepted>>
  BY DEF Promise!promiseVars
<1>1. CASE UNCHANGED vars
  BY <1>1 DEF vars
<1>2. ASSUME NEW d \in Draft, ApproveDraft(d) PROVE Promise!Next
  <2>1. dispatch[d] = "NONE"
    BY <1>2 DEF IInv, DraftInv, Opened, ApproveDraft
  <2>. QED BY <1>2, <2>1 DEF ApproveDraft, slackVars, Promise!Approve, Promise!Next
<1>3. ASSUME NEW d \in Draft, SlackAccepts(d) \/ LateRequestLands(d) PROVE Promise!Next
  BY <1>3, RefinesAccept DEF Promise!Next
<1>4. ASSUME NEW d \in Draft, MarkCommits(d) PROVE [Promise!Next]_<<dispatch, accepted>>
  BY <1>4, RefinesCommit DEF Promise!Next
<1>5. CASE UNCHANGED <<dispatch, accepted>>
  BY <1>5
<1>. QED
  BY <1>1, <1>2, <1>3, <1>4, <1>5
     DEF Next, Requests, WorkflowStep, SweepScans, SweepStarts, SweepStartFails,
         ApproveStarts, ApproveStartFails, DismissLoads, DismissWrites, AttemptLost,
         ActivityReturns, MarkLoads, MarkThrows, SendLoads, SendRefuses, SlackRejects,
         SendTimesOut, ReconcileFinds, ReconcileMisses, LateRequestDropped, rowVars,
         slackVars

\* The approval, outbox, workflow, sweep and Slack together implement the promise
\* of ApprovedDelivery.
THEOREM Refinement == Spec => KeepsPromise
  BY RefinesInit, RefinesNext, Invariance, PTL DEF Spec, KeepsPromise, Promise!Spec
===============================================================================
