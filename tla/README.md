# Formal models of the TrustLoop support pipeline

TLA+ specifications of the parts of this repository whose correctness depends on
the order in which requests, workers, retries and Slack messages happen to run.
Each component has a module translated from its source, an instance for the model
checker TLC, and a module of theorems checked by TLAPS for every value of the
constants. `PROJECT.json` maps every definition to the lines it models and lists
the hazards the properties are for.

    tlc -workers 2 -config DraftDelivery_one.cfg MCDraftDelivery.tla
    tlapm DraftDelivery_proofs.tla

## 1. The system

A Slack workspace is connected to TrustLoop. Messages arrive at a webhook of the
web application, are stored, and are processed by Temporal workflows, which file
them under conversations. An analysis run by an agent service proposes a draft
reply; an operator approves it and a workflow posts it to Slack. Operators also
reply directly, set the status of a conversation, merge conversations and move
messages between them. A team of agents can be set to work on a conversation; its
roles exchange messages, ask humans, and wait for answers. The customer's own
pages carry a browser SDK that records what happened there; the server looks for
the session that belongs to a conversation and gives it to the analysis, together
with excerpts of the customer's GitHub repositories, which are indexed beforehand.
Operators see all this in an inbox that a stream of notifications keeps fresh.

State lives in Postgres. Transactions run at READ COMMITTED and nothing takes
row locks before it writes, so a transaction that computes what it writes from
what it read can be overtaken in between. Temporal retries activities whose
attempt failed, timed out or lost its completion, and refuses a second open
workflow with the same id.

| Component | State it keeps | Operations | Module |
|---|---|---|---|
| Draft approval and delivery | `SupportDraft`, `DraftDispatch` (outbox), the workflow `send-draft-<id>` | approve, dismiss, sweep, send, reconcile, mark | `DraftDelivery` |
| Agent team run | `AgentTeamRun`, role inboxes, open questions, event log, executions | claim, turn, persist, route, mark; answer, resume | `AgentTeamRun` |
| Conversation status and replies | `SupportConversation.status`, `SupportDeliveryAttempt`, events | status commands, close as no action, send and retry a reply, incoming messages | `Conversation` |
| Analysis pipeline | `SupportAnalysis`, its draft and event, the workflow | manual and automatic trigger, snapshot, mark, agent run, failure handling | `AnalysisLifecycle` |
| Thread grouping | conversation rows with `deletedAt` and `mergedIntoConversationId`, aliases, anchors, corrections | file a message, merge in two phases, move, undo, reply into a thread | `ThreadGrouping` |
| Slack ingress and pipeline | `SupportIngressEvent`, events, attachments, the inbox and debounce workflows | webhook, redelivery, dispatch, pipeline, mirror, gate, debounce | `SlackIngestion` |
| Browser SDK | ring buffer, session and user of a tab, pending queue | init, setUser, record, flush, retry, go offline, beacon, stop, destroy | `SessionCapture` |
| Session ingest and matching | `SessionRecord`, event and replay chunks, `SupportConversationSessionMatch` | ingest, look up, attach by hand | `SessionEvidence` |
| Repository index | `RepositoryIndexVersion`, chunks, sync requests | sync, index, flip, search, disconnect | `RepositoryIndex` |
| Auth and workspaces | `User`, `WorkspaceMembership`, `Session` | sign in, join, add, change, remove, switch, sign out | `WorkspaceAccess` |
| Inbox and realtime | the list a tab shows, its streams and fetches | notify, stream, poll, command, roll back | `InboxRealtime` |
| Archive and metrics, role editing | archived events, rollups, team rows | daily batches, single-row edits | not modelled |
| Summaries, profiles, installation, purge, agent service, user interfaces | see `PROJECT.json` | | not modelled |

How they interact:

- Ingress (`SlackIngestion`) files a message; under which conversation is decided
  by `ThreadGrouping`, which is the constant `Thread` of `SlackIngestion`. The
  message moves the conversation's status (`Conversation`) and, debounced,
  triggers an analysis: `DispatchesAnalysis` is where the automatic trigger of
  `AnalysisLifecycle` starts.
- An analysis creates a draft (`DraftCreates`), which is where `DraftDelivery`
  starts: its `Init` is a draft awaiting approval.
- A run of an agent team leaves `completedAt` and recommends to close;
  `Conversation` takes that as its step `RunCompletes`, and `closeAsNoAction`
  reads it.
- A reply registers an alias for the thread it was posted into
  (`ReplyAliases`), which decides where later messages of that thread go. Posted
  replies come back as events of the workspace's own bot, which `SlackIngestion`
  must not file again.
- A payload of the SDK (`SessionCapture`) is a request of `SessionEvidence`, whose
  `Request` is a payload or one of its retries. The session matched there is what
  the snapshot of `AnalysisLifecycle` attaches.
- Every commit that changes a conversation notifies `InboxRealtime`, which takes
  them all as one action, `Changes`, beside the commands of its own operator.

### What is hard, and what makes each part correct

- **Draft delivery.** A process may die between the approving commit and the
  engine call; a dismissal may race an approval; a Slack request may time out and
  still be accepted; a completion may be lost after its commit; the mark
  activities write by id what they computed from an earlier read. Correct: only
  approved drafts are posted, nothing approved is forgotten, a row that claims
  delivery is truthful, the outbox and the draft agree, Slack is asked a bounded
  number of times.
- **Agent team run.** Turns are retried after their transaction committed;
  executions of one run overlap; operators answer while it is waiting; roles wake
  each other. Correct: the approval gate holds on every path that queues an
  inbox, no wake-up is lost, a blocked role can be answered, a run reported
  completed is quiet, the message budget holds as far as overlap allows, every
  execution ends.
- **Conversation.** Status commands, deliveries in three transactions, and
  messages write the same row; a reply's row is shared by the first send and its
  retries. Correct: DONE has its evidence, IN_PROGRESS its reply, only a message
  or an operator reopens, and a message is never filed under a conversation that
  stays DONE.
- **Analysis.** The agent call outlives its heartbeat timeout, so two attempts of
  one activity run side by side and write one row by id. Correct: a draft belongs
  to a settled analysis, no event announces a draft that does not exist, the
  number of drafts is bounded, a completed workflow leaves a settled row.
- **Thread grouping.** Messages are resolved to a conversation and written later;
  merges commit twice; corrections are undone in an order of the operators'
  choosing. Correct: a merged conversation's thread leads where the conversation
  went, merge chains end in a live conversation, a message is where the last
  move still standing put it.
- **Slack ingress.** Slack redelivers what was not answered in time, the row is
  written before the workflow is started, attempts of the pipeline overlap and
  lose their completion, and a conversation is handed to a debounce workflow by
  signal or start. Correct: what Slack was told is accepted is accounted for, an
  event is filed once unless the exception is named, the workflow goes on with
  the conversation the event was filed in, a mirrored file stays, every workflow
  ends.
- **Browser SDK.** One tab changes its user, goes offline and is torn down while
  flushes are in flight. Correct: the payloads of a session name one user, no
  event is in two payloads and none is taken more often than it is tried.
- **Session ingest and matching.** Two requests create the same session at once,
  and a lookup that began before an operator attached a session ends after it.
  Correct: no flush is refused for losing that race, one match is primary, the
  operator's choice stays, and the session shown belongs to the customer unless
  somebody else is named by a message.
- **Repository index.** Attempts outlive their timeout and share a version row
  with their successor; two syncs flip at once. Correct: what is served is whole,
  a repository that was served stays served, and its health settles once the
  outcome of its sync is recorded.
- **Workspaces.** Requests act on a role read when they began; membership rows are
  soft-deleted and created by administrators and by sign-in alike. Correct: one
  live row per user and workspace, an active workspace is one the user was a
  member of, owners are not removed or demoted by others than owners, nobody
  raises themselves.
- **Inbox.** Events are lost while a connection is down, answers overtake each
  other and rollbacks restore what was shown before. Correct: no event that was
  heard is left without a fetch, and a tab that stays visible catches up.

## 2. Modules

    DraftFsm          tables of draft-state-machine.ts and draft-dispatch-state-machine.ts
    DraftDelivery     EXTENDS DraftFsm; implements ApprovedDelivery
    ApprovedDelivery  what draft delivery promises, without its machinery
    AgentTeamRun      one run with its executions, inboxes, questions, operators
    ConversationFsm   table of conversation-state-machine.ts
    Conversation      EXTENDS ConversationFsm
    AnalysisLifecycle the analyses of one conversation
    ThreadGrouping    the conversations of one Slack channel
    SlackIngestion    the events of a Slack workspace, from webhook to debounce
    SessionCapture    the browser SDK in one tab
    SessionEvidence   the server's sessions and their match with a conversation
    RepositoryIndex   syncs, versions and what is searched
    WorkspaceAccess   accounts, memberships, sessions, roles
    InboxRealtime     one tab of the inbox and what keeps it fresh
    MC<M>             values for the constants of <M>
    <M>_proofs        theorems about <M>, and, of two components each:
      Sessions_proofs   SessionCapture and SessionEvidence
      Inbox_proofs      Conversation and InboxRealtime
      Workspace_proofs  RepositoryIndex and WorkspaceAccess

A definition whose name is that of another with a suffix (`Pending_Failed`) and
whose comment starts with "Mutant" is a plausible bug, used to confirm that a run
would notice it. It is part of no specification.

The state machines are records of edges (`<<from, event, to>>`), taken from the
code and not from the headers or documents, which differ in places (section 7).

### DraftDelivery

One workflow per draft, named by it. `draft`, `dispatch` and `older` are rows
(and the order in which outbox rows were created); `starting` and `dismissing`
are web requests between two of their statements; `sweep` is the batch a running
sweep still has to visit; `wf`, `passes`, `step`, `next`, `attempt` are the
workflow and the running attempt of its current activity; `accepted` and
`inflight` are what Slack knows.

An activity is three steps: it loads (`MarkLoads`, `SendLoads`), it takes effect
(`MarkCommits`, `SlackAccepts`), and the engine learns of it
(`ActivityReturns`); between any two the attempt may be lost (`AttemptLost`).
`SendTimesOut` leaves a request on the wire which may land later.
`ReconcileFinds` and `ReconcileMisses` read one page of the thread: a reply in a
thread of `LongThread` may be beyond it.

Abstractions: a mark activity's statement does not outlive its 45 second timeout
(Slack requests do); the staleness of 120 seconds after which the sweep considers
a row is left out, a row may be swept at once; `attempts`, `lastError` and
`nextRetryAt` are not read by any guard; one sweep runs at a time, as its
schedule has it.

### AgentTeamRun

One run. A transaction is one step; `recordOperatorAnswer` is two
(`AnswerChecks`, `AnswerCommits`), `resumeRun` three (`ResumeChecks`,
`ResumeDispatches`, `ResumeFlips`). A turn's output is any member of `Output`:
the shape the schema accepts, reduced to what routing, state and questions read.
The transaction of `persistRoleTurnResult` is two steps, because it runs at READ
COMMITTED: `CountsMessages` counts the messages that are committed and admits the
turn (`PersistOverBudget` refuses it), `PersistRoleTurnResult` inserts and commits
(normalisation, routing, inboxes, questions, own state). Between the two another
execution may commit. What else the transaction reads is taken at its commit:
whether a reviewer has approved, which never becomes false again. The three-part
question id (turn, source, position) is what the code builds.

Abstractions: the order in which queued inboxes are claimed is open; `resolves`
clears all of a role's open questions or none; texts, facts, tool events and
unread counters are left out; the loss of a completion is merged with the failure
of the next attempt; `MaxExecutions` bounds executions, and a resume beyond it is
not dispatched.

### Conversation

One conversation after its first message. Ingest computes the next status from
the row it read (`IngestReads`) and commits later (`IngestCommits`). Marking a
conversation DONE on evidence (`DoneChecks`) and `closeAsNoAction` (`CloseChecks`)
check and commit (`CloseCommits`) in two steps; the other status commands write
what does not depend on their read and are one. A delivery is `SendReply` or
`RetryDelivery`, `RecordAttempt`, the request
(`SlackAccepts`, `SendFails`, `UploadsFail`), `RecordSuccess`, and `Finishes` or
`RecordFailure`; it may `Crash` anywhere.

Abstractions: the order of commits stands for timestamps (`createdAt`,
`completedAt`); assignee, `customerWaitingSince`, `staleAt` and `retryCount` of
the conversation are left out, no modelled guard reads them; escalation and the
`markStale` sweep have no caller in the code; `MaxTries` and `MaxMoves` bound
retries and status changes; senders are interchangeable (symmetry).

### AnalysisLifecycle

A row is named by the attempt of `buildThreadSnapshot` that created it: a lost
completion leaves a row nobody works on. Every attempt of `runAnalysisAgent` is a
process of its own (`step[<<w, k>>]`), since `AgentRetried` may begin the next
while the last is running. Load and write of the row are separate steps in both
`persistAnalysisResult` and `handleAnalysisFailure`.

Abstractions: capability and repository gates of the manual trigger do not change
while it runs and are left out; two ids built from the same millisecond are a
`TriggerFails`; contents of snapshot and result are left out.

### ThreadGrouping

A conversation is named by its thread: its unique key is built from it and
`softUpsert` revives an archived row before it creates one. `IngestResolves`
reads alias, merge chain or anchors; `IngestFinds` is softUpsert's search;
`IngestCommits` is the rest of the transaction. `MergeChecks`, `MergeAliases`
(phase 1) and `MergeCommits` (phase 2) are `merge`; `MoveChecks` and
`MoveCommits` are `reassignEvent`; `UndoChecks` and `UndoCommits` are
`undoCorrection`; `SessionEnds` is a request that fails or dies between two of
them, or loses the race for its idempotency key.

Abstractions: whether the window of an anchor is open, and its conversation not
DONE, is left open; so is which message of a conversation is the latest, which
`ReplyAliases` over-approximates; breadcrumb events, audit and realtime are left
out; the 24 hours of an undo are left out, an undo may always not be asked for; a
creation that meets a row created and archived since its search fails. `clock`
numbers corrections and stands for `createdAt`, so no two are equal.
`MaxFold` bounds the conversations folded by one merge.

### SlackIngestion

The events of one Slack workspace. `http[<<e, n>>]` is a delivery of `processWebhook`:
`CreatesRow` meets the unique key, `Dispatches` calls the engine, `HandlerFails`
is a 5xx or a lost answer, after which Slack delivers again. `pc[e]` is what the
workflow of the event waits for: the pipeline, the mirror, the gate, the signal or
start of the debounce workflow. `step` and `mirror` are attempts of the two
activities, which are processes because an attempt the engine has given up runs
on; `TakesAnswer` ignores answers of any but the current one. `debounce`,
`signaled` and `parent` are the workflow of a conversation: its timer, whether a
message restarted it, and the workflow it is a child of, with whose end it is
terminated (`TerminatesChild`).

Abstractions: two events may carry the same file (an edit repeats it); profile
refreshes and summaries write caches and their failure is swallowed; the order of
conversations by `updatedAt`, which a retry after the commit reads, is the set of
conversations it may be (`Latest`).

### SessionCapture

A tab and its pages. `buffer`, `session`, `user`, `on`, `recording`, `saved`
(consent), `online` are the SDK's; `sends[n]` is a payload with its chunk being
sent, the rest, and the attempt. An action is a handler up to its next await, or
an outcome of a fetch. `Flushes` takes the buffer, `ChunkIsReady` splits what is
too large, `RequestEnds` and `RequestFails` decide about retry and queue, `Beacons`
sends what is left when the SDK is destroyed or the page goes. Two parts of the
state are kept for the properties only: `blanked`, the sessions whose user a blank
`setUser` took away, and `taken`, how often the endpoint accepted a chunk.

Abstractions: an event is the number of its capture; age and size decide any
prefix; the recorder only makes payloads without events.

### SessionEvidence

Requests of the SDK against `SessionRecord`: a transaction looks for the row,
creates it, counts and stores; a conflict is tried again, `MaxTries` times in all.
A lookup reads the
conversation, asks Slack for the profile, looks for candidates and persists; an
attachment of an operator ends in the same transaction (`Demotes`, `Promotes`),
which may conflict. What messages say (`said`) is whom they name.

Abstractions: overlap and distance of times are open at every lookup; scores
within a strength of match are left out; `MaxEvents` stands for the cap of the
code on a session's events.

### RepositoryIndex

`status` of sync requests, `wf` and `try` of workflows, `built`, `active`,
`chunks`, `fileCount` of versions; attempts are processes with what they fetched
(`got`), what is left to insert, and the active versions they saw when their
transaction locked them. The catch block of the workflow is an activity with
attempts of its own: `Marks` is its update, `MarkGivesUp` the end of the workflow
when every attempt failed or was not heard of, after which one of them may still
write (`unmarked`). `Uninstalls`, `DeletesRepo` and `Connects` are the page.

Abstractions: files are not empty (the code counts an empty file and makes no
chunk of it); ranking and embeddings, chunk contents, the age of a snapshot and
the commit it is labelled with; `MaxLate` bounds the attempts that outlive their
timeout.

### WorkspaceAccess

A request is a task that reads its context (`Asks`, `FallsBack`), passes the role
gate and runs its handler statement by statement. Sign-in is a task as well.
When an administrator adds the same user between the look and the insert of
`ensureMembership`, the failed insert aborts the transaction it runs in although the
error is caught; whether the commit then throws is left to the driver, so that the
sign-in may go on or end (`JoinCreates`).
`rows` are membership rows in the order of creation, deleted ones included.

Abstractions: sessions end when somebody signs out and do not expire; API keys, rate
limits, audit events and the cookie of the OAuth state are left out; session and
membership are read at one moment.

### InboxRealtime

One tab. `wire` holds events on their way, `fetch` the calls of the list, each
with the version it read; `needs` and `loading` are the coalescing of
`requestInboxRefresh`; a command shows a guess, remembers the list it replaced and
restores it when it fails. `missing` is a history variable: the tab was told of
something no fetch has begun for.

Abstractions: the content of the list is the number of changes it shows; of the
LISTEN connection of the process only whether it is there.

## 3. Runs

| Run | Question |
|---|---|
| `draft_one` | Does delivery keep its promise with the code's retry limits, under every interleaving, and does every approved draft get its workflow? |
| `team_single` | Does one execution lose a wake-up, strand a blocked role, finish early, overrun its budget or go on for ever? |
| `team_overlap` | Does the approval gate hold when executions overlap in their turns and write a turn twice? |
| `conv_races` | Can replies, retries, closures, status commands and a message leave the conversation in a status nothing explains? |
| `analysis_attempts` | What survives overlapping agent attempts? |
| `group_corrections` | Do merges, moves and undos keep routing and messages consistent when requests die between their steps? |
| `slack_ingest` | Is every acknowledged event accounted for, filed as often as promised and where the workflow thinks it is, and does every workflow end? |
| `session_capture` | Can the payloads of a session name two users, or an event be taken more often than it is tried? |
| `session_evidence` | Do concurrent flushes, two lookups and an attachment leave one primary match, the operator's choice and the customer's session? |
| `workspace_access` | Can overlapping requests and sign-ins make two memberships, lose an owner, or raise somebody by themselves? |
| `index_syncs` | Is what is served whole, does a repository stay served, and does its health settle? |
| `inbox_tab` | Does a tab in the foreground catch up, whatever is missed, overtaken or rolled back? |

All twelve hold. Where the code does not keep what a comment or a document says,
the properties state what it does keep, and section 7 says what it does not.
`KeepsPromise` of `draft_one` is the refinement of `ApprovedDelivery`.

### Bounds, and why they are enough

- `draft_one`: the code's own limits, three attempts and one reconcile pass.
  One draft: workflows, rows and requests are per draft, and drafts meet only in
  the sweep's batch; with `SweepBatch = 1` the one draft is always in it, the
  head-of-line effect is in section 7.
- `team_single`: three roles, one of each kind the routing policy tells apart
  here, eleven kinds of turn that between them take every branch of
  normalisation, routing and state; four turns, each activity tried twice. The
  message budget is reached. `team_overlap`: three executions, because the
  overlap of turns takes three: a resume needs a waiting run, so the second
  execution begins when the first is past its turns, and only a resume whose flip
  failed after it had dispatched leaves the run waiting for the third. Two
  roles, two turns, each activity tried twice, one operator; four kinds of turn
  that between them queue a PR creator by suggestion, by message and by approval,
  or end in a question. It was checked once that two executions are about to write
  at the same time, one of them for the second time, and that `BudgetHolds` holds
  there too.
- `conv_races`: two senders and two replies, one of them file-only, so that a
  retry, a first send and another reply's row meet; one message and one closer;
  two deliveries asked of each reply; one status change by hand, enough to become
  DONE before, between or after the transactions of a delivery and of the message.
- `analysis_attempts`: the code's limits, two attempts of each activity. One
  workflow: no action of a workflow touches rows of another, they meet only in
  the trigger's check.
- `group_corrections`: three threads make a chain of two merges or one merge of
  two; four messages cover a root of two authors, an integration and an answer in
  a thread; two corrections with two keys; one session. Three corrections (of one
  secondary each) were checked once, over ten million states, with the same
  result. The proofs cover any number.

- `slack_ingest`: two events, so that both may meet one debounce workflow and
  share a file; the first with two deliveries and two attempts of the pipeline,
  the mirror with two attempts, the gate with one. A message with a
  file and its edit, or a message and the echo of the workspace's own post, or two
  messages, the second of which restarts the timer of the first.
- `session_capture`: two users, four calls of the application, two sessions, two
  payloads in flight and two attempts of each chunk; users are interchangeable.
  A user can be set, cleared, set again and taken away while a payload is
  retried.
- `session_evidence`: two requests that may create one session or two, each with an
  event and a replay chunk; two lookups and one attachment, so that one lookup may
  end before another begins or clears; two messages, the first of which may name a
  person and the second nobody; a cap of two events, two tries. Other
  requests, and one lookup with three messages, were checked once with one lookup,
  with the same result.
- `workspace_access`: three users, one of whom the domain of a workspace claims;
  four membership rows, because with three nobody who was removed could join
  again; two sessions, two requests at a time.
- `index_syncs`: two syncs with two attempts, one of which may be late: two flips
  at once, and a late attempt beside its successor. The proofs cover any number.
- `inbox_tab`: one change by others, one command, one time hidden and one fault
  anywhere. The invariant was checked once with two changes.

All runs disable the deadlock check: a system whose operators have nothing left
to ask for, and whose workflows have ended, has stopped.

### Fairness

- `DraftDelivery`: weak fairness of each workflow's steps (the engine retries
  until the limit), of the sweep's scan (it is scheduled every minute), and of
  visiting the rows of a batch; strong fairness of `SweepStarts`: starting may
  fail while the engine is away, and it does not stay away for ever. Approvals,
  dismissals and Slack's answers are not fair.
- `AgentTeamRun`: weak fairness of `ExecutionStep`. Operators are not fair.
- `AnalysisLifecycle`: weak fairness of `EngineStep`, which ends an attempt by
  timeout if it does not answer. Abandoned attempts are not fair.
- `SlackIngestion`: weak fairness of each event's workflow and its attempts
  (`InboxWorkflow`: the engine ends what does not answer) and of the debounce
  workflow's timer and dispatch. Slack's deliveries and the handlers are not fair.
- `InboxRealtime`: weak fairness of the poll timer, of answers to calls of the
  list, and of the steps of a command that was issued. Nothing is assumed of
  events and streams: `BoardCatchesUp` rests on the poll. It is conditional on
  the tab staying visible, since a hidden tab polls nothing.
- `SessionCapture`, `SessionEvidence`, `RepositoryIndex`, `WorkspaceAccess` state
  no fairness; a lost dispatch, for one, leaves a sync request pending for ever.
- `Conversation` and `ThreadGrouping` promise nothing in time: replies are sent
  by web requests that nobody repeats, and no document says otherwise.

## 4. Theorems

All theorems hold for every value of the constants that satisfies the module's
`ASSUME`s; some take a further assumption, named in the statement.

**DraftDelivery** (`DraftDelivery_proofs`). The inductive invariant `IInv` is
`TypeOK` and, for each draft, `Unopened`, `Opened`, `Loaded`, `Agree`,
`Truthful`, `NeverSendingAgain`, `Issued`. `TypeOK` and the checked invariants
are not inductive by themselves: what a mark commits was computed when it loaded
(`Loaded`); a SENT is truthful because control reaches the mark only behind an
accepted request (`Truthful`); the bound on requests holds because the second
pass finds no SENDING row (`NeverSendingAgain`), so all requests belong to the
attempts of one activity, counted by `Issued`. Proved from it:
`TypeCorrectness`, `ApprovedOnly`, `OutboxComplete`, `Truthfulness`, `Agreement`,
`BoundedRequests`, the action property `DismissalFinality`, and `Refinement`: the
specification implements `ApprovedDelivery`, each step mapping to one of its
steps or to a stutter.

**AgentTeamRun** (`AgentTeamRun_proofs`). `TypeInv` for any number of executions.
`GateInv`: before an approval a PR creator is absent from inboxes, turns, questions and
answers in progress; that all four are needed is the point, since each of them can queue
it. `BudgetInv` is about turns that were counted and not yet written: every started
execution that is not in between (`Free`) has a budget to give, and of those in between
the last to count had room for its own turn (`HasRoom`); an answer counts once. Hence
`BudgetIsKept`: a run may exceed its budget by one budget per resume, and one that was
never resumed does not. For a run before any resume (`MaxExecutions = 1`) the invariant
`Alone` says that operators wait until the execution is over, that what the snapshot has
seen is still so when the run is marked, and that question ids come in the order of
turns; from it `CompletionIsQuiet`, `BlockedCanBeAnswered`, `WakesAreKept`. With a
resume `BlockedIsAnswerable` fails (section 7); that is why the assumption is there.
`WorkRunsOut` is again for any number of executions: `Work(e)` ranks where execution `e`
stands (turns to go, activity of the turn, attempt), is bounded, falls with every step
of `e`, and does not rise with any other step, so that no wake-up, answer or resume
keeps an execution going.

**Conversation** (`Inbox_proofs`). `IInv` adds to the checked invariants
that a request past its send has posted (`SentWasPosted`), that evidence once
checked was real (`EvidenceWasPosted`), and what a reading ingress may write
(`ReadingIsOpen`). The evidence itself may be overwritten by a retry between the
check and the update, so that DONE is justified by what was posted and not by
what the attempt row says.

**AnalysisLifecycle** (`AnalysisLifecycle_proofs`). `Shape`: untouched rows before
the agent runs, attempts begun in order, settled rows behind every attempt that
has written its result. `Counts` bounds drafts by the number of attempts past
creating one and announcements by drafts, with cardinalities of sets of attempts.
`SoleWriter`: without a retry nobody is about to overwrite ANALYZED, which proves
`AloneKeepsResult` and shows that only an overlap of attempts writes FAILED over
ANALYZED. `TriesRunOut`: the attempts a workflow can still be given (`Tries`) are
bounded, fall with every step of the engine and never rise; an attempt of
`runAnalysisAgent` only goes forward (`Todo`), and none is begun twice, which rests on
`Shape`.

**ThreadGrouping** (`ThreadGrouping_proofs`). `TypeCorrect` for any number of
overlapping corrections. The other three assume `OneSession`, that corrections do
not overlap; with two sessions TLC finds counterexamples to each.
`MergedStaysRouted` rests on `MergeUnderway` (what a merge checked still holds
when it commits, because only corrections archive and replies never overwrite an
alias). `MergesAlwaysEndLive` rests on `MergesAscend`: when a merged conversation
leads to a merged one, the latter was merged later; a circle would need a
correction later than itself. `NoRing` takes the newest of the finitely or
infinitely many corrections of a circle by the well-foundedness of the naturals.
`MovesAreFollowed` rests on `MoveChain`: the standing moves of a message form a
chain in which each starts where the one before ended and the first starts where
the first move ever did; a move extends it, and `Dependents` lets an undo take
only its last link.

**SlackIngestion** (`SlackIngestion_proofs`). The invariant is `TypeInv`,
`Accounted` (a row has its workflow or the one delivery that created it), `Tries`
(no attempt runs that the workflow has not asked for), `Filing` (what an attempt
filed shows in its step and in the row), `Mirrored`, `Uploaded` and
`OwnConversation`. Filing happens in one action of twenty; rather than show for
each of the others that it keeps every part, `Onward` says once what no step
after the webhook undoes, and each part follows from it. Proved: `TypeCorrect`,
`AcknowledgedEvents`, `SingleDispatcher`, `Filed`, `RightConversation` and the
action property `MirroredFileStays`. `WaitsRunOut` is proved from types alone: every
step leaves all workflows as they are, begins one (`Begins`) or takes one forward
(`Advances`), and going forward leaves fewer attempts and waits (`Left`).

**SessionCapture** (`Sessions_proofs`). `NamesCurrent` is the strengthening of
`OneUserPerSession`: while the SDK is on, what the current session has sent names
the current user. `Placed` keeps payloads out of sessions to come, `Apart` keeps
events out of two payloads, `SendOK` counts acceptances by attempts. Every action
is first shown to be one of `Moves` (a payload goes on, or a fresh one is made of
the buffer; the session stays with its user, or a new one begins), and the
invariant follows from that. Proved: `TypeCorrect`, `OneUser`, `FewCopies`.

**SessionEvidence** (`Sessions_proofs`). Two invariants, since requests write session
rows and lookups write matches. `EvidenceInv` says of matches that what they claim was
said in a message (`Founded`), and of a lookup under way that what it has read is still
behind what it will write (`Knows`): messages are only added, so a reading stays
founded however long the lookup takes. `Early` says that while an operator's match is
shown every lookup that has not ended began before an attachment, which gives
`ManualIsKept`: what takes that match's place is another attachment or such a lookup,
in the step in which it ends.
`RetriesFind` says of a request that its second try comes after a conflict, hence
finds the row (`Tried`), which no other request removes. `FlushesAlwaysConverge`
assumes `MaxTries > 1`: with one try the loser of a race to create a session fails, as
it should; the code tries twice (`MAX_INGEST_TX_ATTEMPTS`). Proved:
`EvidenceTypeCorrect`, `FlushesAlwaysConverge`, `OnePrimaryAlways`,
`OthersAreAlwaysNamed`, and the action property `ManualAlwaysKept`.

**RepositoryIndex** (`Workspace_proofs`). `WholeInv` bounds the file count of
a version by the files whose chunks are stored, which rests on `StoredIsThere`:
what an attempt no longer has to insert is there, also after its successor has
begun on the same row. `HealthInv` needs that an attempt that works and is not
late is the one its workflow waits for (`OnlyCurrentWorks`). `HealthIsSettled` excepts
two cases, in which the row is written by nobody or too late: an attempt that
outlived its timeout, and a failure that could not be recorded (`MarkGivesUp`). Proved:
`TypeCorrect`, `ServedIsAlwaysWhole`, `HealthAlwaysSettles` and the action property
`StaysAlwaysServed`.

**WorkspaceAccess** (`Workspace_proofs`). `AccessInv` says of the rows that a user has
at most one live row in a workspace and that who has a row has an account (`RowsOK`),
of sessions that an active workspace is one the user has or had a row in
(`SessionsOK`), and of every request what it has found out and may rely on when it
writes (`TaskOK`). What it has found out may be stale: the row it read may be removed,
or given another role, in between. `Grows` says what no step undoes: a row keeps its
user and workspace, an owner's row stays as it is, nobody becomes an owner. `TaskOK` is
stated in those terms alone, so that it survives the steps of others (`Grows` is shown
once for each action), and the writes are justified by it: the row that `removeMember`
or `updateMemberRole` writes was not an owner's when read, and so is none now. The live
row is unique because inserting and reviving check the index at the write and not at
the read; `Alone` and `Held` say that a sign-in has its session row to itself until it
has written it. Proved: `AccessTypeCorrect`, `OneLiveRowAlways`, `ActiveAlwaysWasMember`
and the action properties `OwnersAlwaysStay` and `RaisedAlwaysByAnother`.

**InboxRealtime** (`Inbox_proofs`). `HeardIsAsked` is inductive together with two facts
about the hook: `DueIsAwaited`, a refresh that is owed is owed while a call of the
stream is under way, whose end issues it; and `PollLives`, a tab in the foreground
has its timer set or a fetch whose end sets it, without which `BoardCatchesUp` could
not hold. Proved: `TabTypeCorrect`, `HeardIsAlwaysAsked`, `DueIsAlwaysAwaited`,
`PollAlwaysLives`.

Assumptions on constants are stated in the modules and evaluated in the runs:
limits are positive, sets of special elements lie within their universe, names
such as `None` are not members of the sets they are used beside.

## 5. What is only model-checked

Every invariant and every action property of the runs is a theorem. Left to TLC are

- the liveness properties `ApprovedIsStarted`, `ExecutionEnds`, `WorkflowEnds`,
  `WorkflowsEnd` and `BoardCatchesUp`: the prover has no rules for fairness over
  `ENABLED`. Of `ExecutionEnds`, `WorkflowEnds` and `WorkflowsEnd` the safety half is
  proved for all values of the constants (`WorkRunsOut`, `TriesRunOut`,
  `WaitsRunOut`): the steps that fairness forces cannot go on for ever. What is left
  to TLC is that one of them is possible until the end;
- `BlockedIsAnswerable`, `CompletedIsQuiet` and `WakeIsNotLost` beyond a first resume:
  they are proved for one execution and checked there, and the first fails with two
  (section 7). The run with overlapping executions checks the gate;
- the merge and move invariants of `ThreadGrouping` for overlapping corrections, which
  fail there (section 7).

## 6. What is not modelled

`PROJECT.json` lists every component with a reason. In short: reads without state
(listings, ranking, the streams of runs and analyses), single-statement side
effects whose failure the pipeline swallows (summaries, profiles, reactions),
cryptographic checks, numerical scoring, language models (their answers are
arbitrary members of the shape callers accept), daily batches with one actor
(archive, rollup, purge), user interfaces. Temporal, Postgres and Slack are
external: every module states what it relies on.

Of modelled parts, these are left out although they could go wrong:

- The hand-over between two LISTEN connections inside a web process, and the
  timeline and analysis hooks of the conversation opened beside the list
  (section 7).
- A message that arrives while the debounce workflow dispatches its analysis
  signals a workflow that has left its loop (`support-analysis-trigger.workflow.ts:61`).
  `SlackIngestion` has the signal lost there, and promises only that workflows
  end. Likewise it terminates the debounce workflow with its parent
  (`support.workflow.ts:80`); no property says that a burst is followed by an
  analysis, since it need not be.
- Of a run after a resume the gate, the message budget and termination are stated;
  what it does to wake-ups and questions is in `AgentTeamRun` but not stated.

## 7. What the code does and its comments, documents or readers do not expect

The code's behaviour in each of these is what the modules contain, or lies in a
part a module leaves out, where that is said.

Draft delivery
- `dismissDraft` updates by id what it read earlier: a dismissal that raced an
  approval overwrites APPROVED, SENDING or SENT, states the FSM calls unreachable
  from there. `OutcomesAgree` and the theorem `DismissalFinality` say what is left.
- Nothing fires `reconcileRetry`. After a reconciliation that found nothing the row
  is still DELIVERY_UNKNOWN, the second send refuses it and the workflow fails;
  `send-draft-to-slack.workflow.ts:15` says "Not found → one retry back through
  SENDING", and so does `docs/concepts/ai-draft-generation.md:102`.
- A workflow may fail and leave its draft DELIVERY_UNKNOWN with a PENDING row:
  the sweep then starts it again only to be refused.
- An ambiguous attempt followed by a permanent error ends in SEND_FAILED without
  a reconciliation, although the header of the workflow (line 13) sends every
  ambiguous outcome to the reconciler (`send-draft-to-slack.workflow.ts:83`).
- The sweep looks at the oldest rows only: as many rows that can never start as
  the batch holds keep younger ones waiting.

Agent team run
- Turn numbers start from zero in every execution, so a question asked after a
  resume may get the id of one that was answered before it; it is hidden and its
  role stays blocked. `resume-run.ts:92` says this "won't happen because ids are
  deterministic per turnIndex".
- `resumeRun` flips the row to running after it has started the execution, whose
  end it may overwrite (`resume-run.ts:230-233`).
- The message budget is counted and then used at READ COMMITTED: overlapping
  executions may each add what the other has not seen, so a run that was resumed can
  exceed it (`agent-team-run.activity.ts:320`); `BudgetHolds` says by how much.
- Two answers to one question, checked before either is written, are both
  written. A run may wait with no question left to answer.
- The per-role turn cap and the documented stop at the budget are not enforced
  as described: the constant is not read, and the turn that exhausts the budget is
  reported as a failure even when it finished the work.
- A message that asks a human and a resolution that asks the same open two
  questions.

Conversation
- `closeAsNoAction` reads, checks and updates by id at READ COMMITTED: a customer
  message that commits in between is closed over. `close-as-no-action.ts:26`:
  "Both timestamps are read inside the transaction so the check can't go stale
  between read and write."
- Attempt numbers run through the conversation, so a transient failure of a later
  reply may get fewer than three tries; `nextRetryAt` is written and never read.
- Permanent failures become FAILED, where the header says DEAD_LETTERED.
- A realtime notification that fails after the success was recorded turns
  SUCCEEDED into a failure; `retryDelivery` then, or of a SUCCEEDED row, posts
  again.
- Header and document of the state machine differ from its table: a customer
  message leaves IN_PROGRESS as it is; `analysisEscalated` leads from UNREAD to
  IN_PROGRESS, documented as to STALE.

Analysis
- An attempt of the agent activity that fails after another one has settled the row
  writes FAILED over ANALYZED by id, and the draft stays AWAITING_APPROVAL.
  `support-analysis.activity.ts:417`: "Route failure through the state machine so
  we can't accidentally mark a terminal (ANALYZED) row as FAILED." The activity
  heartbeats before and after a call of minutes, with a heartbeat timeout of 45
  seconds.
- The automatic trigger asks for none of the documented gates; the manual one
  asks before it dispatches, so two analyses may be in progress
  (`support-analysis-trigger.activity.ts:88`).
- A failed `persistDraft` leaves ANALYZED without a draft; a workflow that failed
  leaves its row in progress, which blocks the manual trigger.
- The workflow id and the checks for a cancelled or archived conversation differ
  from the document.

Thread grouping
- The timeline of a primary looks for merged children through the extension that
  hides archived rows, and merged children are archived
  (`support-projection-service.ts:249`; `CHANGELOG.md:156`: "Merged conversations now
  show the full combined timeline"). The query itself is not modelled.
- A message resolved before the first phase of a merge and written after the second
  revives the archived conversation, `mergedIntoConversationId` still set
  (`soft-delete-helpers.ts:63`; `CHANGELOG.md:162`: "a two-phase commit that closes the
  ingress race").
- Two overlapping merges in opposite directions archive both conversations in a
  circle; of two overlapping moves of a message the undo of the second brings it
  to where neither left it.
- A merge that fails after phase 1 leaves an alias that leads the messages of a
  live conversation away from it.
- Undoing a merge of several conversations restores the first only.
- A message of an integration in the thread of a merged conversation revives it,
  with `mergedIntoConversationId` set.
- A reply to a message that was moved aliases the whole thread it came from
  (`reply.ts:528`), which the comment of `reassignEvent` says does not happen.
- More than five merges in a row, all legal, exceed the bound of the alias lookup.
- The comment of `merge` has phase 2 check workspace and channel; only the
  pre-flight does.

Slack ingress
- A webhook whose dispatch failed is acknowledged as idempotent when it is
  redelivered, and nobody processes the event (`support-ingress-service.ts:183`);
  `AckedIsAccountedFor` names the case. `docs/concepts/slack-ingestion.md:137`: "Workflow
  retried via Temporal's own idempotency".
- A retry of the pipeline after its commit answers with the conversation that
  changed last in the installation; `OwnConversation` names the case.
- The debounce workflow is a child with the default parent-close policy: it is
  terminated when the inbox workflow that started it returns.
- An overlapping attempt of the mirror sets an uploaded file back to failed.

Browser SDK
- What was collected offline is held in memory and dropped when the page goes or
  the SDK is destroyed (`transport.ts:248`); `docs/concepts/session-replay-capture.md`
  describes "memory + localStorage, drain on reconnect".
- The comment in `capture.ts:300` says the SDK skips its own warnings; `warnLog` goes
  through `console.warn`, which the capture has patched.
- A blank `setUser` between two users keeps the session, which then names both;
  what was buffered under one user is sent under the next.
- Events captured while recording is off are sent once it is on; the last flush of
  `stopRecording` sends nothing; `trackActivity` has no caller.

Session evidence
- A match by an address scraped from a message becomes certain once a later message
  has none (`support.activity.ts:283`); `docs/concepts/session-replay-capture.md:173`
  keeps such matches apart. `OthersAreNamed` says exactly what is left.
- `hasReplayData` is set although the cap drops the chunk; attaching by hand ignores
  that a session was deleted; no code writes the external user id or the email of a
  customer into event details, from which they are read.
- The router and the digest correlate by a logic of their own, so the page and the
  analysis may show different sessions.

Workspaces
- A removed member cannot be added again: `addMember` finds the deleted row with
  `findUnique`, which passes the filter, and answers CONFLICT
  (`workspace-membership-service.ts:160`). `packages/database/src/soft-delete.ts:79`:
  "Partial unique indexes (WHERE deletedAt IS NULL) already guarantee that findUnique
  only returns active records"; the migration means to "allow re-adding removed
  members" (`20260403000000_soft_delete/migration.sql:26`). A removed member whose
  domain is claimed returns by signing in.
- An administrator may remove a member who was promoted meanwhile; sessions are not
  "refreshed on activity"; `docs/conventions/spec-soft-delete-strategy.md:383` describes
  behaviour the code does not have.

Repository index
- A sync request whose dispatch failed stays pending for ever. So does one, pending or
  running, whose workflow failed and could not record it: `markSyncRequestFailed` is
  tried three times, and the repository then reports "syncing" until the next sync.
- Two syncs that flip at once leave two active versions; readers take the one
  activated last, which may be the older sync's.
- A retried attempt inserts beside its predecessor, so chunks may be double; files
  whose download failed are dropped, and a partial snapshot becomes active.
- A completion lost after the flip marks the version failed while it is served.
- The agent's search takes every version with status active, which the flip never
  clears: superseded snapshots, repositories that are not selected and unhealthy ones
  are searched (`workspace-code-search.ts:29`); `docs/concepts/codex-search.md:51` says
  "the agent searches across all selected repos", line 61 "Search refuses to run
  against repos with status !== ready".

Inbox
- A late "end" of an old LISTEN client clears the reference to the new one: the next
  stream opens a second client and every event is sent twice.
  `support-realtime-service.ts:127`: "One listener per web process is enough". Not
  modelled.
- An answer for one conversation that arrives after the operator switched to another
  shows the wrong timeline until the next event, in `useConversationPolling`,
  `useSupportInbox` and `useAnalysis`. Not modelled.
- Events between the first fetch of the list and the stream's connection are missed
  until the poll a minute later; a failed command restores the whole previous list,
  what others changed meanwhile included.

## 8. Plan

Every component with a module in the table of section 1 has an instance and
properties, and theorems for its invariants and action properties. Left, in this order:

1. Compositions: `AnalysisLifecycle` with `DraftDelivery` (a draft in delivery belongs
   to a settled analysis), `ThreadGrouping` with `Conversation` (a message in a
   revived conversation leaves it UNREAD).
2. `AgentTeamRun` after resumes: the properties that survive them.
3. `EventArchive`: no event is deleted before its upload.
4. The hand-over of the LISTEN connection, and the hooks of an opened conversation.
5. A refinement of `ThreadGrouping` to an abstract map from threads to conversations.
