----------------------------- MODULE SlackIngestion -----------------------------
(***************************************************************************)
(* One Slack event from the webhook to its side effects: processWebhook,   *)
(* supportInboxWorkflow with runSupportPipeline, mirrorSupportAttachment   *)
(* and shouldAutoTrigger, and the debounce workflow of a conversation.     *)
(*                                                                         *)
(* The interleaving unit is one statement, one transaction, one request to *)
(* Slack or one call of the workflow engine.  An activity attempt that the *)
(* engine has given up may run on beside its successor, so attempts are    *)
(* processes; one that dies stops taking steps.                            *)
(*                                                                         *)
(* Which conversation a message joins is ThreadGrouping's subject and the  *)
(* constant Thread here.  Left out: message text, the profile refresh and  *)
(* the start of the summary workflow, which write caches and whose failure *)
(* is swallowed, and the signature check, which refuses a request before   *)
(* anything is read.                                                       *)
(***************************************************************************)
EXTENDS Naturals, FiniteSets

CONSTANTS
  Event,             \* Slack events, each with its canonicalIdempotencyKey
  Conversation,
  User, BotUser,     \* Slack users; installation.botUserId, or Nobody
  File,              \* provider file ids
  Thread,            \* the conversation each event resolves to
  Existing,          \* conversations the installation has at the start
  Payloads,          \* the assignments of payloads to events that are looked at
  Nobody, NoFile, NoConversation, NoEvent,
  MaxDeliveries,     \* deliveries Slack makes of each event
  PipelineAttempts,  \* maximumAttempts of its runSupportPipeline
  GateAttempts, MirrorAttempts  \* maximumAttempts of the other activities

ASSUME ThreadAssumption ==
  /\ Thread \in [Event -> Conversation]
  /\ Existing \subseteq Conversation
  /\ NoConversation \notin Conversation
  /\ NoFile \notin File
  /\ NoEvent \notin Event
ASSUME BoundsAssumption ==
  /\ MaxDeliveries \in [Event -> Nat \ {0}]
  /\ PipelineAttempts \in [Event -> Nat \ {0}]
  /\ {GateAttempts, MirrorAttempts} \subseteq Nat \ {0}

VARIABLES
  payload,   \* rawPayloadJson of each event, as far as the code looks at it
  http,      \* progress of each delivery of an event through processWebhook
  row,       \* processingState of its SupportIngressEvent
  filed,     \* attempts that wrote a MESSAGE_RECEIVED event for it
  files,     \* uploadState of the attachment row with a provider file id
  pc,        \* what supportInboxWorkflow waits for
  try,       \* the current attempt of that activity
  answer,    \* what runSupportPipeline returned to the workflow
  step,      \* progress of each attempt of runSupportPipeline
  mirror,    \* progress of each attempt of mirrorSupportAttachment
  debounce,  \* the debounce workflow of each conversation
  signaled,  \* whether a signal waits for it
  parent     \* the workflow that started it

rowVars == <<row, filed, files>>
engineVars == <<pc, try, answer>>
attemptVars == <<step, mirror>>
debounceVars == <<debounce, signaled, parent>>
vars == <<payload, http, rowVars, engineVars, attemptVars, debounceVars>>

Subtypes == { "none", "noise", "message_changed", "bot_message" }
Payload == [subtype : Subtypes, bot : BOOLEAN, user : User \cup {Nobody}, file : File \cup {NoFile}]
ASSUME PayloadsAssumption == Payloads \subseteq [Event -> Payload]

(***************************************************************************)
(* normalizeSlackMessageEvent and shouldDropIngressEvent.                  *)
(***************************************************************************)

RoleOf(p) ==
  CASE p.subtype = "noise" -> "SYSTEM"
    [] p.subtype = "message_changed" -> IF p.file # NoFile /\ p.user # Nobody THEN "CUSTOMER" ELSE "SYSTEM"
    [] p.subtype = "bot_message" \/ (p.subtype = "none" /\ p.bot) -> "BOT"
    [] OTHER -> IF p.user = Nobody THEN "SYSTEM" ELSE "CUSTOMER"

IsOurEcho(p) == BotUser = Nobody \/ p.user = Nobody \/ p.user = BotUser

Drops(e) ==
  \/ RoleOf(payload[e]) = "SYSTEM"
  \/ RoleOf(payload[e]) = "BOT" /\ IsOurEcho(payload[e])

FileOf(e) == payload[e].file
HasFile(e) == payload[e].file # NoFile

Delivery == UNION { {e} \X (1..MaxDeliveries[e]) : e \in Event }
PipelineRun == UNION { {e} \X (1..PipelineAttempts[e]) : e \in Event }
MirrorRun == Event \X (1..MirrorAttempts)
Waits == { "pipeline", "mirror", "gate", "signal", "start", "resignal" }
Closed == { "completed", "failed" }
NoAnswer == [conversation |-> NoConversation, by |-> 0]
TypeOK ==
  /\ payload \in [Event -> Payload]
  /\ http \in [Delivery -> {"none", "fresh", "created", "acked", "refused", "stranded"}]
  /\ row \in [Event -> {"none", "RECEIVED", "PROCESSED"}]
  /\ filed \in [Event -> SUBSET (Nat \ {0})]
  /\ \A e \in Event : filed[e] \subseteq 1..PipelineAttempts[e]
  /\ files \in [File -> {"none", "PENDING", "UPLOADED", "FAILED"}]
  /\ pc \in [Event -> Waits \cup Closed \cup {"none"}]
  /\ try \in [Event -> Nat \ {0}]
  /\ \A e \in Event :
       /\ pc[e] = "pipeline" => try[e] <= PipelineAttempts[e]
       /\ pc[e] = "mirror" => try[e] <= MirrorAttempts /\ HasFile(e)
  /\ answer \in [Event -> [conversation : Conversation \cup {NoConversation}, by : Nat]]
  /\ step \in [PipelineRun -> {"none", "begun", "loaded", "committed", "over"}]
  /\ mirror \in [MirrorRun -> {"none", "begun", "loaded", "over"}]
  /\ debounce \in [Conversation -> {"none", "waiting", "dispatching"}]
  /\ signaled \in [Conversation -> BOOLEAN]
  /\ parent \in [Conversation -> Event \cup {NoEvent}]

Init ==
  /\ payload \in Payloads
  /\ http = [d \in Delivery |-> "none"]
  /\ row = [e \in Event |-> "none"]
  /\ filed = [e \in Event |-> {}]
  /\ files = [f \in File |-> "none"]
  /\ pc = [e \in Event |-> "none"]
  /\ try = [e \in Event |-> 1]
  /\ answer = [e \in Event |-> NoAnswer]
  /\ step = [t \in PipelineRun |-> "none"]
  /\ mirror = [t \in MirrorRun |-> "none"]
  /\ debounce = [c \in Conversation |-> "none"]
  /\ signaled = [c \in Conversation |-> FALSE]
  /\ parent = [c \in Conversation |-> NoEvent]

(***************************************************************************)
(* processWebhook.  Slack delivers an event again until a delivery is      *)
(* acknowledged, without waiting for the end of a slow one.                *)
(***************************************************************************)

Slack == UNCHANGED <<payload, row, filed, files, engineVars, attemptVars, debounceVars>>

\* A known key is acknowledged whatever became of it.
Delivers(e, n) ==
  /\ http[<<e, n>>] = "none"
  /\ n > 1 => http[<<e, n - 1>>] \notin {"none", "acked"}
  /\ \/ http' = [http EXCEPT ![<<e, n>>] = IF row[e] = "none" THEN "fresh" ELSE "acked"]
     \/ http' = [http EXCEPT ![<<e, n>>] = "refused"]  \* a statement fails
  /\ Slack

\* canonicalIdempotencyKey is unique: of two deliveries one fails.
CreatesRow(e, n) ==
  /\ http[<<e, n>>] = "fresh"
  /\ IF row[e] = "none"
     THEN row' = [row EXCEPT ![e] = "RECEIVED"] /\ http' = [http EXCEPT ![<<e, n>>] = "created"]
     ELSE row' = row /\ http' = [http EXCEPT ![<<e, n>>] = "refused"]
  /\ UNCHANGED <<payload, filed, files, engineVars, attemptVars, debounceVars>>

StartsWorkflow(e) ==
  /\ pc' = [pc EXCEPT ![e] = IF @ = "none" THEN "pipeline" ELSE @]
  /\ step' = [step EXCEPT ![<<e, 1>>] = IF @ = "none" THEN "begun" ELSE @]

\* The answer of the engine may be lost after it has started the workflow.
Dispatches(e, n) ==
  /\ http[<<e, n>>] = "created"
  /\ StartsWorkflow(e)
  /\ \E outcome \in {"acked", "stranded"} : http' = [http EXCEPT ![<<e, n>>] = outcome]
  /\ UNCHANGED <<payload, rowVars, try, answer, mirror, debounceVars>>

\* Mutant: the failed dispatch is swallowed.
HandlerFails_Acks(e, n) ==
  /\ http[<<e, n>>] \in {"fresh", "created"}
  /\ http' = [http EXCEPT ![<<e, n>>] = IF @ = "created" THEN "acked" ELSE "refused"]
  /\ Slack

\* The engine cannot be reached, a statement fails or the process dies.
HandlerFails(e, n) ==
  /\ http[<<e, n>>] \in {"fresh", "created"}
  /\ http' = [http EXCEPT ![<<e, n>>] = IF @ = "created" THEN "stranded" ELSE "refused"]
  /\ Slack

(***************************************************************************)
(* supportInboxWorkflow: the activities it waits for, as the engine runs   *)
(* them.                                                                   *)
(***************************************************************************)

\* pc and try when the workflow goes on to wait for w.
GoesTo(e, w) ==
  /\ pc' = [pc EXCEPT ![e] = w]
  /\ try' = [try EXCEPT ![e] = IF w = "completed" \/ w = "failed" THEN @ ELSE 1]

AfterMirror(e) == IF answer[e].conversation = NoConversation THEN "completed" ELSE "gate"

IsCurrent(e, n, w) == pc[e] = w /\ try[e] = n

(***************************************************************************)
(* runSupportPipeline.                                                     *)
(***************************************************************************)

\* The workflow takes the answer of the attempt it waits for.
TakesAnswer(e, n, a) ==
  IF ~IsCurrent(e, n, "pipeline")
  THEN UNCHANGED <<engineVars, mirror>>
  ELSE /\ answer' = [answer EXCEPT ![e] = a]
       /\ IF a.by # 0 /\ HasFile(e) /\ files[FileOf(e)] = "PENDING"
          THEN GoesTo(e, "mirror") /\ mirror' = [mirror EXCEPT ![<<e, 1>>] = "begun"]
          ELSE /\ GoesTo(e, IF a.conversation = NoConversation THEN "completed" ELSE "gate")
               /\ mirror' = mirror

FiledIn(c) == { e \in Event : Thread[e] = c /\ filed[e] # {} }
Known == Existing \cup { c \in Conversation : FiledIn(c) # {} }

\* The conversation of the installation that was updated last: any one, as
\* commands, replies and corrections update them all the time.
Latest == IF Known = {} THEN {NoConversation} ELSE Known

\* An event that is processed already is answered with the latest
\* conversation, and without its attachment.
LoadsEvent(e, n) ==
  /\ step[<<e, n>>] = "begun"
  /\ IF row[e] = "PROCESSED"
     THEN /\ step' = [step EXCEPT ![<<e, n>>] = "over"]
          /\ \E c \in Latest : TakesAnswer(e, n, [conversation |-> c, by |-> 0])
     ELSE /\ step' = [step EXCEPT ![<<e, n>>] = "loaded"]
          /\ UNCHANGED <<engineVars, mirror>>
  /\ UNCHANGED <<payload, http, rowVars, debounceVars>>

DropsEvent(e, n) ==
  /\ step[<<e, n>>] = "loaded"
  /\ Drops(e)
  /\ row' = [row EXCEPT ![e] = "PROCESSED"]
  /\ step' = [step EXCEPT ![<<e, n>>] = "over"]
  /\ TakesAnswer(e, n, NoAnswer)
  /\ UNCHANGED <<payload, http, filed, files, debounceVars>>

\* Mutant: the row is not part of the transaction.
FilesEvent_RowLeft(e, n) ==
  /\ step[<<e, n>>] = "loaded"
  /\ ~Drops(e)
  /\ IF HasFile(e)
     THEN files[FileOf(e)] = "none" /\ files' = [files EXCEPT ![FileOf(e)] = "PENDING"]
     ELSE files' = files
  /\ filed' = [filed EXCEPT ![e] = @ \cup {n}]
  /\ row' = row
  /\ step' = [step EXCEPT ![<<e, n>>] = "committed"]
  /\ UNCHANGED <<payload, http, engineVars, mirror, debounceVars>>

\* Mutant: an attachment that is there is created anew.
FilesEvent_Upserts(e, n) ==
  /\ step[<<e, n>>] = "loaded"
  /\ ~Drops(e)
  /\ files' = [f \in File |-> IF f = FileOf(e) THEN "PENDING" ELSE files[f]]
  /\ filed' = [filed EXCEPT ![e] = @ \cup {n}]
  /\ row' = [row EXCEPT ![e] = "PROCESSED"]
  /\ step' = [step EXCEPT ![<<e, n>>] = "committed"]
  /\ UNCHANGED <<payload, http, engineVars, mirror, debounceVars>>

\* The transaction.  The provider file id of an attachment is unique, so it
\* cannot commit a file that is there already; a file that is too large is
\* recorded as FAILED.
FilesEvent(e, n) ==
  /\ step[<<e, n>>] = "loaded"
  /\ ~Drops(e)
  /\ IF HasFile(e)
     THEN /\ files[FileOf(e)] = "none"
          /\ \E state \in {"PENDING", "FAILED"} : files' = [files EXCEPT ![FileOf(e)] = state]
     ELSE files' = files
  /\ filed' = [filed EXCEPT ![e] = @ \cup {n}]
  /\ row' = [row EXCEPT ![e] = "PROCESSED"]
  /\ step' = [step EXCEPT ![<<e, n>>] = "committed"]
  /\ UNCHANGED <<payload, http, engineVars, mirror, debounceVars>>

\* Mutant: the conversation is looked up again after the commit.
EmitsChange_LooksUp(e, n) ==
  /\ step[<<e, n>>] = "committed"
  /\ step' = [step EXCEPT ![<<e, n>>] = "over"]
  /\ \E c \in Latest : TakesAnswer(e, n, [conversation |-> c, by |-> n])
  /\ UNCHANGED <<payload, http, rowVars, debounceVars>>

\* emitConversationChanged and the return.
EmitsChange(e, n) ==
  /\ step[<<e, n>>] = "committed"
  /\ step' = [step EXCEPT ![<<e, n>>] = "over"]
  /\ TakesAnswer(e, n, [conversation |-> Thread[e], by |-> n])
  /\ UNCHANGED <<payload, http, rowVars, debounceVars>>

\* Mutant: no maximumAttempts.
RetriesPipeline_Unlimited(e) == UNCHANGED <<try, pc>>

\* The engine's next attempt, or the end of the workflow.
RetriesPipeline(e) ==
  IF try[e] < PipelineAttempts[e]
  THEN /\ try' = [try EXCEPT ![e] = @ + 1]
       /\ pc' = pc
  ELSE GoesTo(e, "failed")

NextBegins(e) == IF try[e] < PipelineAttempts[e] THEN {<<e, try[e] + 1>>} ELSE {}

\* A statement fails, the transaction conflicts or the notification throws.
PipelineFails(e, n) ==
  /\ step[<<e, n>>] \in {"begun", "loaded", "committed"}
  /\ IF IsCurrent(e, n, "pipeline")
     THEN /\ RetriesPipeline(e)
          /\ step' = [t \in PipelineRun |->
                        IF t = <<e, n>> THEN "over" ELSE IF t \in NextBegins(e) THEN "begun" ELSE step[t]]
     ELSE step' = [step EXCEPT ![<<e, n>>] = "over"] /\ UNCHANGED <<pc, try>>
  /\ UNCHANGED <<payload, http, rowVars, answer, mirror, debounceVars>>

\* No completion within the minute: the attempt may still be running.
PipelineTimesOut(e) ==
  /\ pc[e] = "pipeline"
  /\ RetriesPipeline(e)
  /\ step' = [t \in PipelineRun |-> IF t \in NextBegins(e) THEN "begun" ELSE step[t]]
  /\ UNCHANGED <<payload, http, rowVars, answer, mirror, debounceVars>>

(***************************************************************************)
(* mirrorSupportAttachment.  Its failure is logged and the workflow goes   *)
(* on.                                                                     *)
(***************************************************************************)

MirrorVars == UNCHANGED <<payload, http, row, filed, answer, step, debounceVars>>

MirrorDone(e, n) ==
  IF IsCurrent(e, n, "mirror") THEN GoesTo(e, AfterMirror(e)) ELSE UNCHANGED <<pc, try>>

LoadsAttachment(e, n) ==
  /\ mirror[<<e, n>>] = "begun"
  /\ IF files[FileOf(e)] = "UPLOADED"
     THEN mirror' = [mirror EXCEPT ![<<e, n>>] = "over"] /\ MirrorDone(e, n)
     ELSE mirror' = [mirror EXCEPT ![<<e, n>>] = "loaded"] /\ UNCHANGED <<pc, try>>
  /\ files' = files
  /\ MirrorVars

\* store, or markFailed for an error that is permanent: both by id alone.
SettlesAttachment(e, n) ==
  /\ mirror[<<e, n>>] = "loaded"
  /\ \E state \in {"UPLOADED", "FAILED"} : files' = [files EXCEPT ![FileOf(e)] = state]
  /\ mirror' = [mirror EXCEPT ![<<e, n>>] = "over"]
  /\ MirrorDone(e, n)
  /\ MirrorVars

RetriesMirror(e, ended) ==
  LET next == IF try[e] < MirrorAttempts THEN {<<e, try[e] + 1>>} ELSE {} IN
  /\ mirror' = [t \in MirrorRun |-> IF t \in ended THEN "over" ELSE IF t \in next THEN "begun" ELSE mirror[t]]
  /\ IF next # {} THEN try' = [try EXCEPT ![e] = @ + 1] /\ pc' = pc ELSE GoesTo(e, AfterMirror(e))

\* A transient error is thrown and leaves the row PENDING.
MirrorFails(e, n) ==
  /\ mirror[<<e, n>>] \in {"begun", "loaded"}
  /\ IF IsCurrent(e, n, "mirror")
     THEN RetriesMirror(e, {<<e, n>>})
     ELSE mirror' = [mirror EXCEPT ![<<e, n>>] = "over"] /\ UNCHANGED <<pc, try>>
  /\ files' = files
  /\ MirrorVars

MirrorTimesOut(e) ==
  /\ pc[e] = "mirror"
  /\ RetriesMirror(e, {})
  /\ files' = files
  /\ MirrorVars

(***************************************************************************)
(* The gate, the debounce workflow and its start by a message's workflow.  *)
(***************************************************************************)

Engine == UNCHANGED <<payload, http, rowVars, answer, attemptVars>>

\* shouldAutoTrigger: the workspace's mode may be changed at any time.
ReadsMode(e) ==
  /\ pc[e] = "gate"
  /\ \E isAuto \in BOOLEAN : GoesTo(e, IF isAuto THEN "signal" ELSE "completed")
  /\ UNCHANGED debounceVars
  /\ Engine

\* Its failure is not caught.
GateFails(e) ==
  /\ pc[e] = "gate"
  /\ IF try[e] < GateAttempts
     THEN try' = [try EXCEPT ![e] = @ + 1] /\ pc' = pc
     ELSE GoesTo(e, "failed")
  /\ UNCHANGED debounceVars
  /\ Engine

IsOpen(c) == debounce[c] # "none"

SignalsDebounce(e) ==
  /\ pc[e] \in {"signal", "resignal"}
  /\ LET c == answer[e].conversation IN
     IF IsOpen(c)
     THEN signaled' = [signaled EXCEPT ![c] = TRUE] /\ GoesTo(e, "completed")
     ELSE signaled' = signaled /\ GoesTo(e, IF pc[e] = "signal" THEN "start" ELSE "completed")
  /\ UNCHANGED <<debounce, parent>>
  /\ Engine

StartsDebounce(e) ==
  /\ pc[e] = "start"
  /\ LET c == answer[e].conversation IN
     IF IsOpen(c)
     THEN UNCHANGED debounceVars /\ GoesTo(e, "resignal")
     ELSE /\ debounce' = [debounce EXCEPT ![c] = "waiting"]
          /\ parent' = [parent EXCEPT ![c] = e]
          /\ signaled' = signaled
          /\ GoesTo(e, "completed")
  /\ Engine

DebounceOnly == UNCHANGED <<payload, http, rowVars, engineVars, attemptVars>>

ResetsTimer(c) ==
  /\ debounce[c] = "waiting" /\ signaled[c]
  /\ signaled' = [signaled EXCEPT ![c] = FALSE]
  /\ UNCHANGED <<debounce, parent>>
  /\ DebounceOnly

TimerExpires(c) ==
  /\ debounce[c] = "waiting" /\ ~signaled[c]
  /\ debounce' = [debounce EXCEPT ![c] = "dispatching"]
  /\ UNCHANGED <<signaled, parent>>
  /\ DebounceOnly

Closes(c) ==
  /\ debounce' = [debounce EXCEPT ![c] = "none"]
  /\ signaled' = [signaled EXCEPT ![c] = FALSE]
  /\ parent' = [parent EXCEPT ![c] = NoEvent]
  /\ DebounceOnly

\* dispatchAnalysis has returned or failed; what it starts is AnalysisLifecycle's subject.
DispatchesAnalysis(c) ==
  /\ debounce[c] = "dispatching"
  /\ Closes(c)

\* startChild gives no parentClosePolicy: the engine terminates the child
\* of a workflow that has closed.
TerminatesChild(c) ==
  /\ IsOpen(c) /\ pc[parent[c]] \in Closed
  /\ Closes(c)

-----------------------------------------------------------------------------

Webhook(e, n) ==
  Delivers(e, n) \/ CreatesRow(e, n) \/ Dispatches(e, n) \/ HandlerFails(e, n)
Pipeline(e, n) ==
  LoadsEvent(e, n) \/ DropsEvent(e, n) \/ FilesEvent(e, n) \/ EmitsChange(e, n) \/ PipelineFails(e, n)
Mirror(e, n) == LoadsAttachment(e, n) \/ SettlesAttachment(e, n) \/ MirrorFails(e, n)
InboxWorkflow(e) ==
  \/ PipelineTimesOut(e) \/ MirrorTimesOut(e)
  \/ ReadsMode(e) \/ GateFails(e) \/ SignalsDebounce(e) \/ StartsDebounce(e)
Debounce(c) == ResetsTimer(c) \/ TimerExpires(c) \/ DispatchesAnalysis(c) \/ TerminatesChild(c)

Next ==
  \/ \E e \in Event : \E n \in 1..MaxDeliveries[e] : Webhook(e, n)
  \/ \E e \in Event : \E n \in 1..PipelineAttempts[e] : Pipeline(e, n)
  \/ \E e \in Event, n \in 1..MirrorAttempts : Mirror(e, n)
  \/ \E e \in Event : InboxWorkflow(e)
  \/ \E c \in Conversation : Debounce(c)

Spec == Init /\ [][Next]_vars

\* The engine's timers fire and its calls are answered; an attempt may stop
\* for good, Slack and the operators need do nothing.
FairSpec ==
  /\ Spec
  /\ \A e \in Event : WF_vars(InboxWorkflow(e))
  /\ \A c \in Conversation : WF_vars(TimerExpires(c) \/ ResetsTimer(c) \/ DispatchesAnalysis(c))

(***************************************************************************)
(* Properties                                                              *)
(***************************************************************************)

Retried(e) == \E n \in 2..PipelineAttempts[e] : step[<<e, n>>] # "none"

\* An event Slack was told is accepted has its workflow, unless the delivery
\* that created the row has not dispatched yet or was stranded between the
\* two: a redelivery never makes up for it (processWebhook).
AckedIsAccountedFor ==
  \A e \in Event :
    (\E n \in 1..MaxDeliveries[e] : http[<<e, n>>] = "acked") =>
      \/ pc[e] # "none"
      \/ \E n \in 1..MaxDeliveries[e] : http[<<e, n>>] \in {"created", "stranded"}

\* At most one delivery of an event gets past the unique key, however the
\* deliveries overlap.
OneDispatcher ==
  \A e \in Event : \A m, n \in 1..MaxDeliveries[e] :
    http[<<e, m>>] \in {"created", "stranded"} /\ http[<<e, n>>] \in {"created", "stranded"} => m = n

\* A row is PROCESSED exactly when the event is on the timeline or was
\* dropped; an event without a retry is there once, and one with a file is
\* there once however its attempts overlap (runSupportPipeline).
FiledAsPromised ==
  \A e \in Event :
    /\ row[e] = "PROCESSED" => (Drops(e) <=> filed[e] = {})
    /\ filed[e] # {} => row[e] = "PROCESSED"
    /\ \A m, n \in filed[e] : m # n => Retried(e) /\ ~HasFile(e)

\* The workflow goes on with another conversation than the one the event was
\* filed in only if an attempt that had committed was retried.
OwnConversation ==
  \A e \in Event :
    /\ answer[e].by # 0 => answer[e].conversation = Thread[e] /\ answer[e].by \in filed[e]
    /\ ~Retried(e) /\ answer[e].conversation # NoConversation => answer[e].by # 0

\* A mirrored file is lost from view only by an overlapping attempt.
UploadedStays ==
  [][\A f \in File : files[f] = "UPLOADED" /\ files'[f] # "UPLOADED" =>
       \E e \in Event : FileOf(e) = f /\ \E n \in 2..MirrorAttempts : mirror[<<e, n>>] # "none"]_vars

\* However its activities hang, the workflow of an event ends.
WorkflowsEnd == \A e \in Event : pc[e] # "none" ~> pc[e] \in Closed

=============================================================================
