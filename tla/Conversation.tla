----------------------------- MODULE Conversation -----------------------------
(***************************************************************************)
(* One support conversation after its first message: messages that Slack   *)
(* ingress files under it, replies operators send and retry, and the       *)
(* status commands, all of which write the same row.                       *)
(*                                                                         *)
(* The interleaving unit is one database transaction or one Slack request. *)
(* A transaction that computes what it writes from what it read is two     *)
(* steps: the transactions run at READ COMMITTED and lock nothing before   *)
(* their update.  Where the write does not depend on the read it is one.   *)
(*                                                                         *)
(* Left out because no guard reads it: the assignee, customerWaitingSince, *)
(* staleAt and the other stamps of the row, texts, and the events other    *)
(* than those that explain a status.  The escalation of a failed analysis  *)
(* is left out because nothing in the code can reach it.                   *)
(***************************************************************************)
EXTENDS Naturals, FiniteSets, ConversationFsm

CONSTANTS
  Message,   \* Slack messages still to come into the conversation's thread
  Customer,  \* those written by the customer
  Reply,     \* replies operators send, each one delivery attempt row
  FileOnly,  \* those without text
  NoReply,
  Sender,    \* web requests that may be delivering at a time
  Closer,    \* web requests that may be closing the conversation at a time
  MaxTries,  \* bound on the deliveries requested of one reply
  MaxMoves   \* bound on STATUS_CHANGED events

ASSUME CustomerAssumption == Customer \subseteq Message
ASSUME ReplyAssumption == FileOnly \subseteq Reply /\ NoReply \notin Reply
ASSUME BoundsAssumption == MaxTries \in Nat /\ MaxMoves \in Nat

VARIABLES
  status,    \* SupportConversation.status
  ingested,  \* messages with a MESSAGE_RECEIVED event
  reading,   \* status a running ingress transaction is going to write
  moves,     \* number of STATUS_CHANGED events
  closures,  \* kinds of closure without evidence among them
  runDone,   \* the agent team run has a completedAt
  reviewed,  \* customer messages older than it
  closing,   \* what a closing request has checked
  attempt,   \* SupportDeliveryAttempt row of each reply
  latest,    \* the reply whose row was created last
  tries,     \* DELIVERY_ATTEMPTED events of each reply
  posted,    \* times Slack accepted each reply
  step,      \* progress of a delivering request
  job        \* its parameters, and the error it has caught

attemptVars == <<attempt, latest, tries>>
senderVars == <<step, job>>
closeVars == <<moves, closures, closing>>
runVars == <<runDone, reviewed>>
ingressVars == <<ingested, reading>>
vars == <<status, ingested, reading, moves, closures, runDone, reviewed, closing,
          attempt, latest, tries, posted, step, job>>

DeliveryState == { "none", "PENDING", "RETRYING", "SUCCEEDED", "FAILED", "DEAD_LETTERED" }
\* TransientExternalError, PermanentExternalError, anything else.
Error == { "transient", "permanent", "other" }

AttemptRow == [state : DeliveryState, number : Nat \ {0}, error : Error \cup {"none"},
               scheduled : BOOLEAN]
Row(state, number, error, scheduled) ==
  [state |-> state, number |-> number, error |-> error, scheduled |-> scheduled]
Job == [reply : Reply \cup {NoReply}, existing : BOOLEAN, number : Nat \ {0},
        error : Error \cup {"none"}]
NoJob == [reply |-> NoReply, existing |-> FALSE, number |-> 1, error |-> "none"]

TypeOK ==
  /\ status \in ConversationStatus
  /\ ingested \subseteq Message
  /\ reading \in [Message -> ConversationStatus \cup {"no"}]
  /\ moves \in 0..MaxMoves
  /\ closures \subseteq {"override", "noAction"}
  /\ runDone \in BOOLEAN
  /\ reviewed \subseteq Customer
  /\ closing \in [Closer -> {"no", "delivered", "noAction"}]
  /\ attempt \in [Reply -> AttemptRow]
  /\ latest \in Reply \cup {NoReply}
  /\ tries \in [Reply -> 0..MaxTries]
  /\ posted \in [Reply -> Nat]
  /\ step \in [Sender -> {"idle", "loaded", "sending", "delivered", "recorded", "failed"}]
  /\ job \in [Sender -> Job]
  /\ \A s \in Sender : step[s] # "idle" => job[s].reply \in Reply

\* The first customer message has just created the row.
Init ==
  /\ status = "UNREAD"
  /\ ingested = {}
  /\ reading = [m \in Message |-> "no"]
  /\ moves = 0
  /\ closures = {}
  /\ runDone = FALSE
  /\ reviewed = {}
  /\ closing = [c \in Closer |-> "no"]
  /\ attempt = [r \in Reply |-> Row("none", 1, "none", FALSE)]
  /\ latest = NoReply
  /\ tries = [r \in Reply |-> 0]
  /\ posted = [r \in Reply |-> 0]
  /\ step = [s \in Sender |-> "idle"]
  /\ job = [s \in Sender |-> NoJob]

-------------------------------------------------------------------------------
(* Ingress *)

\* runSupportPipeline reads the row and computes the next status...
IngestReads(m) ==
  /\ m \notin ingested /\ reading[m] = "no"
  /\ \E to \in Transitions(status, "customerMessageReceived") :
       reading' = [reading EXCEPT ![m] = to]
  /\ UNCHANGED <<status, ingested, closeVars, runVars, attemptVars, posted, senderVars>>

\* Mutant: the status is written only when the message changes it.
IngestCommits_IfChanged(m) ==
  /\ reading[m] # "no"
  /\ status' = IF reading[m] = "IN_PROGRESS" THEN status ELSE reading[m]
  /\ ingested' = ingested \cup {m}
  /\ reading' = [reading EXCEPT ![m] = "no"]
  /\ UNCHANGED <<closeVars, runVars, attemptVars, posted, senderVars>>

\* ...and writes it with the event, whoever wrote the message.
IngestCommits(m) ==
  /\ reading[m] # "no"
  /\ status' = reading[m]
  /\ ingested' = ingested \cup {m}
  /\ reading' = [reading EXCEPT ![m] = "no"]
  /\ UNCHANGED <<closeVars, runVars, attemptVars, posted, senderVars>>

\* The transaction fails; the activity or the redelivered webhook tries again.
IngestFails(m) ==
  /\ reading[m] # "no"
  /\ reading' = [reading EXCEPT ![m] = "no"]
  /\ UNCHANGED <<status, ingested, closeVars, runVars, attemptVars, posted, senderVars>>

\* A run of the agent team ends (see AgentTeamRun).
RunCompletes ==
  /\ runDone' = TRUE
  /\ reviewed' = ingested \cap Customer
  /\ UNCHANGED <<status, ingressVars, closeVars, attemptVars, posted, senderVars>>

-------------------------------------------------------------------------------
(* Status commands *)

StatusChanges(to) ==
  /\ moves < MaxMoves
  /\ moves' = moves + 1
  /\ status' = to

\* updateStatus, for a target that needs no evidence.
UpdateStatus(event) ==
  /\ \E to \in Transitions(status, event) : StatusChanges(to)
  /\ UNCHANGED <<ingressVars, closures, closing, runVars, attemptVars, posted, senderVars>>

MarkDoneWithOverride ==
  /\ \E to \in Transitions(status, "operatorOverrideDone") : StatusChanges(to)
  /\ closures' = closures \cup {"override"}
  /\ UNCHANGED <<ingressVars, closing, runVars, attemptVars, posted, senderVars>>

\* Mutant: any attempt counts as evidence.
HasDeliveryEvidence_Any == \E r \in Reply : attempt[r].state # "none"

HasDeliveryEvidence == \E r \in Reply : attempt[r].state = "SUCCEEDED"

\* updateStatus to DONE looks for evidence and closeAsNoAction for a follow-up...
DoneChecks(c) ==
  /\ closing[c] = "no"
  /\ HasDeliveryEvidence
  /\ closing' = [closing EXCEPT ![c] = "delivered"]
  /\ UNCHANGED <<status, ingressVars, moves, closures, runVars, attemptVars, posted,
                 senderVars>>

CloseChecks(c) ==
  /\ closing[c] = "no"
  /\ runDone /\ ingested \cap Customer \subseteq reviewed
  /\ closing' = [closing EXCEPT ![c] = "noAction"]
  /\ UNCHANGED <<status, ingressVars, moves, closures, runVars, attemptVars, posted,
                 senderVars>>

\* ...and then write the row by id.
CloseCommits(c) ==
  /\ closing[c] # "no"
  /\ StatusChanges("DONE")
  /\ closing' = [closing EXCEPT ![c] = "no"]
  /\ closures' = IF closing[c] = "noAction" THEN closures \cup {"noAction"} ELSE closures
  /\ UNCHANGED <<ingressVars, runVars, attemptVars, posted, senderVars>>

CloseFails(c) ==
  /\ closing[c] # "no"
  /\ closing' = [closing EXCEPT ![c] = "no"]
  /\ UNCHANGED <<status, ingressVars, moves, closures, runVars, attemptVars, posted,
                 senderVars>>

-------------------------------------------------------------------------------
(* Replies *)

\* nextAttemptNumber counts on from the conversation's last row, not the reply's.
NextNumber == IF latest = NoReply THEN 1 ELSE attempt[latest].number + 1

Loads(s, r, existing, number) ==
  /\ step' = [step EXCEPT ![s] = "loaded"]
  /\ job' = [job EXCEPT ![s] = [reply |-> r, existing |-> existing, number |-> number,
                                error |-> "none"]]
  /\ UNCHANGED <<status, ingressVars, closeVars, runVars, attemptVars, posted>>

\* Each reply is one sendReply command.
SendReply(s, r) ==
  /\ step[s] = "idle" /\ attempt[r].state = "none"
  /\ \A t \in Sender : step[t] # "idle" => job[t].reply # r
  /\ Loads(s, r, FALSE, NextNumber)

\* retryDelivery asks neither for the attempt's state nor for a request that is
\* already delivering it; a reply without text has no payload to load.
RetryDelivery(s, r) ==
  /\ step[s] = "idle" /\ attempt[r].state # "none" /\ r \notin FileOnly
  /\ Loads(s, r, TRUE, attempt[r].number + 1)

\* The first transaction: the row, new or reopened, and DELIVERY_ATTEMPTED.
RecordAttempt(s) ==
  LET r == job[s].reply IN
  /\ step[s] = "loaded" /\ tries[r] < MaxTries
  /\ attempt' = [attempt EXCEPT ![r] =
       Row(IF job[s].existing THEN "RETRYING" ELSE "PENDING", job[s].number, "none", FALSE)]
  /\ latest' = IF job[s].existing THEN latest ELSE r
  /\ tries' = [tries EXCEPT ![r] = @ + 1]
  /\ step' = [step EXCEPT ![s] = "sending"]
  /\ UNCHANGED <<status, ingressVars, closeVars, runVars, posted, job>>

Catches(s, error) ==
  /\ step' = [step EXCEPT ![s] = "failed"]
  /\ job' = [job EXCEPT ![s].error = error]

\* Slack posts the text, or at least one file of a reply without text.
SlackAccepts(s) ==
  /\ step[s] = "sending"
  /\ posted' = [posted EXCEPT ![job[s].reply] = @ + 1]
  /\ step' = [step EXCEPT ![s] = "delivered"]
  /\ UNCHANGED <<status, ingressVars, closeVars, runVars, attemptVars, job>>

\* sendThreadReply throws.  Unless Slack refused, it may have posted all the same.
SendFails(s, error) ==
  /\ step[s] = "sending" /\ job[s].reply \notin FileOnly
  /\ \/ UNCHANGED posted
     \/ error # "permanent" /\ posted' = [posted EXCEPT ![job[s].reply] = @ + 1]
  /\ Catches(s, error)
  /\ UNCHANGED <<status, ingressVars, closeVars, runVars, attemptVars>>

\* Mutant: failed uploads are only warned about.
UploadsFail_Warn(s) ==
  /\ step[s] = "sending" /\ job[s].reply \in FileOnly
  /\ step' = [step EXCEPT ![s] = "delivered"]
  /\ UNCHANGED <<status, ingressVars, closeVars, runVars, attemptVars, posted, job>>

\* No file of a reply without text went through: a write of its own, then a throw.
UploadsFail(s) ==
  LET r == job[s].reply IN
  /\ step[s] = "sending" /\ r \in FileOnly
  /\ attempt' = [attempt EXCEPT ![r] = Row("FAILED", @.number, @.error, FALSE)]
  /\ posted' \in {posted, [posted EXCEPT ![r] = @ + 1]}
  /\ Catches(s, "other")
  /\ UNCHANGED <<status, ingressVars, closeVars, runVars, latest, tries>>

\* Mutant: the update is not conditional on the status at the time of the write.
RecordSuccess_Unconditional(s) ==
  /\ step[s] = "delivered"
  /\ attempt' = [attempt EXCEPT ![job[s].reply] = Row("SUCCEEDED", @.number, @.error, FALSE)]
  /\ status' = "IN_PROGRESS"
  /\ step' = [step EXCEPT ![s] = "recorded"]
  /\ UNCHANGED <<ingressVars, closeVars, runVars, latest, tries, posted, job>>

\* The second transaction: the updateMany spares a row that is DONE by now.
RecordSuccess(s) ==
  /\ step[s] = "delivered"
  /\ attempt' = [attempt EXCEPT ![job[s].reply] = Row("SUCCEEDED", @.number, @.error, FALSE)]
  /\ status' = IF status = "DONE" THEN status ELSE "IN_PROGRESS"
  /\ step' = [step EXCEPT ![s] = "recorded"]
  /\ UNCHANGED <<ingressVars, closeVars, runVars, latest, tries, posted, job>>

\* The second transaction fails, or emitConversationChanged after it: both are
\* inside the try block.
RecordFails(s) ==
  /\ step[s] \in {"delivered", "recorded"}
  /\ Catches(s, "other")
  /\ UNCHANGED <<status, ingressVars, closeVars, runVars, attemptVars, posted>>

Ends(s) ==
  /\ step' = [step EXCEPT ![s] = "idle"]
  /\ job' = [job EXCEPT ![s] = NoJob]

Finishes(s) ==
  /\ step[s] = "recorded"
  /\ Ends(s)
  /\ UNCHANGED <<status, ingressVars, closeVars, runVars, attemptVars, posted>>

\* The catch block: retryCount is the attempt number of a retry, 1 for a first send.
RecordFailure(s) ==
  LET r == job[s].reply
      retryCount == IF job[s].existing THEN job[s].number ELSE 1
      scheduled == job[s].error = "transient" /\ retryCount < 3
  IN
  /\ step[s] = "failed"
  /\ attempt' = [attempt EXCEPT ![r] =
       Row(IF scheduled \/ job[s].error = "permanent" THEN "FAILED" ELSE "DEAD_LETTERED",
           @.number, job[s].error, scheduled)]
  /\ Ends(s)
  /\ UNCHANGED <<status, ingressVars, closeVars, runVars, latest, tries, posted>>

\* The web process dies, or the catch block fails: nothing takes the attempt up.
Crash(s) ==
  /\ step[s] # "idle"
  /\ Ends(s)
  /\ UNCHANGED <<status, ingressVars, closeVars, runVars, attemptVars, posted>>

-------------------------------------------------------------------------------
Deliver(s) ==
  \/ \E r \in Reply : SendReply(s, r) \/ RetryDelivery(s, r)
  \/ RecordAttempt(s) \/ SlackAccepts(s) \/ UploadsFail(s)
  \/ \E error \in Error : SendFails(s, error)
  \/ RecordSuccess(s) \/ RecordFails(s) \/ Finishes(s) \/ RecordFailure(s) \/ Crash(s)

Next ==
  \/ \E m \in Message : IngestReads(m) \/ IngestCommits(m) \/ IngestFails(m)
  \/ RunCompletes
  \/ \E event \in {"operatorSetUnread", "operatorSetInProgress", "operatorSetStale"} :
       UpdateStatus(event)
  \/ MarkDoneWithOverride
  \/ \E c \in Closer : DoneChecks(c) \/ CloseChecks(c) \/ CloseCommits(c) \/ CloseFails(c)
  \/ \E s \in Sender : Deliver(s)

Spec == Init /\ [][Next]_vars

-------------------------------------------------------------------------------
(* What must hold *)

\* An attempt that says SUCCEEDED was posted, whatever other requests did to the
\* same row: it is the evidence operatorSetDone goes by.
SucceededWasPosted == \A r \in Reply : attempt[r].state = "SUCCEEDED" => posted[r] > 0

\* "DONE requires delivery evidence" (header of the machine): the customer got a
\* reply, or the timeline says who closed the conversation without one.  The
\* evidence may have been overwritten since, the reply has not.
DoneIsJustified ==
  status = "DONE" => closures # {} \/ \E r \in Reply : posted[r] > 0

\* "IN_PROGRESS: operator has replied at least once"
\* (docs/concepts/support-conversation-fsm.md), or moved the conversation there.
EngagedIsReal ==
  status = "IN_PROGRESS" => moves > 0 \/ \E r \in Reply : posted[r] > 0

\* "operatorReplied on DONE stays DONE" (same document): however late its second
\* transaction, a reply reopens nothing.  Only a message or an operator does.
DoneIsKept ==
  [][status = "DONE" /\ status' # "DONE" => ingested' # ingested \/ moves' # moves]_vars

\* A message is never filed under a conversation that is DONE afterwards, even
\* when the conversation was closed while the message was being processed: the
\* analysis trigger skips DONE conversations.
MessageReopens == [][ingested' # ingested => status' # "DONE"]_vars

-------------------------------------------------------------------------------
(* What the repository says and the code does not do *)

===============================================================================
