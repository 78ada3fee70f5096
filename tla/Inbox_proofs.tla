---------------------------- MODULE Inbox_proofs ----------------------------
(***************************************************************************)
(* Proofs about a conversation and the tab it is shown in.                 *)
(*                                                                         *)
(* Conversation, for any set of messages, replies, web requests and any    *)
(* bounds.  What makes the properties inductive is what the requests in    *)
(* progress carry with them: a delivering request past the send has been   *)
(* posted, a closing request that found evidence found a reply that was    *)
(* posted, and an ingress transaction is not going to write DONE, nor      *)
(* IN_PROGRESS for a conversation nobody engaged in.                       *)
(*                                                                         *)
(* InboxRealtime, for any commands and bounds: a refresh that was asked    *)
(* for while one was in flight is due after it (DueIsAwaited), and the     *)
(* recovery poll does not come to rest in a tab that shows the list        *)
(* (PollLives).                                                            *)
(***************************************************************************)
EXTENDS Conversation, InboxRealtime, TLAPS, NaturalsInduction
\* An operator's reply has reached the customer.
Replied == \E r \in Reply : posted[r] > 0
Engaged == moves > 0 \/ Replied

\* Past the send, and until its row is recorded, a reply has been posted.
SentWasPosted ==
  \A s \in Sender : step[s] \in {"delivered", "recorded"} => posted[job[s].reply] > 0

EvidenceWasPosted == \A c \in Closer : closing[c] = "delivered" => Replied

ReadingIsOpen ==
  \A m \in Message :
    /\ reading[m] # "DONE"
    /\ reading[m] = "IN_PROGRESS" => Engaged
    /\ reading[m] # "no" => m \notin ingested

IInv ==
  /\ TypeOK
  /\ SucceededWasPosted
  /\ DoneIsJustified
  /\ EngagedIsReal
  /\ SentWasPosted
  /\ EvidenceWasPosted
  /\ ReadingIsOpen

\* The edges a customer message may take: it lands in UNREAD, or stays IN_PROGRESS.
LEMMA MessageEdges ==
  ASSUME NEW from \in ConversationStatus, NEW to \in Transitions(from, "customerMessageReceived")
  PROVE  to \in {"UNREAD", "IN_PROGRESS"} /\ (to = "IN_PROGRESS" => from = "IN_PROGRESS")
BY DEF Transitions, ConversationEdges, OperatorMoves, ConversationStatus

\* The operator's moves that need no evidence do not end in DONE.
LEMMA MoveEdges ==
  ASSUME NEW from \in ConversationStatus,
         NEW event \in {"operatorSetUnread", "operatorSetInProgress", "operatorSetStale"},
         NEW to \in Transitions(from, event)
  PROVE  to \in {"UNREAD", "IN_PROGRESS", "STALE"}
BY DEF Transitions, ConversationEdges, OperatorMoves, ConversationStatus

LEMMA OverrideEdges ==
  ASSUME NEW from \in ConversationStatus, NEW to \in Transitions(from, "operatorOverrideDone")
  PROVE  to = "DONE"
BY DEF Transitions, ConversationEdges, OperatorMoves, ConversationStatus

-------------------------------------------------------------------------------
(* Types *)

LEMMA TypeInit == ASSUME Init PROVE TypeOK
<1>1. 0 \in 0..MaxMoves /\ 0 \in 0..MaxTries
  BY BoundsAssumption
<1>2. attempt \in [Reply -> AttemptRow]
  BY DEF Init, AttemptRow, DeliveryState, Row
<1>3. job \in [Sender -> Job]
  BY DEF Init, Job, NoJob
<1> QED
  BY <1>1, <1>2, <1>3 DEF Init, TypeOK, ConversationStatus

LEMMA NextNumberType == ASSUME TypeOK PROVE NextNumber \in Nat \ {0}
BY DEF TypeOK, NextNumber, AttemptRow

\* The actions of ingress and of the status commands.
LEMMA TypeInbox ==
  ASSUME TypeOK,
         \/ \E m \in Message : IngestReads(m) \/ IngestCommits(m) \/ IngestFails(m)
         \/ RunCompletes
         \/ \E event \in {"operatorSetUnread", "operatorSetInProgress", "operatorSetStale"} :
              UpdateStatus(event)
         \/ MarkDoneWithOverride
         \/ \E c \in Closer :
              DoneChecks(c) \/ CloseChecks(c) \/ CloseCommits(c) \/ CloseFails(c)
  PROVE  TypeOK'
<1> USE DEF TypeOK, ingressVars, closeVars, runVars, attemptVars, senderVars
<1>1. CASE \E m \in Message : IngestReads(m)
  BY <1>1 DEF IngestReads, Transitions
<1>2. CASE \E m \in Message : IngestCommits(m)
  BY <1>2 DEF IngestCommits
<1>3. CASE \E m \in Message : IngestFails(m)
  BY <1>3 DEF IngestFails
<1>4. CASE RunCompletes
  BY <1>4 DEF RunCompletes
<1>5. CASE \E event \in {"operatorSetUnread", "operatorSetInProgress", "operatorSetStale"} :
             UpdateStatus(event)
  BY <1>5, BoundsAssumption DEF UpdateStatus, StatusChanges, Transitions
<1>6. CASE MarkDoneWithOverride
  BY <1>6, BoundsAssumption DEF MarkDoneWithOverride, StatusChanges, Transitions
<1>7. CASE \E c \in Closer : DoneChecks(c)
  BY <1>7 DEF DoneChecks
<1>8. CASE \E c \in Closer : CloseChecks(c)
  BY <1>8 DEF CloseChecks
<1>9. CASE \E c \in Closer : CloseCommits(c)
  BY <1>9, BoundsAssumption DEF CloseCommits, StatusChanges, ConversationStatus
<1>10. CASE \E c \in Closer : CloseFails(c)
  BY <1>10 DEF CloseFails
<1> QED
  BY <1>1, <1>2, <1>3, <1>4, <1>5, <1>6, <1>7, <1>8, <1>9, <1>10

\* The actions of a request that delivers a reply.
LEMMA TypeDeliver ==
  ASSUME TypeOK, NEW s \in Sender, Deliver(s)
  PROVE  TypeOK'
<1> USE DEF ingressVars, closeVars, runVars, attemptVars
<1>1. ASSUME NEW r \in Reply, SendReply(s, r)
      PROVE  TypeOK'
  BY <1>1, NextNumberType DEF TypeOK, SendReply, Loads, Job
<1>2. ASSUME NEW r \in Reply, RetryDelivery(s, r)
      PROVE  TypeOK'
  <2>1. attempt[r].number + 1 \in Nat \ {0}
    BY DEF TypeOK, AttemptRow
  <2> QED
    BY <1>2, <2>1 DEF TypeOK, RetryDelivery, Loads, Job
<1>3. CASE RecordAttempt(s)
  <2>1. job[s].reply \in Reply /\ job[s].number \in Nat \ {0}
    BY <1>3 DEF TypeOK, RecordAttempt, Job
  <2>2. tries'[job[s].reply] \in 0..MaxTries
    BY <1>3, <2>1, BoundsAssumption DEF TypeOK, RecordAttempt
  <2>3. attempt' \in [Reply -> AttemptRow]
    BY <1>3, <2>1 DEF TypeOK, RecordAttempt, AttemptRow, DeliveryState, Row
  <2>4. tries' \in [Reply -> 0..MaxTries]
    BY <1>3, <2>1, <2>2 DEF TypeOK, RecordAttempt
  <2> QED
    BY <1>3, <2>1, <2>3, <2>4 DEF TypeOK, RecordAttempt
<1>4. CASE SlackAccepts(s)
  <2>1. job[s].reply \in Reply
    BY <1>4 DEF TypeOK, SlackAccepts
  <2> QED
    BY <1>4, <2>1 DEF TypeOK, SlackAccepts
<1>5. ASSUME NEW error \in Error, SendFails(s, error)
      PROVE  TypeOK'
  <2>1. job[s].reply \in Reply
    BY <1>5 DEF TypeOK, SendFails
  <2>2. posted' \in [Reply -> Nat]
    BY <1>5, <2>1 DEF TypeOK, SendFails
  <2>3. job' \in [Sender -> Job] /\ \A t \in Sender : job'[t].reply = job[t].reply
    BY <1>5 DEF TypeOK, SendFails, Catches, Job
  <2> QED
    BY <1>5, <2>2, <2>3, <2>1 DEF TypeOK, SendFails, Catches
<1>6. CASE UploadsFail(s)
  <2>1. job[s].reply \in Reply
    BY <1>6 DEF TypeOK, UploadsFail
  <2>2. posted' \in [Reply -> Nat]
    BY <1>6, <2>1 DEF TypeOK, UploadsFail
  <2>3. job' \in [Sender -> Job] /\ \A t \in Sender : job'[t].reply = job[t].reply
    BY <1>6 DEF TypeOK, UploadsFail, Catches, Job, Error
  <2>4. attempt' \in [Reply -> AttemptRow]
    BY <1>6, <2>1 DEF TypeOK, UploadsFail, AttemptRow, DeliveryState, Row
  <2> QED
    BY <1>6, <2>1, <2>2, <2>3, <2>4 DEF TypeOK, UploadsFail, Catches
<1>7. CASE RecordSuccess(s)
  <2>1. job[s].reply \in Reply
    BY <1>7 DEF TypeOK, RecordSuccess
  <2>2. attempt' \in [Reply -> AttemptRow]
    BY <1>7, <2>1 DEF TypeOK, RecordSuccess, AttemptRow, DeliveryState, Row
  <2> QED
    BY <1>7, <2>1, <2>2 DEF TypeOK, RecordSuccess, ConversationStatus
<1>8. CASE RecordFails(s)
  <2>1. job' \in [Sender -> Job] /\ \A t \in Sender : job'[t].reply = job[t].reply
    BY <1>8 DEF TypeOK, RecordFails, Catches, Job, Error
  <2> QED
    BY <1>8, <2>1 DEF TypeOK, RecordFails, Catches
<1>9. CASE Finishes(s)
  BY <1>9 DEF TypeOK, Finishes, Ends, Job, NoJob
<1>10. CASE RecordFailure(s)
  <2>1. job[s].reply \in Reply /\ job[s].error \in Error \cup {"none"}
    BY <1>10 DEF TypeOK, RecordFailure, Job
  <2>2. attempt' \in [Reply -> AttemptRow]
    BY <1>10, <2>1 DEF TypeOK, RecordFailure, AttemptRow, DeliveryState, Row
  <2> QED
    BY <1>10, <2>2 DEF TypeOK, RecordFailure, Ends, Job, NoJob
<1>11. CASE Crash(s)
  BY <1>11 DEF TypeOK, Crash, Ends, Job, NoJob
<1> QED
  BY <1>1, <1>2, <1>3, <1>4, <1>5, <1>6, <1>7, <1>8, <1>9, <1>10, <1>11 DEF Deliver

LEMMA TypeNext == ASSUME TypeOK, [Next]_vars PROVE TypeOK'
<1>1. CASE UNCHANGED vars
  BY <1>1 DEF TypeOK, vars
<1> QED
  BY <1>1, TypeInbox, TypeDeliver DEF Next

\* Rows, requests and counters keep their types for every conversation.
THEOREM TypeCorrectness == Spec => []TypeOK
BY TypeInit, TypeNext, PTL DEF Spec

-------------------------------------------------------------------------------
(* The inductive invariant *)

LEMMA InvInit == ASSUME Init PROVE IInv
BY TypeInit
   DEF Init, IInv, SucceededWasPosted, DoneIsJustified, EngagedIsReal, SentWasPosted,
       EvidenceWasPosted, ReadingIsOpen, Row

\* Ingress changes the status and what the other ingress transactions will write.
LEMMA InvIngress ==
  ASSUME IInv, NEW m \in Message, IngestReads(m) \/ IngestCommits(m) \/ IngestFails(m)
  PROVE  IInv'
<1> USE DEF IInv, ingressVars, closeVars, runVars, attemptVars, senderVars
<1>1. TypeOK'
  BY TypeInbox
<1>2. UNCHANGED <<posted, moves, closures, closing, attempt, step, job>>
  BY DEF IngestReads, IngestCommits, IngestFails
<1>3. /\ SucceededWasPosted' /\ SentWasPosted' /\ EvidenceWasPosted'
      /\ Engaged' = Engaged
  BY <1>2 DEF SucceededWasPosted, SentWasPosted, EvidenceWasPosted, Engaged, Replied
<1>4. CASE IngestReads(m)
  <2>1. PICK to \in Transitions(status, "customerMessageReceived") :
          reading' = [reading EXCEPT ![m] = to]
    BY <1>4 DEF IngestReads
  <2>2. to # "DONE" /\ (to = "IN_PROGRESS" => Engaged)
    BY <2>1, MessageEdges DEF TypeOK, EngagedIsReal, Engaged, Replied
  <2>3. ReadingIsOpen'
    BY <1>3, <1>4, <2>1, <2>2 DEF TypeOK, IngestReads, ReadingIsOpen
  <2>4. UNCHANGED status
    BY <1>4 DEF IngestReads
  <2> QED
    BY <1>1, <1>2, <1>3, <2>3, <2>4 DEF DoneIsJustified, EngagedIsReal
<1>5. CASE IngestCommits(m)
  <2>1. ReadingIsOpen'
    BY <1>3, <1>5 DEF TypeOK, IngestCommits, ReadingIsOpen
  <2>2. status' # "DONE" /\ (status' = "IN_PROGRESS" => Engaged)
    BY <1>5 DEF IngestCommits, ReadingIsOpen
  <2> QED
    BY <1>1, <1>2, <1>3, <2>1, <2>2
       DEF DoneIsJustified, EngagedIsReal, Engaged, Replied
<1>6. CASE IngestFails(m)
  <2>1. ReadingIsOpen'
    BY <1>3, <1>6 DEF TypeOK, IngestFails, ReadingIsOpen
  <2> QED
    BY <1>1, <1>2, <1>3, <1>6, <2>1 DEF IngestFails, DoneIsJustified, EngagedIsReal
<1> QED
  BY <1>4, <1>5, <1>6

\* The commands count their event, so whatever they write is engagement.
LEMMA InvCommands ==
  ASSUME IInv,
         \/ RunCompletes
         \/ \E event \in {"operatorSetUnread", "operatorSetInProgress", "operatorSetStale"} :
              UpdateStatus(event)
         \/ MarkDoneWithOverride
         \/ \E c \in Closer :
              DoneChecks(c) \/ CloseChecks(c) \/ CloseCommits(c) \/ CloseFails(c)
  PROVE  IInv'
<1> USE DEF IInv, ingressVars, closeVars, runVars, attemptVars, senderVars
<1>1. TypeOK'
  BY TypeInbox
<1>2. UNCHANGED <<posted, attempt, step, job, reading, ingested>>
  BY DEF RunCompletes, UpdateStatus, MarkDoneWithOverride, DoneChecks, CloseChecks,
         CloseCommits, CloseFails
<1>3. Replied' = Replied /\ SucceededWasPosted' /\ SentWasPosted'
  BY <1>2 DEF Replied, SucceededWasPosted, SentWasPosted
<1>4. moves' = moves \/ moves' = moves + 1
  BY DEF RunCompletes, UpdateStatus, MarkDoneWithOverride, DoneChecks, CloseChecks,
         CloseCommits, CloseFails, StatusChanges
<1>5. ReadingIsOpen'
  BY <1>2, <1>3, <1>4 DEF ReadingIsOpen, Engaged, TypeOK
<1>6. CASE RunCompletes
  BY <1>1, <1>2, <1>3, <1>5, <1>6
     DEF RunCompletes, DoneIsJustified, EngagedIsReal, EvidenceWasPosted
<1>7. CASE \E event \in {"operatorSetUnread", "operatorSetInProgress", "operatorSetStale"} :
             UpdateStatus(event)
  <2>1. status' # "DONE" /\ moves' > 0 /\ UNCHANGED closing
    BY <1>7, MoveEdges DEF UpdateStatus, StatusChanges, TypeOK
  <2> QED
    BY <1>1, <1>3, <1>5, <2>1 DEF DoneIsJustified, EngagedIsReal, EvidenceWasPosted
<1>8. CASE MarkDoneWithOverride
  <2>1. moves' > 0 /\ closures' # {} /\ UNCHANGED closing
    BY <1>8 DEF MarkDoneWithOverride, StatusChanges, TypeOK
  <2> QED
    BY <1>1, <1>3, <1>5, <2>1 DEF DoneIsJustified, EngagedIsReal, EvidenceWasPosted
<1>9. CASE \E c \in Closer : DoneChecks(c)
  <2>1. PICK c \in Closer : DoneChecks(c)
    BY <1>9
  <2>2. Replied
    BY <2>1 DEF DoneChecks, HasDeliveryEvidence, SucceededWasPosted, Replied
  <2> QED
    BY <1>1, <1>2, <1>3, <1>5, <2>1, <2>2
       DEF DoneChecks, DoneIsJustified, EngagedIsReal, EvidenceWasPosted
<1>10. CASE \E c \in Closer : CloseChecks(c)
  BY <1>1, <1>2, <1>3, <1>5, <1>10
     DEF TypeOK, CloseChecks, DoneIsJustified, EngagedIsReal, EvidenceWasPosted
<1>11. CASE \E c \in Closer : CloseCommits(c)
  <2>1. PICK c \in Closer : CloseCommits(c)
    BY <1>11
  <2>2. moves' > 0 /\ status' = "DONE"
    BY <2>1 DEF CloseCommits, StatusChanges, TypeOK
  <2>3. Replied \/ closures' # {}
    BY <2>1 DEF CloseCommits, EvidenceWasPosted, TypeOK
  <2>4. EvidenceWasPosted'
    BY <1>3, <2>1 DEF CloseCommits, EvidenceWasPosted, TypeOK
  <2> QED
    BY <1>1, <1>3, <1>5, <2>2, <2>3, <2>4
       DEF DoneIsJustified, EngagedIsReal, Replied
<1>12. CASE \E c \in Closer : CloseFails(c)
  BY <1>1, <1>2, <1>3, <1>5, <1>12
     DEF TypeOK, CloseFails, DoneIsJustified, EngagedIsReal, EvidenceWasPosted
<1> QED
  BY <1>6, <1>7, <1>8, <1>9, <1>10, <1>11, <1>12

\* A delivering request never takes a post back, and a row that becomes
\* SUCCEEDED belongs to a request past its send.
LEMMA InvDeliver ==
  ASSUME IInv, NEW s \in Sender, Deliver(s)
  PROVE  IInv'
<1> USE DEF IInv, ingressVars, closeVars, runVars, attemptVars
<1>1. TypeOK'
  BY TypeDeliver
<1>2. UNCHANGED <<ingested, reading, moves, closures, closing>>
  BY DEF Deliver, SendReply, RetryDelivery, Loads, RecordAttempt, SlackAccepts, UploadsFail,
         SendFails, RecordSuccess, RecordFails, Finishes, RecordFailure, Crash
<1>3. \A r \in Reply : posted'[r] \in Nat /\ posted'[r] >= posted[r]
  <2>1. CASE SlackAccepts(s)
    BY <2>1 DEF TypeOK, SlackAccepts
  <2>2. CASE UploadsFail(s)
    BY <2>2 DEF TypeOK, UploadsFail
  <2>3. CASE \E error \in Error : SendFails(s, error)
    BY <2>3 DEF TypeOK, SendFails
  <2>4. CASE UNCHANGED posted
    BY <2>4 DEF TypeOK
  <2> QED
    BY <2>1, <2>2, <2>3, <2>4
       DEF Deliver, SendReply, RetryDelivery, Loads, RecordAttempt, RecordSuccess,
           RecordFails, Finishes, RecordFailure, Crash
<1>4. Replied => Replied'
  BY <1>3 DEF Replied, TypeOK
<1>5. EvidenceWasPosted' /\ ReadingIsOpen'
  BY <1>2, <1>4 DEF EvidenceWasPosted, ReadingIsOpen, Engaged
<1>6. SentWasPosted'
  <2>1. \A t \in Sender \ {s} : step'[t] = step[t] /\ job'[t] = job[t]
    BY DEF TypeOK, Deliver, SendReply, RetryDelivery, Loads, RecordAttempt, SlackAccepts,
           UploadsFail, SendFails, RecordSuccess, RecordFails, Finishes, RecordFailure, Crash,
           Catches, Ends
  <2>2. step'[s] \in {"delivered", "recorded"} => posted'[job'[s].reply] > 0
    <3>1. CASE SlackAccepts(s)
      BY <3>1 DEF TypeOK, SlackAccepts
    <3>2. CASE RecordSuccess(s)
      BY <3>2 DEF TypeOK, RecordSuccess, SentWasPosted
    <3>3. CASE ~SlackAccepts(s) /\ ~RecordSuccess(s)
      BY <3>3 DEF TypeOK, Deliver, SendReply, RetryDelivery, Loads, RecordAttempt, UploadsFail,
                  SendFails, RecordFails, Finishes, RecordFailure, Crash, Catches, Ends
    <3> QED
      BY <3>1, <3>2, <3>3
  <2>3. \A t \in Sender \ {s} :
          step[t] \in {"delivered", "recorded"} => posted'[job[t].reply] > 0
    BY <1>3 DEF SentWasPosted, TypeOK
  <2> QED
    BY <2>1, <2>2, <2>3 DEF SentWasPosted
<1>7. SucceededWasPosted'
  <2>1. CASE RecordSuccess(s)
    <3>1. posted[job[s].reply] > 0
      BY <2>1 DEF RecordSuccess, SentWasPosted
    <3> QED
      BY <2>1, <3>1 DEF TypeOK, RecordSuccess, SucceededWasPosted
  <2>2. CASE ~RecordSuccess(s)
    <3>1. \A r \in Reply : attempt'[r].state = "SUCCEEDED" => attempt[r].state = "SUCCEEDED"
      BY <2>2 DEF TypeOK, Deliver, SendReply, RetryDelivery, Loads, RecordAttempt,
                  SlackAccepts, UploadsFail, SendFails, RecordFails, Finishes, RecordFailure,
                  Crash, Row
    <3> QED
      BY <1>3, <3>1 DEF SucceededWasPosted, TypeOK
  <2> QED
    BY <2>1, <2>2
<1>8. DoneIsJustified' /\ EngagedIsReal'
  <2>1. CASE RecordSuccess(s)
    <3>1. posted[job[s].reply] > 0
      BY <2>1 DEF RecordSuccess, SentWasPosted
    <3>2. Replied'
      BY <1>4, <2>1, <3>1 DEF TypeOK, RecordSuccess, Replied
    <3> QED
      BY <3>2 DEF Replied, DoneIsJustified, EngagedIsReal
  <2>2. CASE ~RecordSuccess(s)
    <3>1. UNCHANGED status
      BY <2>2 DEF Deliver, SendReply, RetryDelivery, Loads, RecordAttempt, SlackAccepts,
                  UploadsFail, SendFails, RecordFails, Finishes, RecordFailure, Crash
    <3> QED
      BY <1>2, <1>4, <3>1 DEF Replied, DoneIsJustified, EngagedIsReal
  <2> QED
    BY <2>1, <2>2
<1> QED
  BY <1>1, <1>5, <1>6, <1>7, <1>8

LEMMA InvNext == ASSUME IInv, [Next]_vars PROVE IInv'
<1>1. CASE UNCHANGED vars
  BY <1>1 DEF vars, IInv, TypeOK, SucceededWasPosted, DoneIsJustified, EngagedIsReal,
              SentWasPosted, EvidenceWasPosted, ReadingIsOpen, Replied, Engaged
<1> QED
  BY <1>1, InvIngress, InvCommands, InvDeliver DEF Next

\* The inductive invariant of the conversation: what the requests in progress carry
\* is true whatever the others do.
THEOREM Invariance == Spec => []IInv
BY InvInit, InvNext, PTL DEF Spec

\* A SUCCEEDED attempt was posted, however many requests work on its row.
THEOREM Evidence == Spec => []SucceededWasPosted
BY Invariance, PTL DEF IInv

\* Nobody is told DONE without a reply or a recorded reason.
THEOREM Justified == Spec => []DoneIsJustified
BY Invariance, PTL DEF IInv

\* IN_PROGRESS means somebody engaged.
THEOREM Engagement == Spec => []EngagedIsReal
BY Invariance, PTL DEF IInv

-------------------------------------------------------------------------------
(* Steps *)

\* What a step may do to a conversation that is DONE.
LEMMA DoneStep ==
  ASSUME IInv, [Next]_vars, status = "DONE", status' # "DONE"
  PROVE  ingested' # ingested \/ moves' # moves
<1> USE DEF IInv, ingressVars, closeVars, runVars, attemptVars, senderVars
<1>1. CASE \E m \in Message : IngestCommits(m)
  BY <1>1 DEF IngestCommits, ReadingIsOpen
<1>2. CASE \E event \in {"operatorSetUnread", "operatorSetInProgress", "operatorSetStale"} :
             UpdateStatus(event)
  BY <1>2 DEF UpdateStatus, StatusChanges, TypeOK
<1>3. CASE MarkDoneWithOverride \/ \E c \in Closer : CloseCommits(c)
  BY <1>3 DEF MarkDoneWithOverride, CloseCommits, StatusChanges, TypeOK
<1>4. CASE \E s \in Sender : Deliver(s)
  BY <1>4 DEF Deliver, SendReply, RetryDelivery, Loads, RecordAttempt, SlackAccepts,
              UploadsFail, SendFails, RecordSuccess, RecordFails, Finishes, RecordFailure, Crash
<1>5. CASE \/ \E m \in Message : IngestReads(m) \/ IngestFails(m)
           \/ RunCompletes
           \/ \E c \in Closer : DoneChecks(c) \/ CloseChecks(c) \/ CloseFails(c)
           \/ UNCHANGED vars
  BY <1>5 DEF IngestReads, IngestFails, RunCompletes, DoneChecks, CloseChecks, CloseFails, vars
<1> QED
  BY <1>1, <1>2, <1>3, <1>4, <1>5 DEF Next

\* Only ingress files a message, and it never writes DONE with it.
LEMMA MessageStep ==
  ASSUME IInv, [Next]_vars, ingested' # ingested
  PROVE  status' # "DONE"
<1> USE DEF ingressVars, closeVars, runVars, attemptVars, senderVars
<1>1. PICK m \in Message : IngestCommits(m)
  BY DEF Next, vars, IngestReads, IngestFails, RunCompletes, UpdateStatus,
         MarkDoneWithOverride, DoneChecks, CloseChecks, CloseCommits, CloseFails, Deliver,
         SendReply, RetryDelivery, Loads, RecordAttempt, SlackAccepts, UploadsFail, SendFails,
         RecordSuccess, RecordFails, Finishes, RecordFailure, Crash
<1> QED
  BY <1>1 DEF IngestCommits, IInv, ReadingIsOpen

\* A reply reopens nothing, however late it is recorded.
THEOREM DoneKept == Spec => DoneIsKept
<1>1. ASSUME IInv, [Next]_vars
      PROVE  [status = "DONE" /\ status' # "DONE" => ingested' # ingested \/ moves' # moves]_vars
  BY <1>1, DoneStep
<1> QED
  BY <1>1, Invariance, PTL DEF Spec, DoneIsKept

\* No message is filed under a conversation that stays DONE.
THEOREM MessagesReopen == Spec => MessageReopens
<1>1. ASSUME IInv, [Next]_vars
      PROVE  [ingested' # ingested => status' # "DONE"]_vars
  BY <1>1, MessageStep
<1> QED
  BY <1>1, Invariance, PTL DEF Spec, MessageReopens

-----------------------------------------------------------------------------
(* InboxRealtime *)

\* A refresh that is due is due after one that is in flight.
DueIsAwaited == needs => fetch["stream"] # Idle

\* While it is enabled, the recovery poll has its timer set or is waiting for an answer.
PollLives == Enabled => timer \/ fetch["poll"] # Idle \/ fetch["focus"] # Idle

TabInv == TabTypeOK /\ HeardIsAsked /\ DueIsAwaited /\ PollLives

LEMMA Calling ==
  /\ Idle \in Calls /\ Sent \in Calls /\ Sent # Idle /\ Idle.stage = "idle" /\ Sent.stage = "sent"
  /\ \A v \in Nat : [stage |-> "read", version |-> v] \in Calls /\ [stage |-> "read", version |-> v] # Idle
  /\ {"mount", "stream", "poll", "focus"} \subseteq Fetcher /\ Command \subseteq Fetcher
<1>1. Idle.stage = "idle" /\ Sent.stage = "sent"
  BY DEF Idle, Sent
<1>2. \A v \in Nat : [stage |-> "read", version |-> v].stage = "read"
  OBVIOUS
<1>3. Idle \in Calls /\ Sent \in Calls /\ \A v \in Nat : [stage |-> "read", version |-> v] \in Calls
  BY DEF Idle, Sent, Calls
<1>4. Sent # Idle /\ \A v \in Nat : [stage |-> "read", version |-> v] # Idle
  BY <1>1, <1>2
<1>. QED BY <1>1, <1>3, <1>4 DEF Fetcher

LEMMA TabInvInit == TabInit => TabInv
<1>. SUFFICES ASSUME TabInit PROVE TabInv
  OBVIOUS
<1>1. NoList \in Lists
  BY DEF NoList, Lists
<1>2. TabTypeOK
  <2>1. fetch \in [Fetcher -> Calls]
    BY Calling DEF TabInit
  <2>2. command \in [Command -> {"idle", "sent", "committed", "emitted", "refreshing", "over"}]
    BY DEF TabInit
  <2>3. previous \in [Command -> Lists] /\ board \in Lists
    BY <1>1 DEF TabInit
  <2>4. wire \in Seq(EventType)
    BY DEF TabInit
  <2>5. /\ recovers \in BOOLEAN /\ needs \in BOOLEAN /\ loading \in BOOLEAN /\ mutating \in BOOLEAN
        /\ timer \in BOOLEAN /\ missing \in BOOLEAN
    BY DEF TabInit
  <2>. QED BY <2>1, <2>2, <2>3, <2>4, <2>5 DEF TabInit, TabTypeOK
<1>. QED BY <1>2 DEF TabInv, TabInit, HeardIsAsked, DueIsAwaited, PollLives, Enabled

\* The variables no action of the tab's list touches.
LEMMA TabFrame ==
  ASSUME TabInv, UNCHANGED <<fetch, needs, loading, mutating, timer, missing>>
  PROVE  HeardIsAsked' /\ DueIsAwaited' /\ PollLives'
BY DEF TabInv, HeardIsAsked, DueIsAwaited, PollLives, Enabled

LEMMA EventAdded ==
  ASSUME TabTypeOK
  PROVE  Announced \in Seq(EventType) /\ <<[type |-> "connected", version |-> db]>> \in Seq(EventType)
<1>1. [type |-> "changed", version |-> db] \in EventType /\ [type |-> "connected", version |-> db] \in EventType
  BY DEF TabTypeOK, EventType
<1>2. wire \in Seq(EventType)
  BY DEF TabTypeOK
<1>. QED BY <1>1, <1>2 DEF Announced

LEMMA StreamSteps ==
  ASSUME TabInv, \/ Changes \/ Emits \/ EmitIsLost \/ ListenerEnds \/ ListenerReturns
                 \/ StreamIsServed \/ StreamErrs \/ Reconnects \/ Hides
  PROVE  TabInv'
<1>1. TabTypeOK
  BY DEF TabInv
<1>2. UNCHANGED <<fetch, needs, loading, mutating, timer, missing, board, command, previous>>
  BY DEF Changes, Emits, EmitIsLost, ListenerEnds, ListenerReturns, StreamIsServed, StreamErrs, Reconnects, Hides,
         listVars, commandVars
<1>3. db' \in Nat /\ unsent' \in Nat /\ changes' \in Nat /\ hides' \in Nat /\ faults' \in Nat
  BY <1>1 DEF TabTypeOK, Changes, Emits, EmitIsLost, ListenerEnds, ListenerReturns, StreamIsServed, StreamErrs,
         Reconnects, Hides, storeVars, sourceVars, Fault
<1>4. source' \in {"none", "requested", "open", "deaf", "backoff"} /\ recovers' \in BOOLEAN
  BY <1>1 DEF TabTypeOK, Changes, Emits, EmitIsLost, ListenerEnds, ListenerReturns, StreamIsServed, StreamErrs,
         Reconnects, Hides, sourceVars
<1>5. wire' \in Seq(EventType)
  <2>1. wire \in Seq(EventType) /\ <<>> \in Seq(EventType)
    BY <1>1 DEF TabTypeOK
  <2>2. wire' \in {wire, <<>>, Announced, <<[type |-> "connected", version |-> db]>>}
    BY DEF Changes, Emits, EmitIsLost, ListenerEnds, ListenerReturns, StreamIsServed, StreamErrs, Reconnects, Hides,
           sourceVars
  <2>. QED BY <1>1, <2>1, <2>2, EventAdded
<1>6. TabTypeOK'
  BY <1>1, <1>2, <1>3, <1>4, <1>5 DEF TabTypeOK
<1>. QED BY <1>2, <1>6, TabFrame DEF TabInv

\* What a call for the list leaves.
LEMMA AsksMoves ==
  ASSUME TabTypeOK, NEW f \in Fetcher, Asks(f)
  PROVE  /\ fetch' \in [Fetcher -> Calls] /\ loading' \in BOOLEAN
         /\ \A g \in Fetcher : fetch[g] # Idle => fetch'[g] # Idle
         /\ fetch'[f] # Idle
BY Calling DEF TabTypeOK, Asks

\* The poll's timer follows Enabled: one that becomes enabled sets it.
LEMMA PollingMoves ==
  ASSUME NEW left \in BOOLEAN, TabTypeOK, mutating' \in BOOLEAN, loading' \in BOOLEAN, Polling(left)
  PROVE  timer' \in BOOLEAN /\ (Enabled' => timer' \/ (Enabled /\ timer' = left))
<1>1. Enabled \in BOOLEAN /\ Enabled' \in BOOLEAN
  BY DEF Enabled
<1>. QED BY <1>1 DEF Polling

LEMMA TabFacts ==
  ASSUME TabInv
  PROVE  /\ TabTypeOK /\ fetch \in [Fetcher -> Calls] /\ needs \in BOOLEAN /\ loading \in BOOLEAN
         /\ mutating \in BOOLEAN /\ timer \in BOOLEAN /\ missing \in BOOLEAN /\ recovers \in BOOLEAN
         /\ wire \in Seq(EventType) /\ db \in Nat /\ faults \in Nat /\ board \in Lists
         /\ command \in [Command -> {"idle", "sent", "committed", "emitted", "refreshing", "over"}]
         /\ previous \in [Command -> Lists]
         /\ (missing => needs) /\ (needs => fetch["stream"] # Idle)
         /\ (Enabled => timer \/ fetch["poll"] # Idle \/ fetch["focus"] # Idle)
BY DEF TabInv, TabTypeOK, HeardIsAsked, DueIsAwaited, PollLives

LEMMA HearsStep == ASSUME TabInv, HearsEvent PROVE TabInv'
<1>. USE TabFacts
<1>1. UNCHANGED <<db, unsent, changes, source, hides, board, command, previous, mutating, faults>>
  BY DEF HearsEvent, storeVars, commandVars
<1>2. wire' \in Seq(EventType)
  BY DEF HearsEvent
<1>3. recovers' \in BOOLEAN
  BY DEF HearsEvent
<1>4. /\ fetch' \in [Fetcher -> Calls] /\ loading' \in BOOLEAN /\ needs' \in BOOLEAN /\ missing' \in BOOLEAN
      /\ \A g \in Fetcher : fetch[g] # Idle => fetch'[g] # Idle
      /\ (missing' => needs') /\ (needs' => fetch'["stream"] # Idle)
  <2>1. CASE UNCHANGED <<fetch, loading, needs, missing>>
    BY <2>1
  <2>2. CASE /\ RequestsRefresh
             /\ missing' = \/ missing /\ fetch["stream"] # Idle
                           \/ fetch["stream"].stage = "read" /\ Head(wire).version > fetch["stream"].version
    <3>1. missing' \in BOOLEAN
      BY <2>2
    <3>2. CASE fetch["stream"] = Idle
      <4>1. Asks("stream") /\ needs' = needs
        BY <2>2, <3>2 DEF RequestsRefresh
      <4>2. ~missing'
        BY <2>2, <3>2, Calling
      <4>. QED BY <3>1, <4>1, <4>2, AsksMoves, Calling
    <3>3. CASE fetch["stream"] # Idle
      <4>1. needs' = TRUE /\ fetch' = fetch /\ loading' = loading
        BY <2>2, <3>3 DEF RequestsRefresh
      <4>. QED BY <3>1, <3>3, <4>1
    <3>. QED BY <3>2, <3>3
  <2>. QED BY <2>1, <2>2 DEF HearsEvent
<1>5. timer' \in BOOLEAN /\ (Enabled' => timer' \/ (Enabled /\ timer' = timer))
  BY <1>1, <1>4, PollingMoves DEF HearsEvent
<1>6. TabTypeOK'
  BY <1>1, <1>2, <1>3, <1>4, <1>5 DEF TabTypeOK
<1>7. PollLives'
  BY <1>4, <1>5, Calling DEF PollLives
<1>. QED BY <1>4, <1>6, <1>7 DEF TabInv, HeardIsAsked, DueIsAwaited

LEMMA ReadStep == ASSUME TabInv, NEW f \in Fetcher, ListIsRead(f) PROVE TabInv'
<1>. USE TabFacts
<1>1. UNCHANGED <<db, unsent, changes, source, recovers, wire, hides, needs, board, loading, timer, missing,
                  command, previous, mutating, faults>>
  BY DEF ListIsRead, storeVars, sourceVars, commandVars
<1>2. /\ fetch' \in [Fetcher -> Calls] /\ \A g \in Fetcher : fetch[g] # Idle => fetch'[g] # Idle
  BY Calling DEF ListIsRead
<1>3. TabTypeOK'
  BY <1>1, <1>2 DEF TabTypeOK
<1>. QED BY <1>1, <1>2, <1>3, Calling DEF TabInv, HeardIsAsked, DueIsAwaited, PollLives, Enabled

LEMMA OverMoves ==
  ASSUME TabTypeOK, NEW c \in Command, Over(c)
  PROVE  /\ command' \in [Command -> {"idle", "sent", "committed", "emitted", "refreshing", "over"}]
         /\ previous' \in [Command -> Lists] /\ mutating' \in BOOLEAN
<1>1. NoList \in Lists
  BY DEF NoList, Lists
<1>. QED BY <1>1 DEF TabTypeOK, Over

\* What follows a call, whether it was answered or failed.
LEMMA SettlesStep ==
  ASSUME TabInv, NEW f \in Fetcher, Settles(f), board' \in Lists, faults' \in Nat
  PROVE  TabInv'
<1>. USE TabFacts
<1>. DEFINE again == f = "stream" /\ needs
<1>1. UNCHANGED <<db, unsent, changes, source, recovers, wire, hides>>
  BY DEF Settles, storeVars, sourceVars
<1>2. /\ fetch' = [fetch EXCEPT ![f] = IF again THEN Sent ELSE Idle]
      /\ needs' = (needs /\ f # "stream") /\ missing' = (missing /\ ~again)
      /\ loading' = (again /\ board' = NoList)
      /\ Polling(timer \/ Reschedules(f))
  BY DEF Settles
<1>3. /\ command' \in [Command -> {"idle", "sent", "committed", "emitted", "refreshing", "over"}]
      /\ previous' \in [Command -> Lists] /\ mutating' \in BOOLEAN
  <2>1. CASE f \in Command
    BY <2>1, OverMoves DEF Settles
  <2>2. CASE f \notin Command
    BY <2>2 DEF Settles, commandVars
  <2>. QED BY <2>1, <2>2
<1>4. /\ needs' \in BOOLEAN /\ missing' \in BOOLEAN /\ loading' \in BOOLEAN /\ (missing' => needs')
  BY <1>2
<1>5. fetch' \in [Fetcher -> Calls] /\ \A g \in Fetcher : g # f => fetch'[g] = fetch[g]
  BY <1>2, Calling
<1>6. needs' => fetch'["stream"] # Idle
  BY <1>2, <1>5, Calling
<1>7. PICK left \in BOOLEAN : (left <=> (timer \/ Reschedules(f))) /\ Polling(left)
  <2>1. PICK left \in BOOLEAN : left <=> (timer \/ Reschedules(f))
    OBVIOUS
  <2>2. Polling(left)
    BY <1>2, <2>1 DEF Polling
  <2>. QED BY <2>1, <2>2
<1>8. timer' \in BOOLEAN /\ (Enabled' => timer' \/ (Enabled /\ timer' = left))
  BY <1>3, <1>4, <1>7, PollingMoves
<1>9. PollLives'
  <2>. SUFFICES ASSUME Enabled', ~timer' PROVE fetch'["poll"] # Idle \/ fetch'["focus"] # Idle
    BY DEF PollLives
  <2>1. Enabled /\ ~timer /\ f \notin {"poll", "focus"}
    BY <1>7, <1>8 DEF Reschedules
  <2>. QED BY <2>1, <1>5, Calling
<1>10. TabTypeOK'
  BY <1>1, <1>3, <1>4, <1>5, <1>8 DEF TabTypeOK
<1>. QED BY <1>4, <1>6, <1>9, <1>10 DEF TabInv, HeardIsAsked, DueIsAwaited

LEMMA ArrivesStep == ASSUME TabInv, NEW f \in Fetcher, ListArrives(f) \/ ListFails(f) PROVE TabInv'
<1>. USE TabFacts
<1>1. CASE ListArrives(f)
  <2>1. fetch[f].version \in Nat
    BY DEF Calls
  <2>2. board' \in Lists
    BY <1>1, <2>1 DEF ListArrives, Lists
  <2>. QED BY <1>1, <2>2, SettlesStep DEF ListArrives
<1>2. CASE ListFails(f)
  <2>1. board' \in Lists /\ faults' \in Nat
    BY <1>2 DEF ListFails, Fault
  <2>. QED BY <1>2, <2>1, SettlesStep DEF ListFails
<1>. QED BY <1>1, <1>2

\* The poll and the tab that is looked at again.
LEMMA PollStep == ASSUME TabInv, Polls \/ Shows PROVE TabInv'
<1>. USE TabFacts
<1>1. /\ UNCHANGED <<db, unsent, changes, recovers, wire, hides, needs, board, missing, command, previous, mutating, faults>>
      /\ source' \in {"none", "requested", "open", "deaf", "backoff"}
  BY DEF Polls, Shows, storeVars, sourceVars, commandVars, TabTypeOK
<1>2. CASE Polls
  <2>1. /\ fetch' \in [Fetcher -> Calls] /\ loading' \in BOOLEAN /\ fetch'["poll"] # Idle
        /\ \A g \in Fetcher : fetch[g] # Idle => fetch'[g] # Idle
    BY <1>2, AsksMoves, Calling DEF Polls
  <2>2. timer' \in BOOLEAN
    BY <1>1, <1>2, <2>1, PollingMoves DEF Polls
  <2>3. TabTypeOK'
    BY <1>1, <2>1, <2>2 DEF TabTypeOK
  <2>. QED BY <1>1, <2>1, <2>3, Calling DEF TabInv, HeardIsAsked, DueIsAwaited, PollLives
<1>3. CASE Shows
  <2>1. /\ fetch' \in [Fetcher -> Calls] /\ loading' \in BOOLEAN
        /\ \A g \in Fetcher : fetch[g] # Idle => fetch'[g] # Idle
        /\ (Enabled => fetch'["focus"] # Idle) /\ (~Enabled => loading' = loading)
    <3>1. CASE Enabled
      BY <1>3, <3>1, AsksMoves, Calling DEF Shows
    <3>2. CASE ~Enabled
      BY <1>3, <3>2 DEF Shows
    <3>. QED BY <3>1, <3>2
  <2>2. PICK left \in BOOLEAN : (left <=> (timer /\ ~Enabled)) /\ Polling(left)
    <3>1. PICK left \in BOOLEAN : left <=> (timer /\ ~Enabled)
      OBVIOUS
    <3>2. Polling(left)
      BY <1>3, <3>1 DEF Shows, Polling
    <3>. QED BY <3>1, <3>2
  <2>3. timer' \in BOOLEAN /\ (Enabled' => timer' \/ (Enabled /\ timer' = left))
    BY <1>1, <2>1, <2>2, PollingMoves
  <2>4. TabTypeOK'
    BY <1>1, <2>1, <2>3 DEF TabTypeOK
  <2>5. PollLives'
    BY <2>1, <2>3 DEF PollLives
  <2>. QED BY <1>1, <2>1, <2>4, <2>5, Calling DEF TabInv, HeardIsAsked, DueIsAwaited
<1>. QED BY <1>2, <1>3

\* A step of a command that leaves the calls alone, but may change what is shown.
LEMMA ShownStep ==
  ASSUME TabInv, UNCHANGED <<db, unsent, changes, source, recovers, wire, hides, fetch, needs, loading, missing>>,
         board' \in Lists, mutating' \in BOOLEAN, previous' \in [Command -> Lists], faults' \in Nat, Polling(timer),
         command' \in [Command -> {"idle", "sent", "committed", "emitted", "refreshing", "over"}]
  PROVE  TabInv'
<1>. USE TabFacts
<1>1. timer' \in BOOLEAN /\ (Enabled' => timer' \/ (Enabled /\ timer' = timer))
  BY PollingMoves
<1>2. TabTypeOK'
  BY <1>1 DEF TabTypeOK
<1>. QED BY <1>1, <1>2 DEF TabInv, HeardIsAsked, DueIsAwaited, PollLives

LEMMA CommandSteps ==
  ASSUME TabInv, NEW c \in Command,
         Commands(c) \/ CommandCommits(c) \/ CommandEmits(c) \/ CommandIsAnswered(c) \/ CommandFails(c)
  PROVE  TabInv'
<1>. USE TabFacts
<1>1. CASE Commands(c)
  <2>1. PICK b \in Lists : b = board
    OBVIOUS
  <2>2. board' = [b EXCEPT !.kind = "guess"]
    BY <1>1, <2>1 DEF Commands
  <2>3. board' \in Lists
    BY <2>2 DEF Lists
  <2>4. /\ UNCHANGED <<db, unsent, changes, source, recovers, wire, hides, fetch, needs, loading, missing, faults>>
        /\ command' \in [Command -> {"idle", "sent", "committed", "emitted", "refreshing", "over"}]
        /\ previous' \in [Command -> Lists] /\ mutating' \in BOOLEAN /\ Polling(timer)
    BY <1>1 DEF Commands, storeVars, sourceVars
  <2>. QED BY <2>3, <2>4, ShownStep
<1>2. CASE CommandCommits(c)
  <2>1. /\ UNCHANGED <<unsent, changes, source, recovers, wire, hides, fetch, needs, board, loading, timer, missing,
                       previous, mutating, faults>>
        /\ db' \in Nat /\ command' \in [Command -> {"idle", "sent", "committed", "emitted", "refreshing", "over"}]
    BY <1>2 DEF CommandCommits, sourceVars, listVars
  <2>2. TabTypeOK'
    BY <2>1 DEF TabTypeOK
  <2>. QED BY <2>1, <2>2, TabFrame DEF TabInv
<1>3. CASE CommandEmits(c)
  <2>1. /\ UNCHANGED <<db, unsent, changes, source, recovers, hides, fetch, needs, board, loading, timer, missing,
                       previous, mutating, faults>>
        /\ wire' \in Seq(EventType) /\ command' \in [Command -> {"idle", "sent", "committed", "emitted", "refreshing", "over"}]
    BY <1>3, EventAdded DEF CommandEmits, storeVars, listVars
  <2>2. TabTypeOK'
    BY <2>1 DEF TabTypeOK
  <2>. QED BY <2>1, <2>2, TabFrame DEF TabInv
<1>4. CASE CommandIsAnswered(c)
  <2>1. /\ UNCHANGED <<db, unsent, changes, source, recovers, wire, hides, needs, board, missing, previous, mutating, faults>>
        /\ command' \in [Command -> {"idle", "sent", "committed", "emitted", "refreshing", "over"}] /\ Polling(timer)
    BY <1>4 DEF CommandIsAnswered, storeVars, sourceVars
  <2>2. /\ fetch' \in [Fetcher -> Calls] /\ loading' \in BOOLEAN
        /\ \A g \in Fetcher : fetch[g] # Idle => fetch'[g] # Idle
    BY <1>4, AsksMoves, Calling DEF CommandIsAnswered
  <2>3. timer' \in BOOLEAN /\ (Enabled' => timer' \/ (Enabled /\ timer' = timer))
    BY <2>1, <2>2, PollingMoves
  <2>4. TabTypeOK'
    BY <2>1, <2>2, <2>3 DEF TabTypeOK
  <2>5. PollLives'
    BY <2>2, <2>3, Calling DEF PollLives
  <2>. QED BY <2>1, <2>2, <2>4, <2>5, Calling DEF TabInv, HeardIsAsked, DueIsAwaited
<1>5. CASE CommandFails(c)
  <2>1. /\ UNCHANGED <<db, unsent, changes, source, recovers, wire, hides, fetch, needs, loading, missing>>
        /\ board' \in Lists /\ Polling(timer) /\ Over(c)
    BY <1>5 DEF CommandFails, storeVars, sourceVars
  <2>2. faults' \in Nat
    BY <1>5 DEF CommandFails, Fault
  <2>. QED BY <2>1, <2>2, OverMoves, ShownStep
<1>. QED BY <1>1, <1>2, <1>3, <1>4, <1>5

LEMMA TabInvNext == TabInv /\ [TabNext]_tabVars => TabInv'
<1>. SUFFICES ASSUME TabInv, [TabNext]_tabVars PROVE TabInv'
  OBVIOUS
<1>1. CASE UNCHANGED tabVars
  <2>1. UNCHANGED <<db, unsent, changes, source, recovers, wire, hides, fetch, needs, board, loading, timer, missing,
                    command, previous, mutating, faults>>
    BY <1>1 DEF tabVars, storeVars, sourceVars, listVars, commandVars
  <2>2. TabTypeOK'
    BY <2>1 DEF TabInv, TabTypeOK
  <2>. QED BY <2>1, <2>2, TabFrame DEF TabInv
<1>. QED BY <1>1, StreamSteps, HearsStep, ReadStep, ArrivesStep, PollStep, CommandSteps DEF TabNext

LEMMA TabInvariance == TabSpec => []TabInv
BY TabInvInit, TabInvNext, PTL DEF TabSpec

\* The tab's stream, fetches, timer and commands keep their types.
THEOREM TabTypeCorrect == TabSpec => []TabTypeOK
<1>1. TabInv => TabTypeOK
  BY DEF TabInv
<1>. QED BY <1>1, TabInvariance, PTL

\* No event is lost by coalescing, for any number of changes, commands and faults: what
\* the stream told of while a refresh was in flight is followed by another refresh
\* (requestInboxRefresh: inFlight, needsRefresh).
THEOREM HeardIsAlwaysAsked == TabSpec => []HeardIsAsked
<1>1. TabInv => HeardIsAsked
  BY DEF TabInv
<1>. QED BY <1>1, TabInvariance, PTL

\* A refresh that is due is never left without one in flight, at whose end it starts:
\* the flag alone would make nobody ask (requestInboxRefresh, finally).
THEOREM DueIsAlwaysAwaited == TabSpec => []DueIsAwaited
<1>1. TabInv => DueIsAwaited
  BY DEF TabInv
<1>. QED BY <1>1, TabInvariance, PTL

\* The recovery poll does not die: whenever the tab neither loads nor runs a command,
\* the timer is set, or a poll is in flight that will set it, however loading and
\* commands have disabled and enabled it before (useVisibilityAwarePolling).
THEOREM PollAlwaysLives == TabSpec => []PollLives
<1>1. TabInv => PollLives
  BY DEF TabInv
<1>. QED BY <1>1, TabInvariance, PTL

=============================================================================
