------------------------- MODULE SlackIngestion_proofs -------------------------
(***************************************************************************)
(* Proofs about SlackIngestion, for any events, payloads, conversations    *)
(* and files and any numbers of deliveries and attempts.  The invariant    *)
(* follows an event along its way: a row has a delivery that stands for it *)
(* (RowHasDelivery), what an attempt has done shows in its step            *)
(* (FiledIsCommitted), a file belongs to the event it was filed with       *)
(* (FiledFiles), and a mirrored file to an attempt that is over            *)
(* (UploadedByAttempt).                                                    *)
(***************************************************************************)
EXTENDS SlackIngestion, Integers, TLAPS

USE DEF rowVars, engineVars, attemptVars, debounceVars

LEMMA Indices ==
  /\ \A e \in Event, n \in Nat : n \in 1..MaxDeliveries[e] => <<e, n>> \in Delivery
  /\ \A e \in Event, n \in Nat : n \in 1..PipelineAttempts[e] => <<e, n>> \in PipelineRun
  /\ \A e \in Event, n \in 1..MirrorAttempts : <<e, n>> \in MirrorRun
  /\ \A r \in PipelineRun : r[1] \in Event /\ r[2] \in 1..PipelineAttempts[r[1]] /\ r = <<r[1], r[2]>>
  /\ \A r \in MirrorRun : r[1] \in Event /\ r[2] \in 1..MirrorAttempts /\ r = <<r[1], r[2]>>
BY DEF Delivery, PipelineRun, MirrorRun

LEMMA Bounds ==
  /\ \A e \in Event : MaxDeliveries[e] \in Nat \ {0} /\ PipelineAttempts[e] \in Nat \ {0}
  /\ \A e \in Event : 1 \in 1..PipelineAttempts[e]
  /\ GateAttempts \in Nat \ {0} /\ MirrorAttempts \in Nat \ {0} /\ 1 \in 1..MirrorAttempts
BY BoundsAssumption

-------------------------------------------------------------------------------
(* Types *)

FreshTry == \A e \in Event : pc[e] = "none" => try[e] = 1
TypeInv == TypeOK /\ FreshTry

LEMMA InitType == Init => TypeInv
<1>. SUFFICES ASSUME Init PROVE TypeInv
  OBVIOUS
<1>1. NoAnswer \in [conversation : Conversation \cup {NoConversation}, by : Nat]
  BY DEF NoAnswer
<1>2. payload \in [Event -> Payload]
  BY PayloadsAssumption DEF Init
<1>. QED BY <1>1, <1>2, ThreadAssumption DEF Init, TypeInv, TypeOK, FreshTry, Waits, Closed

LEMMA WebhookType ==
  ASSUME TypeInv, NEW e \in Event, NEW n \in 1..MaxDeliveries[e], Webhook(e, n)
  PROVE  TypeInv'
<1>. USE DEF TypeInv
<1>0. n \in Nat
  BY Bounds
<1>1. PICK d \in Delivery : d = <<e, n>>
  BY <1>0, Indices
<1>2. PICK r \in PipelineRun : r = <<e, 1>>
  BY Indices, Bounds
<1>3. CASE Delivers(e, n)
  <2>1. http' \in [Delivery -> {"none", "fresh", "created", "acked", "refused", "stranded"}]
    <3>1. \/ http' = [http EXCEPT ![d] = IF row[e] = "none" THEN "fresh" ELSE "acked"]
          \/ http' = [http EXCEPT ![d] = "refused"]
      BY <1>1, <1>3 DEF Delivers
    <3>. QED BY <3>1 DEF TypeOK
  <2>2. UNCHANGED <<payload, row, filed, files, pc, try, answer, step, mirror, debounce, signaled, parent>>
    BY <1>3 DEF Delivers, Slack
  <2>. QED BY <2>1, <2>2 DEF TypeOK, HasFile, FreshTry
<1>4. CASE CreatesRow(e, n)
  BY <1>1, <1>4 DEF CreatesRow, TypeOK, HasFile, FreshTry
<1>5. CASE HandlerFails(e, n)
  BY <1>1, <1>5 DEF HandlerFails, Slack, TypeOK, HasFile, FreshTry
<1>6. CASE Dispatches(e, n)
  <2>1. /\ http' \in [Delivery -> {"none", "fresh", "created", "acked", "refused", "stranded"}]
        /\ UNCHANGED <<payload, row, filed, files, try, answer, mirror, debounce, signaled, parent>>
    BY <1>1, <1>6 DEF Dispatches, TypeOK
  <2>2. /\ pc' = [pc EXCEPT ![e] = IF @ = "none" THEN "pipeline" ELSE @]
        /\ step' = [step EXCEPT ![r] = IF @ = "none" THEN "begun" ELSE @]
    BY <1>2, <1>6 DEF Dispatches, StartsWorkflow
  <2>3. /\ pc' \in [Event -> Waits \cup Closed \cup {"none"}]
        /\ step' \in [PipelineRun -> {"none", "begun", "loaded", "committed", "over"}]
    BY <2>2 DEF TypeOK, Waits
  <2>4. \A x \in Event : /\ pc'[x] = pc[x] \/ (pc[x] = "none" /\ pc'[x] = "pipeline")
                         /\ try'[x] = try[x] /\ (pc'[x] = "none" => pc[x] = "none")
    BY <2>1, <2>2 DEF TypeOK
  <2>5. \A x \in Event :
          /\ pc'[x] = "pipeline" => try'[x] <= PipelineAttempts[x]
          /\ pc'[x] = "mirror" => try'[x] <= MirrorAttempts /\ HasFile(x)
          /\ pc'[x] = "none" => try'[x] = 1
    BY <2>4, Bounds DEF TypeOK, FreshTry
  <2>. QED BY <2>1, <2>3, <2>5 DEF TypeOK, HasFile, FreshTry
<1>. QED BY <1>3, <1>4, <1>5, <1>6 DEF Webhook

\* pc and try are well typed after a step that gives an event's workflow its
\* next wait, or its next attempt.
EngineOK ==
  /\ pc \in [Event -> Waits \cup Closed \cup {"none"}]
  /\ try \in [Event -> Nat \ {0}]
  /\ \A e \in Event :
       /\ pc[e] = "pipeline" => try[e] <= PipelineAttempts[e]
       /\ pc[e] = "mirror" => try[e] <= MirrorAttempts /\ HasFile(e)
       /\ pc[e] = "none" => try[e] = 1

LEMMA GoesToType ==
  ASSUME TypeInv, NEW e \in Event, pc[e] # "none", UNCHANGED payload,
         NEW w \in (Waits \cup Closed) \ {"pipeline"}, w = "mirror" => HasFile(e), GoesTo(e, w)
  PROVE  EngineOK' /\ pc'[e] = w
<1>1. /\ pc' = [pc EXCEPT ![e] = w]
      /\ try' = [try EXCEPT ![e] = IF w = "completed" \/ w = "failed" THEN @ ELSE 1]
  BY DEF GoesTo
<1>2. pc' \in [Event -> Waits \cup Closed \cup {"none"}] /\ try' \in [Event -> Nat \ {0}]
  BY <1>1 DEF TypeInv, TypeOK
<1>3. \A x \in Event \ {e} : pc'[x] = pc[x] /\ try'[x] = try[x]
  BY <1>1 DEF TypeInv, TypeOK
<1>4. pc'[e] = w /\ w # "none" /\ (w = "mirror" => try'[e] = 1)
  BY <1>1 DEF TypeInv, TypeOK, Waits, Closed
<1>. QED BY <1>2, <1>3, <1>4, Bounds DEF TypeInv, TypeOK, EngineOK, FreshTry, HasFile

LEMMA TakesAnswerType ==
  ASSUME TypeInv, NEW e \in Event, NEW n, UNCHANGED payload,
         NEW a \in [conversation : Conversation \cup {NoConversation}, by : Nat],
         TakesAnswer(e, n, a)
  PROVE  /\ EngineOK'
         /\ answer' \in [Event -> [conversation : Conversation \cup {NoConversation}, by : Nat]]
         /\ mirror' \in [MirrorRun -> {"none", "begun", "loaded", "over"}]
<1>1. CASE ~IsCurrent(e, n, "pipeline")
  BY <1>1 DEF TakesAnswer, TypeInv, TypeOK, EngineOK, FreshTry, HasFile
<1>2. CASE IsCurrent(e, n, "pipeline")
  <2>1. answer' = [answer EXCEPT ![e] = a] /\ pc[e] # "none"
    BY <1>2 DEF TakesAnswer, IsCurrent
  <2>2. CASE a.by # 0 /\ HasFile(e) /\ files[FileOf(e)] = "PENDING"
    <3>1. PICK r \in MirrorRun : r = <<e, 1>>
      BY Indices, Bounds
    <3>2. GoesTo(e, "mirror") /\ mirror' = [mirror EXCEPT ![r] = "begun"]
      BY <1>2, <2>2, <3>1 DEF TakesAnswer
    <3>3. EngineOK'
      BY <2>1, <2>2, <3>2, GoesToType DEF Waits
    <3>. QED BY <2>1, <3>2, <3>3 DEF TypeInv, TypeOK
  <2>3. CASE ~(a.by # 0 /\ HasFile(e) /\ files[FileOf(e)] = "PENDING")
    <3>1. mirror' = mirror /\ (GoesTo(e, "completed") \/ GoesTo(e, "gate"))
      BY <1>2, <2>3 DEF TakesAnswer
    <3>2. EngineOK'
      BY <2>1, <3>1, GoesToType DEF Waits, Closed
    <3>. QED BY <2>1, <3>1, <3>2 DEF TypeInv, TypeOK
  <2>. QED BY <2>2, <2>3
<1>. QED BY <1>1, <1>2

LEMMA RetriesType ==
  ASSUME TypeInv, NEW e \in Event, UNCHANGED payload, pc[e] = "pipeline", RetriesPipeline(e)
  PROVE  EngineOK'
<1>1. CASE try[e] < PipelineAttempts[e]
  <2>1. try' = [try EXCEPT ![e] = @ + 1] /\ pc' = pc
    BY <1>1 DEF RetriesPipeline
  <2>. QED BY <1>1, <2>1, Bounds DEF TypeInv, TypeOK, EngineOK, FreshTry, HasFile
<1>2. CASE ~(try[e] < PipelineAttempts[e])
  <2>1. GoesTo(e, "failed")
    BY <1>2 DEF RetriesPipeline
  <2>. QED BY <2>1, GoesToType DEF Closed
<1>. QED BY <1>1, <1>2

LEMMA PipelineType ==
  ASSUME TypeInv, NEW e \in Event, NEW n \in 1..PipelineAttempts[e], Pipeline(e, n)
  PROVE  TypeInv'
<1>. USE DEF TypeInv
<1>0. n \in Nat \ {0}
  BY Bounds
<1>1. PICK r \in PipelineRun : r = <<e, n>>
  BY <1>0, Indices
<1>2. ASSUME NEW to \in {"loaded", "committed", "over"}, step' = [step EXCEPT ![<<e, n>>] = to]
      PROVE  step' \in [PipelineRun -> {"none", "begun", "loaded", "committed", "over"}]
  BY <1>1, <1>2 DEF TypeOK
<1>3. CASE LoadsEvent(e, n)
  <2>1. UNCHANGED <<payload, http, row, filed, files, debounce, signaled, parent>>
    BY <1>3 DEF LoadsEvent
  <2>2. CASE row[e] = "PROCESSED"
    <3>1. PICK c \in Latest : TakesAnswer(e, n, [conversation |-> c, by |-> 0])
      BY <1>3, <2>2 DEF LoadsEvent
    <3>2. [conversation |-> c, by |-> 0] \in [conversation : Conversation \cup {NoConversation}, by : Nat]
      BY ThreadAssumption DEF Latest, Known
    <3>3. EngineOK' /\ answer' \in [Event -> [conversation : Conversation \cup {NoConversation}, by : Nat]]
          /\ mirror' \in [MirrorRun -> {"none", "begun", "loaded", "over"}]
      BY <2>1, <3>1, <3>2, TakesAnswerType
    <3>4. step' \in [PipelineRun -> {"none", "begun", "loaded", "committed", "over"}]
      BY <1>2, <1>3, <2>2 DEF LoadsEvent
    <3>. QED BY <2>1, <3>3, <3>4 DEF TypeOK, EngineOK, FreshTry
  <2>3. CASE row[e] # "PROCESSED"
    BY <1>2, <1>3, <2>1, <2>3 DEF LoadsEvent, TypeOK, FreshTry, HasFile
  <2>. QED BY <2>2, <2>3
<1>4. CASE DropsEvent(e, n)
  <2>1. NoAnswer \in [conversation : Conversation \cup {NoConversation}, by : Nat]
    BY DEF NoAnswer
  <2>2. EngineOK' /\ answer' \in [Event -> [conversation : Conversation \cup {NoConversation}, by : Nat]]
        /\ mirror' \in [MirrorRun -> {"none", "begun", "loaded", "over"}]
    BY <1>4, <2>1, TakesAnswerType DEF DropsEvent
  <2>3. step' \in [PipelineRun -> {"none", "begun", "loaded", "committed", "over"}]
    BY <1>2, <1>4 DEF DropsEvent
  <2>. QED BY <1>4, <2>2, <2>3 DEF DropsEvent, TypeOK, EngineOK, FreshTry
<1>5. CASE FilesEvent(e, n)
  <2>1. files' \in [File -> {"none", "PENDING", "UPLOADED", "FAILED"}]
    <3>1. CASE HasFile(e)
      <4>1. PICK state \in {"PENDING", "FAILED"} : files' = [files EXCEPT ![FileOf(e)] = state]
        BY <1>5, <3>1 DEF FilesEvent
      <4>. QED BY <4>1 DEF TypeOK
    <3>. QED BY <1>5, <3>1 DEF FilesEvent, TypeOK
  <2>2. step' \in [PipelineRun -> {"none", "begun", "loaded", "committed", "over"}]
    BY <1>2, <1>5 DEF FilesEvent
  <2>3. filed' \in [Event -> SUBSET (Nat \ {0})] /\ \A x \in Event : filed'[x] \subseteq 1..PipelineAttempts[x]
    BY <1>0, <1>5 DEF FilesEvent, TypeOK
  <2>. QED BY <1>5, <2>1, <2>2, <2>3 DEF FilesEvent, TypeOK, FreshTry, HasFile
<1>6. CASE EmitsChange(e, n)
  <2>1. [conversation |-> Thread[e], by |-> n] \in [conversation : Conversation \cup {NoConversation}, by : Nat]
    BY <1>0, ThreadAssumption
  <2>2. EngineOK' /\ answer' \in [Event -> [conversation : Conversation \cup {NoConversation}, by : Nat]]
        /\ mirror' \in [MirrorRun -> {"none", "begun", "loaded", "over"}]
    BY <1>6, <2>1, TakesAnswerType DEF EmitsChange
  <2>3. step' \in [PipelineRun -> {"none", "begun", "loaded", "committed", "over"}]
    BY <1>2, <1>6 DEF EmitsChange
  <2>. QED BY <1>6, <2>2, <2>3 DEF EmitsChange, TypeOK, EngineOK, FreshTry
<1>7. CASE PipelineFails(e, n)
  <2>1. UNCHANGED <<payload, http, row, filed, files, answer, mirror, debounce, signaled, parent>>
    BY <1>7 DEF PipelineFails
  <2>2. CASE IsCurrent(e, n, "pipeline")
    <3>1. EngineOK'
      BY <1>7, <2>1, <2>2, RetriesType DEF PipelineFails, IsCurrent
    <3>2. step' \in [PipelineRun -> {"none", "begun", "loaded", "committed", "over"}]
      BY <1>7, <2>2 DEF PipelineFails, TypeOK
    <3>. QED BY <2>1, <3>1, <3>2 DEF TypeOK, EngineOK, FreshTry
  <2>3. CASE ~IsCurrent(e, n, "pipeline")
    BY <1>2, <1>7, <2>1, <2>3 DEF PipelineFails, TypeOK, FreshTry, HasFile
  <2>. QED BY <2>2, <2>3
<1>. QED BY <1>3, <1>4, <1>5, <1>6, <1>7 DEF Pipeline

LEMMA MirrorDoneType ==
  ASSUME TypeInv, NEW e \in Event, UNCHANGED payload, pc[e] = "mirror", GoesTo(e, AfterMirror(e))
  PROVE  EngineOK' /\ pc'[e] \in {"completed", "gate"}
<1>1. CASE AfterMirror(e) = "completed"
  BY <1>1, GoesToType DEF Closed
<1>2. CASE AfterMirror(e) = "gate"
  BY <1>2, GoesToType DEF Waits
<1>. QED BY <1>1, <1>2 DEF AfterMirror

LEMMA RetriesMirrorType ==
  ASSUME TypeInv, NEW e \in Event, NEW ended, UNCHANGED payload, pc[e] = "mirror", RetriesMirror(e, ended)
  PROVE  EngineOK' /\ mirror' \in [MirrorRun -> {"none", "begun", "loaded", "over"}]
<1>1. mirror' \in [MirrorRun -> {"none", "begun", "loaded", "over"}]
  BY DEF RetriesMirror, TypeInv, TypeOK
<1>2. CASE try[e] < MirrorAttempts
  <2>1. try' = [try EXCEPT ![e] = @ + 1] /\ pc' = pc
    BY <1>2 DEF RetriesMirror
  <2>. QED BY <1>1, <1>2, <2>1, Bounds DEF TypeInv, TypeOK, EngineOK, FreshTry, HasFile
<1>3. CASE ~(try[e] < MirrorAttempts)
  <2>1. GoesTo(e, AfterMirror(e))
    BY <1>3 DEF RetriesMirror
  <2>. QED BY <1>1, <2>1, MirrorDoneType
<1>. QED BY <1>2, <1>3

LEMMA MirrorType ==
  ASSUME TypeInv, NEW e \in Event, NEW n \in 1..MirrorAttempts, Mirror(e, n)
  PROVE  TypeInv'
<1>. USE DEF TypeInv
<1>1. PICK r \in MirrorRun : r = <<e, n>>
  BY Indices
<1>2. UNCHANGED <<payload, http, row, filed, answer, step, debounce, signaled, parent>>
  BY DEF Mirror, LoadsAttachment, SettlesAttachment, MirrorFails, MirrorVars
<1>3. files' \in [File -> {"none", "PENDING", "UPLOADED", "FAILED"}]
  BY DEF Mirror, LoadsAttachment, SettlesAttachment, MirrorFails, TypeOK
<1>4. ASSUME MirrorDone(e, n) PROVE EngineOK'
  <2>1. CASE IsCurrent(e, n, "mirror")
    BY <1>2, <1>4, <2>1, MirrorDoneType DEF MirrorDone, IsCurrent
  <2>2. CASE ~IsCurrent(e, n, "mirror")
    BY <1>2, <1>4, <2>2 DEF MirrorDone, TypeOK, FreshTry, EngineOK, HasFile
  <2>. QED BY <2>1, <2>2
<1>5. UNCHANGED <<pc, try>> => EngineOK'
  BY <1>2 DEF TypeOK, FreshTry, EngineOK, HasFile
<1>6. EngineOK' /\ mirror' \in [MirrorRun -> {"none", "begun", "loaded", "over"}]
  <2>1. CASE LoadsAttachment(e, n)
    <3>1. EngineOK'
      BY <1>4, <1>5, <2>1 DEF LoadsAttachment
    <3>2. mirror' \in [MirrorRun -> {"none", "begun", "loaded", "over"}]
      <4>1. mirror \in [MirrorRun -> {"none", "begun", "loaded", "over"}]
        BY DEF TypeOK
      <4>2. \/ mirror' = [mirror EXCEPT ![r] = "over"]
            \/ mirror' = [mirror EXCEPT ![r] = "loaded"]
        BY <1>1, <2>1 DEF LoadsAttachment
      <4>. QED BY <4>1, <4>2
    <3>. QED BY <3>1, <3>2
  <2>2. CASE SettlesAttachment(e, n)
    <3>1. EngineOK'
      BY <1>4, <2>2 DEF SettlesAttachment
    <3>2. mirror' \in [MirrorRun -> {"none", "begun", "loaded", "over"}]
      BY <1>1, <2>2 DEF SettlesAttachment, TypeOK
    <3>. QED BY <3>1, <3>2
  <2>3. CASE MirrorFails(e, n)
    <3>1. CASE IsCurrent(e, n, "mirror")
      BY <1>2, <2>3, <3>1, RetriesMirrorType DEF MirrorFails, IsCurrent
    <3>2. CASE ~IsCurrent(e, n, "mirror")
      BY <1>1, <1>5, <2>3, <3>2 DEF MirrorFails, TypeOK
    <3>. QED BY <3>1, <3>2
  <2>. QED BY <2>1, <2>2, <2>3 DEF Mirror
<1>. QED BY <1>2, <1>3, <1>6 DEF TypeOK, EngineOK, FreshTry

LEMMA WorkflowType ==
  ASSUME TypeInv, NEW e \in Event, InboxWorkflow(e)
  PROVE  TypeInv'
<1>. USE DEF TypeInv
<1>1. CASE PipelineTimesOut(e)
  <2>1. EngineOK'
    BY <1>1, RetriesType DEF PipelineTimesOut
  <2>2. step' \in [PipelineRun -> {"none", "begun", "loaded", "committed", "over"}]
    BY <1>1 DEF PipelineTimesOut, TypeOK
  <2>. QED BY <1>1, <2>1, <2>2 DEF PipelineTimesOut, TypeOK, EngineOK, FreshTry
<1>2. CASE MirrorTimesOut(e)
  BY <1>2, RetriesMirrorType DEF MirrorTimesOut, MirrorVars, TypeOK, EngineOK, FreshTry
<1>3. CASE ReadsMode(e)
  <2>1. EngineOK'
    BY <1>3, GoesToType DEF ReadsMode, Engine, Waits, Closed
  <2>. QED BY <1>3, <2>1 DEF ReadsMode, Engine, TypeOK, EngineOK, FreshTry
<1>4. CASE GateFails(e)
  <2>1. EngineOK'
    <3>1. CASE GoesTo(e, "failed")
      BY <1>4, <3>1, GoesToType DEF GateFails, Engine, Closed
    <3>2. CASE try' = [try EXCEPT ![e] = @ + 1] /\ pc' = pc
      BY <1>4, <3>2 DEF GateFails, Engine, TypeOK, EngineOK, FreshTry, HasFile
    <3>. QED BY <1>4, <3>1, <3>2 DEF GateFails
  <2>. QED BY <1>4, <2>1 DEF GateFails, Engine, TypeOK, EngineOK, FreshTry
<1>5. CASE SignalsDebounce(e)
  <2>1. /\ signaled' \in [Conversation -> BOOLEAN] /\ UNCHANGED <<debounce, parent>>
        /\ UNCHANGED <<payload, http, row, filed, files, answer, step, mirror>>
        /\ pc[e] # "none"
    BY <1>5 DEF SignalsDebounce, Engine, TypeOK
  <2>2. GoesTo(e, "completed") \/ GoesTo(e, "start")
    BY <1>5 DEF SignalsDebounce
  <2>3. EngineOK'
    BY <2>1, <2>2, GoesToType DEF Waits, Closed
  <2>. QED BY <2>1, <2>3 DEF TypeOK, EngineOK, FreshTry
<1>6. CASE StartsDebounce(e)
  <2>1. /\ debounce' \in [Conversation -> {"none", "waiting", "dispatching"}]
        /\ parent' \in [Conversation -> Event \cup {NoEvent}] /\ signaled' = signaled
        /\ UNCHANGED <<payload, http, row, filed, files, answer, step, mirror>>
        /\ pc[e] # "none"
    BY <1>6 DEF StartsDebounce, Engine, TypeOK
  <2>2. GoesTo(e, "completed") \/ GoesTo(e, "resignal")
    BY <1>6 DEF StartsDebounce
  <2>3. EngineOK'
    BY <2>1, <2>2, GoesToType DEF Waits, Closed
  <2>. QED BY <2>1, <2>3 DEF TypeOK, EngineOK, FreshTry
<1>. QED BY <1>1, <1>2, <1>3, <1>4, <1>5, <1>6 DEF InboxWorkflow

LEMMA DebounceType ==
  ASSUME TypeInv, NEW c \in Conversation, Debounce(c)
  PROVE  TypeInv'
<1>1. UNCHANGED <<payload, http, row, filed, files, pc, try, answer, step, mirror>>
  BY DEF Debounce, ResetsTimer, TimerExpires, DispatchesAnalysis, TerminatesChild, Closes, DebounceOnly
<1>2. \/ UNCHANGED <<debounce, parent>> /\ signaled' = [signaled EXCEPT ![c] = FALSE]
      \/ UNCHANGED <<signaled, parent>> /\ debounce' = [debounce EXCEPT ![c] = "dispatching"]
      \/ Closes(c)
  BY DEF Debounce, ResetsTimer, TimerExpires, DispatchesAnalysis, TerminatesChild
<1>3. /\ debounce' \in [Conversation -> {"none", "waiting", "dispatching"}]
      /\ signaled' \in [Conversation -> BOOLEAN]
      /\ parent' \in [Conversation -> Event \cup {NoEvent}]
  <2>1. /\ debounce \in [Conversation -> {"none", "waiting", "dispatching"}]
        /\ signaled \in [Conversation -> BOOLEAN]
        /\ parent \in [Conversation -> Event \cup {NoEvent}]
    BY DEF TypeInv, TypeOK
  <2>2. debounce' \in [Conversation -> {"none", "waiting", "dispatching"}]
    BY <1>2, <2>1 DEF Closes
  <2>3. signaled' \in [Conversation -> BOOLEAN]
    BY <1>2, <2>1, Zenon DEF Closes
  <2>4. parent' \in [Conversation -> Event \cup {NoEvent}]
    BY <1>2, <2>1 DEF Closes
  <2>. QED BY <2>2, <2>3, <2>4
<1>. QED BY <1>1, <1>3 DEF TypeInv, TypeOK, FreshTry, HasFile

LEMMA TypeNext == TypeInv /\ [Next]_vars => TypeInv'
<1>. SUFFICES ASSUME TypeInv, [Next]_vars PROVE TypeInv'
  OBVIOUS
<1>1. CASE UNCHANGED vars
  BY <1>1 DEF vars, TypeInv, TypeOK, FreshTry, HasFile
<1>. QED BY <1>1, WebhookType, PipelineType, MirrorType, WorkflowType, DebounceType DEF Next

LEMMA TypeInvariant == Spec => []TypeInv
BY InitType, TypeNext, PTL DEF Spec

\* However deliveries and attempts overlap, the state is well typed: attempts stay
\* within maximumAttempts, and only an event with a file has a mirroring to wait for.
THEOREM TypeCorrect == Spec => []TypeOK
BY TypeInvariant, PTL DEF TypeInv

-------------------------------------------------------------------------------
(* The invariant *)

\* A row has its workflow or the one delivery that created it, and what ran
\* for an event ran for its workflow.
Sent == {"created", "stranded"}
Accounted ==
  /\ \A e \in Event : pc[e] # "none" => row[e] # "none"
  /\ \A d \in Delivery : http[d] \in Sent \cup {"acked"} => row[d[1]] # "none"
  /\ \A e \in Event :
       row[e] # "none" => pc[e] # "none" \/ \E d \in Delivery : d[1] = e /\ http[d] \in Sent
  /\ \A c, d \in Delivery : c[1] = d[1] /\ http[c] \in Sent /\ http[d] \in Sent => c = d
  /\ \A r \in PipelineRun : pc[r[1]] = "none" => step[r] = "none"

\* No attempt has begun that the workflow has not asked for.
Tries ==
  /\ \A r \in PipelineRun : pc[r[1]] = "pipeline" /\ r[2] > try[r[1]] => step[r] = "none"
  /\ \A r \in MirrorRun :
       pc[r[1]] \in {"none", "pipeline"} \/ (pc[r[1]] = "mirror" /\ r[2] > try[r[1]]) =>
         mirror[r] = "none"

Ran == {"committed", "over"}

\* What an attempt has filed shows in its step and in the row, and a file is
\* filed once.
Filing ==
  /\ \A e \in Event :
       /\ filed[e] # {} => row[e] = "PROCESSED"
       /\ row[e] = "PROCESSED" => /\ Drops(e) <=> filed[e] = {}
                                  /\ \E r \in PipelineRun : r[1] = e /\ step[r] \in Ran
       /\ HasFile(e) /\ filed[e] # {} => files[FileOf(e)] # "none" /\ \A m, n \in filed[e] : m = n
  /\ \A r \in PipelineRun :
       /\ r[2] \in filed[r[1]] => step[r] \in Ran
       /\ step[r] = "committed" => r[2] \in filed[r[1]]
  /\ \A e, x \in Event :
       HasFile(e) /\ FileOf(e) = FileOf(x) /\ filed[e] # {} /\ filed[x] # {} => e = x

\* Only a filed attachment is mirrored, and only an attempt that is over has
\* uploaded one.
Mirrored ==
  /\ \A e \in Event : pc[e] = "mirror" => filed[e] # {}
  /\ \A r \in MirrorRun : mirror[r] # "none" => HasFile(r[1]) /\ filed[r[1]] # {}

Uploaded ==
  \A f \in File :
    files[f] = "UPLOADED" => \E r \in MirrorRun : FileOf(r[1]) = f /\ mirror[r] = "over"

Inv == TypeInv /\ Accounted /\ Tries /\ Filing /\ Mirrored /\ Uploaded /\ OwnConversation

LEMMA InitInv == Init => Inv
<1>. SUFFICES ASSUME Init PROVE Inv
  OBVIOUS
<1>1. /\ \A d \in Delivery : d[1] \in Event /\ http[d] = "none"
      /\ \A r \in PipelineRun : step[r] = "none"
      /\ \A r \in MirrorRun : mirror[r] = "none"
  BY DEF Init, Delivery
<1>2. /\ \A e \in Event : row[e] = "none" /\ pc[e] = "none" /\ filed[e] = {}
      /\ \A f \in File : files[f] = "none"
      /\ \A e \in Event : answer[e] = NoAnswer
  BY DEF Init
<1>3. Accounted
  BY <1>1, <1>2 DEF Accounted, Sent
<1>4. Tries
  BY <1>1 DEF Tries
<1>5. Filing
  BY <1>1, <1>2, Indices DEF Filing
<1>6. Mirrored /\ Uploaded
  BY <1>1, <1>2 DEF Mirrored, Uploaded
<1>7. OwnConversation
  BY <1>2 DEF OwnConversation, NoAnswer
<1>. QED BY <1>3, <1>4, <1>5, <1>6, <1>7, InitType DEF Inv

\* What no step after the webhook undoes.
PipelineOnward ==
  \A r \in PipelineRun :
    \/ step'[r] = step[r]
    \/ /\ step[r] = "none" /\ step'[r] = "begun"
       /\ pc[r[1]] = "pipeline" /\ r[2] <= try'[r[1]]
    \/ step[r] = "begun" /\ step'[r] \in {"loaded", "over"}
    \/ step[r] = "loaded" /\ step'[r] \in Ran
    \/ step[r] = "committed" /\ step'[r] = "over"

MirrorOnward ==
  \A r \in MirrorRun :
    \/ mirror'[r] = mirror[r]
    \/ /\ mirror[r] = "none" /\ mirror'[r] = "begun"
       /\ filed[r[1]] # {} /\ HasFile(r[1])
       /\ pc'[r[1]] = "mirror" /\ r[2] <= try'[r[1]]
    \/ mirror[r] \in {"begun", "loaded"} /\ mirror'[r] \in {"loaded", "over"}

WorkflowOnward ==
  \A e \in Event :
    /\ pc'[e] = "none" <=> pc[e] = "none"
    /\ pc'[e] = "pipeline" => pc[e] = "pipeline" /\ try'[e] >= try[e]
    /\ pc'[e] = "mirror" => /\ filed[e] # {}
                            /\ pc[e] = "pipeline" \/ (pc[e] = "mirror" /\ try'[e] >= try[e])
    /\ row'[e] = row[e] \/ (row[e] # "none" /\ row'[e] = "PROCESSED")
    /\ filed[e] \subseteq filed'[e]

Onward == PipelineOnward /\ MirrorOnward /\ WorkflowOnward /\ UNCHANGED <<payload, http>>

LEMMA OnwardKeeps ==
  ASSUME Inv, Onward, TypeInv'
  PROVE  Accounted' /\ Tries' /\ Mirrored'
<1>1. Accounted'
  <2>1. \A r \in PipelineRun : pc'[r[1]] = "none" => step'[r] = "none"
    BY Indices DEF Inv, Accounted, Onward, PipelineOnward, WorkflowOnward
  <2>2. \A d \in Delivery : d[1] \in Event
    BY DEF Delivery
  <2>3. \A e \in Event : (pc'[e] # "none" <=> pc[e] # "none") /\ (row'[e] # "none" <=> row[e] # "none")
    BY DEF Onward, WorkflowOnward
  <2>4. http' = http
    BY DEF Onward
  <2>. QED BY <2>1, <2>2, <2>3, <2>4 DEF Inv, Accounted
<1>2. Tries'
  <2>1. ASSUME NEW r \in PipelineRun, pc'[r[1]] = "pipeline", r[2] > try'[r[1]]
        PROVE  step'[r] = "none"
    <3>1. r[1] \in Event /\ r[2] \in Nat /\ try[r[1]] \in Nat /\ try'[r[1]] \in Nat
      BY Indices, Bounds DEF Inv, TypeInv, TypeOK
    <3>2. pc[r[1]] = "pipeline" /\ r[2] > try[r[1]]
      BY <2>1, <3>1 DEF Onward, WorkflowOnward
    <3>. QED BY <2>1, <3>1, <3>2 DEF Inv, Tries, Onward, PipelineOnward
  <2>2. ASSUME NEW r \in MirrorRun,
               pc'[r[1]] \in {"none", "pipeline"} \/ (pc'[r[1]] = "mirror" /\ r[2] > try'[r[1]])
        PROVE  mirror'[r] = "none"
    <3>1. r[1] \in Event /\ r[2] \in Nat /\ try[r[1]] \in Nat /\ try'[r[1]] \in Nat
      BY Indices, Bounds DEF Inv, TypeInv, TypeOK
    <3>2. pc[r[1]] \in {"none", "pipeline"} \/ (pc[r[1]] = "mirror" /\ r[2] > try[r[1]])
      BY <2>2, <3>1 DEF Onward, WorkflowOnward
    <3>3. mirror[r] = "none"
      BY <3>2 DEF Inv, Tries
    <3>. QED BY <2>2, <3>1, <3>3 DEF Onward, MirrorOnward
  <2>. QED BY <2>1, <2>2 DEF Tries
<1>3. Mirrored'
  <2>1. \A e \in Event : pc'[e] = "mirror" => filed'[e] # {}
    BY DEF Onward, WorkflowOnward
  <2>2. \A r \in MirrorRun : mirror'[r] # "none" => HasFile(r[1]) /\ filed[r[1]] # {}
    BY DEF Inv, Mirrored, Onward, MirrorOnward
  <2>3. \A r \in MirrorRun : filed[r[1]] # {} => filed'[r[1]] # {}
    BY Indices DEF Onward, WorkflowOnward
  <2>4. payload' = payload
    BY DEF Onward
  <2>. QED BY <2>1, <2>2, <2>3, <2>4 DEF Mirrored, HasFile
<1>. QED BY <1>1, <1>2, <1>3

\* A step that files nothing.
LEMMA OnwardFiling ==
  ASSUME Inv, Onward, UNCHANGED <<row, filed>>,
         \A f \in File : files[f] # "none" => files'[f] # "none",
         \A r \in PipelineRun : step'[r] = "committed" => step[r] = "committed"
  PROVE  Filing'
<1>1. payload' = payload
  BY DEF Onward
<1>2. \A r \in PipelineRun : step[r] \in Ran => step'[r] \in Ran
  BY DEF Onward, PipelineOnward, Ran
<1>3. \A e \in Event : HasFile(e) => FileOf(e) \in File
  BY DEF Inv, TypeInv, TypeOK, Payload, HasFile, FileOf
<1>4. \A e \in Event : (Drops(e)' <=> Drops(e)) /\ (HasFile(e)' <=> HasFile(e)) /\ FileOf(e)' = FileOf(e)
  BY <1>1 DEF Drops, HasFile, FileOf
<1>. QED BY <1>2, <1>3, <1>4 DEF Inv, Filing

\* A step that uploads nothing.
LEMMA OnwardUploaded ==
  ASSUME Inv, Onward, \A f \in File : files'[f] = "UPLOADED" => files[f] = "UPLOADED"
  PROVE  Uploaded'
BY DEF Inv, Uploaded, Onward, MirrorOnward, FileOf

LEMMA RetriedStays ==
  ASSUME PipelineOnward
  PROVE  \A e \in Event : Retried(e) => Retried(e)'
<1>1. SUFFICES ASSUME NEW e \in Event, NEW n \in 2..PipelineAttempts[e], step[<<e, n>>] # "none"
               PROVE  step'[<<e, n>>] # "none"
  BY DEF Retried
<1>2. n \in Nat /\ n \in 1..PipelineAttempts[e]
  BY <1>1, Bounds
<1>3. <<e, n>> \in PipelineRun
  BY <1>2, Indices
<1>. QED BY <1>1, <1>3 DEF PipelineOnward, Ran

\* A step that gives the workflow no answer.
LEMMA OnwardAnswers ==
  ASSUME Inv, Onward, answer' = answer
  PROVE  OwnConversation'
<1>1. \A e \in Event : Retried(e) => Retried(e)'
  BY RetriedStays DEF Onward
<1>2. \A e \in Event : filed[e] \subseteq filed'[e]
  BY DEF Onward, WorkflowOnward
<1>. QED BY <1>1, <1>2 DEF Inv, OwnConversation

\* The answer an attempt gives: only one that has filed the event sends the
\* workflow to the mirroring.
LEMMA TakesAnswerOnward ==
  ASSUME Inv, NEW e \in Event, NEW n \in 1..PipelineAttempts[e], UNCHANGED payload,
         NEW a, a.by # 0 => filed[e] # {}, TakesAnswer(e, n, a)
  PROVE  /\ MirrorOnward
         /\ \A x \in Event :
              /\ pc'[x] = "none" <=> pc[x] = "none"
              /\ pc'[x] = "pipeline" => pc[x] = "pipeline" /\ try'[x] = try[x]
              /\ pc'[x] = "mirror" => /\ filed[x] # {}
                                      /\ pc[x] = "pipeline" \/ (pc[x] = "mirror" /\ try'[x] = try[x])
              /\ answer'[x] = answer[x] \/ (x = e /\ answer'[x] = a)
<1>0. /\ pc \in [Event -> Waits \cup Closed \cup {"none"}]
      /\ try \in [Event -> Nat \ {0}]
      /\ answer \in [Event -> [conversation : Conversation \cup {NoConversation}, by : Nat]]
      /\ mirror \in [MirrorRun -> {"none", "begun", "loaded", "over"}]
  BY DEF Inv, TypeInv, TypeOK
<1>1. \A x \in Event : pc[x] = "mirror" => filed[x] # {}
  BY DEF Inv, Mirrored
<1>2. CASE ~IsCurrent(e, n, "pipeline")
  BY <1>0, <1>1, <1>2 DEF TakesAnswer, MirrorOnward
<1>3. CASE IsCurrent(e, n, "pipeline")
  <2>1. answer' = [answer EXCEPT ![e] = a] /\ pc[e] = "pipeline"
    BY <1>3 DEF TakesAnswer, IsCurrent
  <2>2. CASE a.by # 0 /\ HasFile(e) /\ files[FileOf(e)] = "PENDING"
    <3>1. PICK r \in MirrorRun : r = <<e, 1>>
      BY Indices, Bounds
    <3>2. /\ mirror' = [mirror EXCEPT ![r] = "begun"]
          /\ pc' = [pc EXCEPT ![e] = "mirror"]
          /\ try' = [try EXCEPT ![e] = 1]
      BY <1>3, <2>2, <3>1 DEF TakesAnswer, GoesTo
    <3>3. mirror[r] = "none" /\ r[1] = e /\ r[2] = 1
      BY <2>1, <3>1 DEF Inv, Tries
    <3>4. MirrorOnward
      BY <1>0, <2>2, <3>2, <3>3 DEF MirrorOnward
    <3>. QED BY <1>0, <1>1, <2>1, <2>2, <3>2, <3>4
  <2>3. CASE ~(a.by # 0 /\ HasFile(e) /\ files[FileOf(e)] = "PENDING")
    <3>1. mirror' = mirror /\ (GoesTo(e, "completed") \/ GoesTo(e, "gate"))
      BY <1>3, <2>3 DEF TakesAnswer
    <3>2. PICK w \in {"completed", "gate"} : GoesTo(e, w)
      BY <3>1
    <3>3. /\ pc' = [pc EXCEPT ![e] = w]
          /\ \A x \in Event \ {e} : try'[x] = try[x]
      BY <1>0, <3>2 DEF GoesTo
    <3>. QED BY <1>0, <1>1, <2>1, <3>1, <3>3 DEF MirrorOnward
  <2>. QED BY <2>2, <2>3
<1>. QED BY <1>2, <1>3

\* A step of one attempt of the pipeline that gives the workflow no answer,
\* or one of its own.
LEMMA StepOnward ==
  ASSUME Inv, NEW r \in PipelineRun, NEW to, step' = [step EXCEPT ![r] = to],
         \/ step[r] = "begun" /\ to \in {"loaded", "over"}
         \/ step[r] = "loaded" /\ to \in Ran
         \/ step[r] = "committed" /\ to = "over"
  PROVE  PipelineOnward
BY DEF Inv, TypeInv, TypeOK, PipelineOnward

LEMMA RunOf ==
  ASSUME NEW e \in Event, NEW n \in 1..PipelineAttempts[e]
  PROVE  \E r \in PipelineRun : r = <<e, n>> /\ r[1] = e /\ r[2] = n
<1>1. n \in Nat
  BY Bounds
<1>. QED BY <1>1, Indices

LEMMA LoadsEventInv ==
  ASSUME Inv, TypeInv', NEW e \in Event, NEW n \in 1..PipelineAttempts[e], LoadsEvent(e, n)
  PROVE  Inv'
<1>1. UNCHANGED <<payload, http, row, filed, files>> /\ step[<<e, n>>] = "begun"
  BY DEF LoadsEvent
<1>2. PICK r \in PipelineRun : r = <<e, n>> /\ r[1] = e /\ r[2] = n
  BY RunOf
<1>3. PICK to \in {"loaded", "over"} : step' = [step EXCEPT ![r] = to]
  BY <1>2 DEF LoadsEvent
<1>4. PipelineOnward /\ \A t \in PipelineRun : step'[t] = "committed" => step[t] = "committed"
  <2>1. PipelineOnward
    BY <1>1, <1>2, <1>3, StepOnward
  <2>. QED BY <1>3, <2>1 DEF Inv, TypeInv, TypeOK
<1>5. CASE row[e] # "PROCESSED"
  <2>1. UNCHANGED <<pc, try, answer, mirror>>
    BY <1>5 DEF LoadsEvent
  <2>2. Onward
    BY <1>1, <1>4, <2>1 DEF Inv, TypeInv, TypeOK, Mirrored, Onward, MirrorOnward, WorkflowOnward
  <2>. QED BY <1>1, <1>4, <2>1, <2>2, OnwardKeeps, OnwardFiling, OnwardUploaded, OnwardAnswers DEF Inv
<1>6. CASE row[e] = "PROCESSED"
  <2>1. PICK c \in Latest : TakesAnswer(e, n, [conversation |-> c, by |-> 0])
    BY <1>6 DEF LoadsEvent
  <2>2. PICK a : a = [conversation |-> c, by |-> 0]
    OBVIOUS
  <2>3. /\ MirrorOnward
        /\ \A x \in Event :
              /\ pc'[x] = "none" <=> pc[x] = "none"
              /\ pc'[x] = "pipeline" => pc[x] = "pipeline" /\ try'[x] = try[x]
              /\ pc'[x] = "mirror" => /\ filed[x] # {}
                                      /\ pc[x] = "pipeline" \/ (pc[x] = "mirror" /\ try'[x] = try[x])
              /\ answer'[x] = answer[x] \/ (x = e /\ answer'[x] = a)
    BY <1>1, <2>1, <2>2, TakesAnswerOnward
  <2>4. Onward
    BY <1>1, <1>4, <2>3 DEF Inv, TypeInv, TypeOK, Onward, WorkflowOnward
  <2>5. Accounted' /\ Tries' /\ Mirrored' /\ Filing' /\ Uploaded'
    BY <1>1, <1>4, <2>4, OnwardKeeps, OnwardFiling, OnwardUploaded
  <2>6. Retried(e) /\ Retried(e)'
    <3>1. PICK t \in PipelineRun : t[1] = e /\ step[t] \in Ran
      BY <1>6 DEF Inv, Filing
    <3>2. t # r
      BY <1>1, <1>2, <3>1 DEF Ran
    <3>3. t[2] \in 1..PipelineAttempts[e] /\ t = <<e, t[2]>> /\ t[2] # n
      BY <1>2, <3>1, <3>2, Indices
    <3>4. step[<<e, n>>] # "none" /\ step[<<e, t[2]>>] # "none"
      BY <1>1, <3>1, <3>3 DEF Ran
    <3>5. step'[<<e, n>>] # "none" /\ step'[<<e, t[2]>>] # "none"
      BY <1>2, <1>4, <3>1, <3>3, <3>4 DEF PipelineOnward, Ran
    <3>6. n \in 2..PipelineAttempts[e] \/ t[2] \in 2..PipelineAttempts[e]
      BY <3>3, Bounds
    <3>. QED BY <3>4, <3>5, <3>6 DEF Retried
  <2>7. OwnConversation'
    <3>1. \A x \in Event : Retried(x) => Retried(x)'
      BY <1>4, RetriedStays
    <3>. QED BY <1>1, <2>2, <2>3, <2>6, <3>1 DEF Inv, OwnConversation
  <2>. QED BY <2>5, <2>7 DEF Inv
<1>. QED BY <1>5, <1>6

LEMMA DropsEventInv ==
  ASSUME Inv, TypeInv', NEW e \in Event, NEW n \in 1..PipelineAttempts[e], DropsEvent(e, n)
  PROVE  Inv'
<1>1. /\ UNCHANGED <<payload, http, filed, files>> /\ step[<<e, n>>] = "loaded"
      /\ Drops(e) /\ row' = [row EXCEPT ![e] = "PROCESSED"] /\ TakesAnswer(e, n, NoAnswer)
  BY DEF DropsEvent
<1>2. PICK r \in PipelineRun : r = <<e, n>> /\ r[1] = e /\ r[2] = n
  BY RunOf
<1>3. step' = [step EXCEPT ![r] = "over"]
  BY <1>2 DEF DropsEvent
<1>4. PipelineOnward
  BY <1>1, <1>2, <1>3, StepOnward DEF Ran
<1>5. NoAnswer.by = 0 /\ NoAnswer.conversation = NoConversation
  BY DEF NoAnswer
<1>6. /\ MirrorOnward
      /\ \A x \in Event :
            /\ pc'[x] = "none" <=> pc[x] = "none"
            /\ pc'[x] = "pipeline" => pc[x] = "pipeline" /\ try'[x] = try[x]
            /\ pc'[x] = "mirror" => /\ filed[x] # {}
                                    /\ pc[x] = "pipeline" \/ (pc[x] = "mirror" /\ try'[x] = try[x])
            /\ answer'[x] = answer[x] \/ (x = e /\ answer'[x] = NoAnswer)
  BY <1>1, <1>5, TakesAnswerOnward
<1>7. row[e] # "none"
  BY <1>1, <1>2 DEF Inv, Accounted
<1>8. Onward
  BY <1>1, <1>4, <1>6, <1>7 DEF Inv, TypeInv, TypeOK, Onward, WorkflowOnward
<1>9. Filing'
  <2>1. filed[e] = {}
    BY <1>1 DEF Inv, Filing
  <2>2. \A x \in Event : (Drops(x)' <=> Drops(x)) /\ (HasFile(x)' <=> HasFile(x)) /\ FileOf(x)' = FileOf(x)
    BY <1>1 DEF Drops, HasFile, FileOf
  <2>3. /\ \A t \in PipelineRun : (step[t] \in Ran => step'[t] \in Ran) /\ (step'[t] = "committed" => step[t] = "committed")
        /\ step'[r] \in Ran
    BY <1>3 DEF Inv, TypeInv, TypeOK, Ran
  <2>4. \A x \in Event : row'[x] = IF x = e THEN "PROCESSED" ELSE row[x]
    BY <1>1 DEF Inv, TypeInv, TypeOK
  <2>. QED BY <1>1, <1>2, <2>1, <2>2, <2>3, <2>4 DEF Inv, Filing
<1>10. OwnConversation'
  <2>1. \A x \in Event : Retried(x) => Retried(x)'
    BY <1>4, RetriedStays
  <2>. QED BY <1>1, <1>5, <1>6, <2>1 DEF Inv, OwnConversation
<1>. QED BY <1>1, <1>8, <1>9, <1>10, OnwardKeeps, OnwardUploaded DEF Inv

LEMMA EmitsChangeInv ==
  ASSUME Inv, TypeInv', NEW e \in Event, NEW n \in 1..PipelineAttempts[e], EmitsChange(e, n)
  PROVE  Inv'
<1>1. /\ UNCHANGED <<payload, http, row, filed, files>> /\ step[<<e, n>>] = "committed"
      /\ TakesAnswer(e, n, [conversation |-> Thread[e], by |-> n])
  BY DEF EmitsChange
<1>2. PICK r \in PipelineRun : r = <<e, n>> /\ r[1] = e /\ r[2] = n
  BY RunOf
<1>3. step' = [step EXCEPT ![r] = "over"]
  BY <1>2 DEF EmitsChange
<1>4. PipelineOnward
  BY <1>1, <1>2, <1>3, StepOnward
<1>5. PICK a : a = [conversation |-> Thread[e], by |-> n]
  OBVIOUS
<1>6. n \in filed[e]
  BY <1>1, <1>2 DEF Inv, Filing
<1>7. /\ MirrorOnward
      /\ \A x \in Event :
            /\ pc'[x] = "none" <=> pc[x] = "none"
            /\ pc'[x] = "pipeline" => pc[x] = "pipeline" /\ try'[x] = try[x]
            /\ pc'[x] = "mirror" => /\ filed[x] # {}
                                    /\ pc[x] = "pipeline" \/ (pc[x] = "mirror" /\ try'[x] = try[x])
            /\ answer'[x] = answer[x] \/ (x = e /\ answer'[x] = a)
  BY <1>1, <1>5, <1>6, TakesAnswerOnward
<1>8. Onward
  BY <1>1, <1>4, <1>7 DEF Inv, TypeInv, TypeOK, Onward, WorkflowOnward
<1>9. \A t \in PipelineRun : step'[t] = "committed" => step[t] = "committed"
  BY <1>3 DEF Inv, TypeInv, TypeOK
<1>10. OwnConversation'
  <2>1. \A x \in Event : Retried(x) => Retried(x)'
    BY <1>4, RetriedStays
  <2>2. a.by # 0 /\ a.conversation = Thread[e] /\ a.by \in filed[e]
    BY <1>5, <1>6, Bounds
  <2>. QED BY <1>1, <1>7, <2>1, <2>2 DEF Inv, OwnConversation
<1>. QED BY <1>1, <1>8, <1>9, <1>10, OnwardKeeps, OnwardFiling, OnwardUploaded DEF Inv

LEMMA FilesEventInv ==
  ASSUME Inv, TypeInv', NEW e \in Event, NEW n \in 1..PipelineAttempts[e], FilesEvent(e, n)
  PROVE  Inv'
<1>1. /\ UNCHANGED <<payload, http, pc, try, answer, mirror>> /\ step[<<e, n>>] = "loaded" /\ ~Drops(e)
      /\ filed' = [filed EXCEPT ![e] = @ \cup {n}] /\ row' = [row EXCEPT ![e] = "PROCESSED"]
  BY DEF FilesEvent
<1>2. PICK r \in PipelineRun : r = <<e, n>> /\ r[1] = e /\ r[2] = n
  BY RunOf
<1>3. step' = [step EXCEPT ![r] = "committed"]
  BY <1>2 DEF FilesEvent
<1>4. PipelineOnward
  BY <1>1, <1>2, <1>3, StepOnward DEF Ran
<1>5. \A x \in Event : /\ row'[x] = IF x = e THEN "PROCESSED" ELSE row[x]
                       /\ filed'[x] = IF x = e THEN filed[x] \cup {n} ELSE filed[x]
  <2>1. row \in [Event -> {"none", "RECEIVED", "PROCESSED"}] /\ DOMAIN filed = Event
    BY DEF Inv, TypeInv, TypeOK
  <2>. QED BY <1>1, <2>1
<1>6. row[e] # "none"
  BY <1>1, <1>2 DEF Inv, Accounted
<1>7. Onward
  BY <1>1, <1>4, <1>5, <1>6 DEF Inv, TypeInv, TypeOK, Mirrored, Onward, MirrorOnward, WorkflowOnward
<1>8. \A x \in Event : HasFile(x) => FileOf(x) \in File
  BY DEF Inv, TypeInv, TypeOK, Payload, HasFile, FileOf
<1>9. /\ \A f \in File : \/ files'[f] = files[f]
                         \/ files[f] = "none" /\ files'[f] \in {"PENDING", "FAILED"}
      /\ HasFile(e) => files[FileOf(e)] = "none" /\ files'[FileOf(e)] # "none"
  <2>1. CASE HasFile(e)
    <3>1. PICK state \in {"PENDING", "FAILED"} :
            files[FileOf(e)] = "none" /\ files' = [files EXCEPT ![FileOf(e)] = state]
      BY <2>1 DEF FilesEvent
    <3>. QED BY <1>8, <2>1, <3>1 DEF Inv, TypeInv, TypeOK
  <2>. QED BY <2>1 DEF FilesEvent
<1>10. Filing'
  <2>1. \A x \in Event : (Drops(x)' <=> Drops(x)) /\ (HasFile(x)' <=> HasFile(x)) /\ FileOf(x)' = FileOf(x)
    BY <1>1 DEF Drops, HasFile, FileOf
  <2>2. HasFile(e) => \A x \in Event : FileOf(x) = FileOf(e) => filed[x] = {}
    BY <1>9 DEF Inv, Filing, HasFile, FileOf
  <2>3. \A t \in PipelineRun : step'[t] = IF t = r THEN "committed" ELSE step[t]
    BY <1>3 DEF Inv, TypeInv, TypeOK
  <2>4. \A x \in Event :
          /\ filed'[x] # {} => row'[x] = "PROCESSED"
          /\ row'[x] = "PROCESSED" => /\ Drops(x) <=> filed'[x] = {}
                                      /\ \E t \in PipelineRun : t[1] = x /\ step'[t] \in Ran
    BY <1>1, <1>2, <1>5, <2>3 DEF Inv, Filing, Ran
  <2>5. \A x \in Event :
          HasFile(x) /\ filed'[x] # {} => files'[FileOf(x)] # "none" /\ \A k, m \in filed'[x] : k = m
    <3>1. SUFFICES ASSUME NEW x \in Event, HasFile(x), filed'[x] # {}
                   PROVE  files'[FileOf(x)] # "none" /\ \A k, m \in filed'[x] : k = m
      OBVIOUS
    <3>2. CASE x = e
      BY <1>5, <1>9, <2>2, <3>1, <3>2
    <3>3. CASE x # e
      <4>1. filed'[x] = filed[x]
        BY <1>5, <3>3
      <4>2. files[FileOf(x)] # "none" /\ \A k, m \in filed[x] : k = m
        BY <3>1, <4>1 DEF Inv, Filing
      <4>. QED BY <1>8, <1>9, <3>1, <4>1, <4>2
    <3>. QED BY <3>2, <3>3
  <2>6. \A t \in PipelineRun :
          /\ t[2] \in filed'[t[1]] => step'[t] \in Ran
          /\ step'[t] = "committed" => t[2] \in filed'[t[1]]
    <3>1. SUFFICES ASSUME NEW t \in PipelineRun
                   PROVE  /\ t[2] \in filed'[t[1]] => step'[t] \in Ran
                          /\ step'[t] = "committed" => t[2] \in filed'[t[1]]
      OBVIOUS
    <3>2. t[1] \in Event /\ t = <<t[1], t[2]>>
      BY Indices
    <3>3. t = r <=> t[1] = e /\ t[2] = n
      BY <1>2, <3>2
    <3>4. t[2] \in filed'[t[1]] <=> t[2] \in filed[t[1]] \/ t = r
      BY <1>5, <3>2, <3>3
    <3>. QED BY <2>3, <3>4 DEF Inv, Filing, Ran
  <2>7. \A x, y \in Event :
          HasFile(x) /\ FileOf(x) = FileOf(y) /\ filed'[x] # {} /\ filed'[y] # {} => x = y
    <3>1. \A x, y \in Event : HasFile(x) /\ FileOf(x) = FileOf(y) => HasFile(y)
      BY DEF HasFile, FileOf
    <3>. QED BY <1>5, <2>2, <3>1 DEF Inv, Filing
  <2>. QED BY <2>1, <2>4, <2>5, <2>6, <2>7 DEF Filing
<1>11. \A f \in File : files'[f] = "UPLOADED" => files[f] = "UPLOADED"
  BY <1>9
<1>. QED BY <1>1, <1>7, <1>10, <1>11, OnwardKeeps, OnwardUploaded, OnwardAnswers DEF Inv

LEMMA RetriesOnward ==
  ASSUME Inv, NEW e \in Event, pc[e] = "pipeline", RetriesPipeline(e), UNCHANGED <<row, filed>>
  PROVE  /\ WorkflowOnward
         /\ \A r \in PipelineRun :
              r \in NextBegins(e) => step[r] = "none" /\ pc[r[1]] = "pipeline" /\ r[2] <= try'[r[1]]
<1>0. /\ pc \in [Event -> Waits \cup Closed \cup {"none"}]
      /\ try \in [Event -> Nat \ {0}]
      /\ row \in [Event -> {"none", "RECEIVED", "PROCESSED"}]
  BY DEF Inv, TypeInv, TypeOK
<1>1. \A x \in Event : pc[x] = "mirror" => filed[x] # {}
  BY DEF Inv, Mirrored
<1>2. CASE try[e] < PipelineAttempts[e]
  <2>1. pc' = pc /\ try' = [try EXCEPT ![e] = @ + 1]
    BY <1>2 DEF RetriesPipeline
  <2>2. \A r \in PipelineRun :
          r \in NextBegins(e) => step[r] = "none" /\ pc[r[1]] = "pipeline" /\ r[2] <= try'[r[1]]
    <3>1. SUFFICES ASSUME NEW r \in PipelineRun, r = <<e, try[e] + 1>>
                   PROVE  step[r] = "none" /\ pc[r[1]] = "pipeline" /\ r[2] <= try'[r[1]]
      BY <1>2 DEF NextBegins
    <3>2. r[1] = e /\ r[2] = try[e] + 1 /\ try[e] \in Nat /\ try'[e] = try[e] + 1
      BY <1>0, <2>1, <3>1
    <3>3. r[2] > try[e]
      BY <3>2
    <3>. QED BY <3>2, <3>3 DEF Inv, Tries
  <2>3. \A x \in Event : try[x] \in Nat /\ try'[x] >= try[x]
    BY <1>0, <2>1
  <2>. QED BY <1>1, <2>1, <2>2, <2>3 DEF WorkflowOnward
<1>3. CASE ~(try[e] < PipelineAttempts[e])
  <2>1. pc' = [pc EXCEPT ![e] = "failed"] /\ try' = [try EXCEPT ![e] = @]
    BY <1>3 DEF RetriesPipeline, GoesTo
  <2>2. \A x \in Event : try[x] \in Nat /\ try'[x] = try[x] /\ pc'[x] = IF x = e THEN "failed" ELSE pc[x]
    BY <1>0, <2>1
  <2>3. NextBegins(e) = {}
    BY <1>3 DEF NextBegins
  <2>. QED BY <1>1, <2>2, <2>3 DEF WorkflowOnward
<1>. QED BY <1>2, <1>3

LEMMA PipelineFailsInv ==
  ASSUME Inv, TypeInv', NEW e \in Event, NEW n \in 1..PipelineAttempts[e], PipelineFails(e, n)
  PROVE  Inv'
<1>1. /\ UNCHANGED <<payload, http, row, filed, files, answer, mirror>>
      /\ step[<<e, n>>] \in {"begun", "loaded", "committed"}
  BY DEF PipelineFails
<1>2. PICK r \in PipelineRun : r = <<e, n>> /\ r[1] = e /\ r[2] = n
  BY RunOf
<1>3. MirrorOnward
  BY <1>1 DEF MirrorOnward
<1>4. CASE IsCurrent(e, n, "pipeline")
  <2>1. /\ RetriesPipeline(e) /\ pc[e] = "pipeline"
        /\ step' = [t \in PipelineRun |->
                      IF t = r THEN "over" ELSE IF t \in NextBegins(e) THEN "begun" ELSE step[t]]
    BY <1>2, <1>4 DEF PipelineFails, IsCurrent
  <2>2. /\ WorkflowOnward
        /\ \A t \in PipelineRun :
             t \in NextBegins(e) => step[t] = "none" /\ pc[t[1]] = "pipeline" /\ t[2] <= try'[t[1]]
    BY <1>1, <2>1, RetriesOnward
  <2>3. PipelineOnward /\ \A t \in PipelineRun : step'[t] = "committed" => step[t] = "committed"
    BY <1>1, <1>2, <2>1, <2>2 DEF PipelineOnward, Ran
  <2>4. Onward
    BY <1>1, <1>3, <2>2, <2>3 DEF Onward
  <2>. QED BY <1>1, <2>3, <2>4, OnwardKeeps, OnwardFiling, OnwardUploaded, OnwardAnswers DEF Inv
<1>5. CASE ~IsCurrent(e, n, "pipeline")
  <2>1. step' = [step EXCEPT ![r] = "over"] /\ UNCHANGED <<pc, try>>
    BY <1>2, <1>5 DEF PipelineFails
  <2>2. PipelineOnward
    BY <1>1, <1>2, <2>1, StepOnward DEF Ran
  <2>3. \A t \in PipelineRun : step'[t] = "committed" => step[t] = "committed"
    BY <2>1 DEF Inv, TypeInv, TypeOK
  <2>4. Onward
    BY <1>1, <1>3, <2>1, <2>2 DEF Inv, TypeInv, TypeOK, Mirrored, Onward, WorkflowOnward
  <2>. QED BY <1>1, <2>3, <2>4, OnwardKeeps, OnwardFiling, OnwardUploaded, OnwardAnswers DEF Inv
<1>. QED BY <1>4, <1>5

LEMMA PipelineTimesOutInv ==
  ASSUME Inv, TypeInv', NEW e \in Event, PipelineTimesOut(e)
  PROVE  Inv'
<1>1. /\ UNCHANGED <<payload, http, row, filed, files, answer, mirror>>
      /\ RetriesPipeline(e) /\ pc[e] = "pipeline"
      /\ step' = [t \in PipelineRun |-> IF t \in NextBegins(e) THEN "begun" ELSE step[t]]
  BY DEF PipelineTimesOut
<1>2. /\ WorkflowOnward
      /\ \A t \in PipelineRun :
           t \in NextBegins(e) => step[t] = "none" /\ pc[t[1]] = "pipeline" /\ t[2] <= try'[t[1]]
  BY <1>1, RetriesOnward
<1>3. PipelineOnward /\ \A t \in PipelineRun : step'[t] = "committed" => step[t] = "committed"
  BY <1>1, <1>2 DEF PipelineOnward
<1>4. Onward
  BY <1>1, <1>2, <1>3 DEF Onward, MirrorOnward
<1>. QED BY <1>1, <1>3, <1>4, OnwardKeeps, OnwardFiling, OnwardUploaded, OnwardAnswers DEF Inv

LEMMA PipelineInv ==
  ASSUME Inv, NEW e \in Event, NEW n \in 1..PipelineAttempts[e], Pipeline(e, n)
  PROVE  Inv'
<1>1. TypeInv'
  BY PipelineType DEF Inv
<1>. QED BY <1>1, LoadsEventInv, DropsEventInv, FilesEventInv, EmitsChangeInv, PipelineFailsInv DEF Pipeline

\* The workflow goes on from the mirroring, or to another attempt of it.
LEMMA LeavesMirror ==
  ASSUME Inv, NEW e \in Event, pc[e] = "mirror", GoesTo(e, AfterMirror(e)), UNCHANGED <<row, filed>>
  PROVE  WorkflowOnward
<1>0. /\ pc \in [Event -> Waits \cup Closed \cup {"none"}]
      /\ try \in [Event -> Nat \ {0}]
  BY DEF Inv, TypeInv, TypeOK
<1>1. PICK w \in {"completed", "gate"} : GoesTo(e, w)
  BY DEF AfterMirror
<1>2. \A x \in Event : /\ pc'[x] = IF x = e THEN w ELSE pc[x]
                       /\ x # e => try'[x] = try[x] /\ try[x] \in Nat
  BY <1>0, <1>1 DEF GoesTo
<1>. QED BY <1>2 DEF Inv, Mirrored, WorkflowOnward

LEMMA MirrorDoneOnward ==
  ASSUME Inv, NEW e \in Event, NEW n, MirrorDone(e, n) \/ UNCHANGED <<pc, try>>, UNCHANGED <<row, filed>>
  PROVE  WorkflowOnward
<1>1. CASE IsCurrent(e, n, "mirror") /\ MirrorDone(e, n)
  BY <1>1, LeavesMirror DEF MirrorDone, IsCurrent
<1>2. CASE UNCHANGED <<pc, try>>
  BY <1>2 DEF Inv, TypeInv, TypeOK, Mirrored, WorkflowOnward
<1>. QED BY <1>1, <1>2 DEF MirrorDone

LEMMA RetriesMirrorOnward ==
  ASSUME Inv, NEW e \in Event, pc[e] = "mirror", NEW ended \in SUBSET MirrorRun, RetriesMirror(e, ended),
         \A r \in ended : mirror[r] \in {"begun", "loaded"}, UNCHANGED <<row, filed>>
  PROVE  MirrorOnward /\ WorkflowOnward
<1>0. /\ pc \in [Event -> Waits \cup Closed \cup {"none"}]
      /\ try \in [Event -> Nat \ {0}] /\ try[e] \in Nat
  BY DEF Inv, TypeInv, TypeOK
<1>1. CASE try[e] < MirrorAttempts
  <2>1. /\ try' = [try EXCEPT ![e] = @ + 1] /\ pc' = pc
        /\ mirror' = [t \in MirrorRun |->
             IF t \in ended THEN "over" ELSE IF t = <<e, try[e] + 1>> THEN "begun" ELSE mirror[t]]
    BY <1>1 DEF RetriesMirror
  <2>2. WorkflowOnward
    <3>1. \A x \in Event : try[x] \in Nat /\ try'[x] >= try[x]
      BY <1>0, <2>1
    <3>. QED BY <2>1, <3>1 DEF Inv, Mirrored, WorkflowOnward
  <2>3. MirrorOnward
    <3>1. ASSUME NEW r \in MirrorRun, r = <<e, try[e] + 1>>
          PROVE  /\ mirror[r] = "none" /\ filed[r[1]] # {} /\ HasFile(r[1])
                 /\ pc'[r[1]] = "mirror" /\ r[2] <= try'[r[1]]
      <4>1. r[1] = e /\ r[2] = try[e] + 1 /\ try'[e] = try[e] + 1 /\ r[2] > try[e]
        BY <1>0, <2>1, <3>1
      <4>2. mirror[r] = "none"
        BY <4>1 DEF Inv, Tries
      <4>. QED BY <2>1, <4>1, <4>2 DEF Inv, TypeInv, TypeOK, Mirrored
    <3>. QED BY <2>1, <3>1 DEF MirrorOnward
  <2>. QED BY <2>2, <2>3
<1>2. CASE ~(try[e] < MirrorAttempts)
  <2>1. /\ GoesTo(e, AfterMirror(e))
        /\ mirror' = [t \in MirrorRun |-> IF t \in ended THEN "over" ELSE mirror[t]]
    BY <1>2 DEF RetriesMirror
  <2>2. MirrorOnward
    BY <2>1 DEF MirrorOnward
  <2>. QED BY <2>1, <2>2, LeavesMirror
<1>. QED BY <1>1, <1>2

LEMMA MirrorInv ==
  ASSUME Inv, NEW e \in Event, NEW n \in 1..MirrorAttempts, Mirror(e, n)
  PROVE  Inv'
<1>1. TypeInv'
  BY MirrorType DEF Inv
<1>2. PICK r \in MirrorRun : r = <<e, n>> /\ r[1] = e /\ r[2] = n
  BY Indices
<1>3. UNCHANGED <<payload, http, row, filed, answer, step>> /\ mirror[r] \in {"begun", "loaded"}
  BY <1>2 DEF Mirror, LoadsAttachment, SettlesAttachment, MirrorFails, MirrorVars
<1>4. ASSUME NEW to \in {"loaded", "over"}, mirror' = [mirror EXCEPT ![r] = to]
      PROVE  MirrorOnward
  BY <1>3, <1>4 DEF Inv, TypeInv, TypeOK, MirrorOnward
<1>5. MirrorOnward /\ WorkflowOnward
  <2>1. CASE LoadsAttachment(e, n)
    <3>1. MirrorOnward
      BY <1>2, <1>4, <2>1 DEF LoadsAttachment
    <3>. QED BY <1>3, <2>1, <3>1, MirrorDoneOnward DEF LoadsAttachment
  <2>2. CASE SettlesAttachment(e, n)
    <3>1. MirrorOnward
      BY <1>2, <1>4, <2>2 DEF SettlesAttachment
    <3>. QED BY <1>3, <2>2, <3>1, MirrorDoneOnward DEF SettlesAttachment
  <2>3. CASE MirrorFails(e, n) /\ IsCurrent(e, n, "mirror")
    <3>1. RetriesMirror(e, {r}) /\ pc[e] = "mirror"
      BY <1>2, <2>3 DEF MirrorFails, IsCurrent
    <3>. QED BY <1>3, <3>1, RetriesMirrorOnward
  <2>4. CASE MirrorFails(e, n) /\ ~IsCurrent(e, n, "mirror")
    <3>1. UNCHANGED <<pc, try>> /\ mirror' = [mirror EXCEPT ![r] = "over"]
      BY <1>2, <2>4 DEF MirrorFails
    <3>. QED BY <1>3, <1>4, <3>1, MirrorDoneOnward
  <2>. QED BY <2>1, <2>2, <2>3, <2>4 DEF Mirror
<1>6. Onward
  BY <1>3, <1>5 DEF Onward, PipelineOnward
<1>7. FileOf(e) \in File /\ files[FileOf(e)] # "none" /\ \A x \in Event : FileOf(x)' = FileOf(x)
  BY <1>2, <1>3 DEF Inv, TypeInv, TypeOK, Payload, Mirrored, Filing, HasFile, FileOf
<1>8. \/ files' = files
      \/ /\ SettlesAttachment(e, n) /\ mirror' = [mirror EXCEPT ![r] = "over"]
         /\ \E state \in {"UPLOADED", "FAILED"} : files' = [files EXCEPT ![FileOf(e)] = state]
  BY <1>2 DEF Mirror, LoadsAttachment, SettlesAttachment, MirrorFails
<1>9. \A f \in File : files[f] # "none" => files'[f] # "none"
  BY <1>7, <1>8 DEF Inv, TypeInv, TypeOK
<1>10. Uploaded'
  <2>1. CASE files' = files
    BY <1>6, <2>1, OnwardUploaded
  <2>2. CASE files' # files
    <3>1. mirror'[r] = "over" /\ FileOf(r[1])' = FileOf(e)
      BY <1>2, <1>7, <1>8, <2>2 DEF Inv, TypeInv, TypeOK
    <3>2. \A f \in File \ {FileOf(e)} : files'[f] = files[f]
      BY <1>8, <2>2 DEF Inv, TypeInv, TypeOK
    <3>3. ASSUME NEW f \in File, files'[f] = "UPLOADED", f # FileOf(e)
          PROVE  \E t \in MirrorRun : FileOf(t[1])' = f /\ mirror'[t] = "over"
      <4>1. PICK t \in MirrorRun : FileOf(t[1]) = f /\ mirror[t] = "over"
        BY <3>2, <3>3 DEF Inv, Uploaded
      <4>2. mirror'[t] = "over" /\ t[1] \in Event
        BY <1>5, <4>1, Indices DEF MirrorOnward
      <4>. QED BY <1>7, <4>1, <4>2
    <3>. QED BY <3>1, <3>3 DEF Uploaded
  <2>. QED BY <2>1, <2>2
<1>. QED BY <1>1, <1>3, <1>6, <1>9, <1>10, OnwardKeeps, OnwardFiling, OnwardAnswers DEF Inv

LEMMA WorkflowInv ==
  ASSUME Inv, NEW e \in Event, InboxWorkflow(e)
  PROVE  Inv'
<1>1. TypeInv'
  BY WorkflowType DEF Inv
<1>2. CASE PipelineTimesOut(e)
  BY <1>1, <1>2, PipelineTimesOutInv
<1>3. CASE MirrorTimesOut(e)
  <2>1. UNCHANGED <<payload, http, row, filed, files, answer, step>> /\ RetriesMirror(e, {}) /\ pc[e] = "mirror"
    BY <1>3 DEF MirrorTimesOut, MirrorVars
  <2>2. MirrorOnward /\ WorkflowOnward
    BY <2>1, RetriesMirrorOnward
  <2>3. Onward
    BY <2>1, <2>2 DEF Onward, PipelineOnward
  <2>. QED BY <1>1, <2>1, <2>3, OnwardKeeps, OnwardFiling, OnwardUploaded, OnwardAnswers DEF Inv
<1>4. CASE ReadsMode(e) \/ GateFails(e) \/ SignalsDebounce(e) \/ StartsDebounce(e)
  <2>1. /\ UNCHANGED <<payload, http, row, filed, files, answer, step, mirror>>
        /\ pc[e] \in {"gate", "signal", "start", "resignal"}
    BY <1>4 DEF ReadsMode, GateFails, SignalsDebounce, StartsDebounce, Engine
  <2>2. \/ pc' = pc /\ \A x \in Event \ {e} : try'[x] = try[x]
        \/ \E w \in {"signal", "completed", "failed", "start", "resignal"} : GoesTo(e, w)
    BY <1>4 DEF Inv, TypeInv, TypeOK, ReadsMode, GateFails, SignalsDebounce, StartsDebounce
  <2>3. \A x \in Event :
          /\ \/ pc'[x] = pc[x]
             \/ x = e /\ pc'[x] \in {"signal", "completed", "failed", "start", "resignal"}
          /\ x # e => try'[x] = try[x] /\ try[x] \in Nat
    BY <2>2 DEF Inv, TypeInv, TypeOK, GoesTo
  <2>4. WorkflowOnward
    BY <2>1, <2>3 DEF Inv, Mirrored, WorkflowOnward
  <2>5. Onward
    BY <2>1, <2>4 DEF Onward, PipelineOnward, MirrorOnward
  <2>. QED BY <1>1, <2>1, <2>5, OnwardKeeps, OnwardFiling, OnwardUploaded, OnwardAnswers DEF Inv
<1>. QED BY <1>2, <1>3, <1>4 DEF InboxWorkflow

LEMMA DebounceInv ==
  ASSUME Inv, NEW c \in Conversation, Debounce(c)
  PROVE  Inv'
<1>1. TypeInv'
  BY DebounceType DEF Inv
<1>2. UNCHANGED <<payload, http, row, filed, files, pc, try, answer, step, mirror>>
  BY DEF Debounce, ResetsTimer, TimerExpires, DispatchesAnalysis, TerminatesChild, Closes, DebounceOnly
<1>3. Onward
  BY <1>2 DEF Inv, TypeInv, TypeOK, Mirrored, Onward, PipelineOnward, MirrorOnward, WorkflowOnward
<1>. QED BY <1>1, <1>2, <1>3, OnwardKeeps, OnwardFiling, OnwardUploaded, OnwardAnswers DEF Inv

\* A delivery changes no more than its own progress, the row it creates and
\* the start of the workflow.
LEMMA WebhookKeeps ==
  ASSUME Inv, NEW e \in Event, UNCHANGED <<payload, filed, files, try, answer, mirror>>,
         pc' = pc \/ pc' = [pc EXCEPT ![e] = IF @ = "none" THEN "pipeline" ELSE @],
         row' = row \/ (row[e] = "none" /\ row' = [row EXCEPT ![e] = "RECEIVED"]),
         \A r \in PipelineRun :
           \/ step'[r] = step[r]
           \/ step[r] = "none" /\ step'[r] = "begun" /\ r[1] = e /\ r[2] = 1
  PROVE  Tries' /\ Filing' /\ Mirrored' /\ Uploaded' /\ OwnConversation'
<1>0. /\ pc \in [Event -> Waits \cup Closed \cup {"none"}]
      /\ row \in [Event -> {"none", "RECEIVED", "PROCESSED"}]
      /\ try \in [Event -> Nat \ {0}]
  BY DEF Inv, TypeInv, TypeOK
<1>1. \A x \in Event : pc'[x] = pc[x] \/ (pc[x] = "none" /\ pc'[x] = "pipeline")
  BY <1>0
<1>2. \A x \in Event : row'[x] = "PROCESSED" <=> row[x] = "PROCESSED"
  BY <1>0
<1>3. \A x \in Event : (Drops(x)' <=> Drops(x)) /\ (HasFile(x)' <=> HasFile(x)) /\ FileOf(x)' = FileOf(x)
  BY DEF Drops, HasFile, FileOf
<1>4. Tries'
  <2>1. ASSUME NEW r \in PipelineRun, pc'[r[1]] = "pipeline", r[2] > try[r[1]]
        PROVE  step'[r] = "none"
    <3>1. r[1] \in Event /\ r[2] \in Nat /\ try[r[1]] \in Nat \ {0}
      BY <1>0, Indices, Bounds
    <3>2. r[2] # 1
      BY <2>1, <3>1
    <3>3. step[r] = "none"
      BY <1>1, <2>1, <3>1 DEF Inv, Accounted, Tries
    <3>. QED BY <3>2, <3>3
  <2>2. \A r \in MirrorRun :
          pc'[r[1]] \in {"none", "pipeline"} \/ (pc'[r[1]] = "mirror" /\ r[2] > try[r[1]]) => mirror[r] = "none"
    BY <1>1, Indices DEF Inv, Tries
  <2>. QED BY <2>1, <2>2 DEF Tries
<1>5. Filing'
  <2>1. \A r \in PipelineRun : /\ step[r] \in Ran <=> step'[r] \in Ran
                               /\ step[r] = "committed" <=> step'[r] = "committed"
    BY DEF Ran
  <2>. QED BY <1>2, <1>3, <2>1 DEF Inv, Filing
<1>6. Mirrored'
  BY <1>1, <1>3, Indices DEF Inv, Mirrored
<1>7. Uploaded'
  BY <1>3, Indices DEF Inv, Uploaded
<1>8. OwnConversation'
  <2>1. \A x \in Event : Retried(x) => Retried(x)'
    <3>1. SUFFICES ASSUME NEW x \in Event, NEW m \in 2..PipelineAttempts[x], step[<<x, m>>] # "none"
                   PROVE  step'[<<x, m>>] # "none"
      BY DEF Retried
    <3>2. m \in Nat /\ m \in 1..PipelineAttempts[x]
      BY <3>1, Bounds
    <3>3. <<x, m>> \in PipelineRun
      BY <3>2, Indices
    <3>. QED BY <3>1, <3>3
  <2>. QED BY <2>1 DEF Inv, OwnConversation
<1>. QED BY <1>4, <1>5, <1>6, <1>7, <1>8

LEMMA WebhookInv ==
  ASSUME Inv, NEW e \in Event, NEW n \in 1..MaxDeliveries[e], Webhook(e, n)
  PROVE  Inv'
<1>1. TypeInv'
  BY WebhookType DEF Inv
<1>2. n \in Nat
  BY Bounds
<1>3. PICK d \in Delivery : d = <<e, n>> /\ d[1] = e
  BY <1>2, Indices
<1>4. /\ DOMAIN http = Delivery /\ DOMAIN row = Event /\ DOMAIN pc = Event /\ DOMAIN step = PipelineRun
      /\ \A c \in Delivery : c[1] \in Event
  BY DEF Inv, TypeInv, TypeOK, Delivery
<1>5. CASE Delivers(e, n) \/ HandlerFails(e, n)
  <2>1. UNCHANGED <<payload, row, filed, files, pc, try, answer, step, mirror>>
    BY <1>5 DEF Delivers, HandlerFails, Slack
  <2>2. PICK to : /\ http' = [http EXCEPT ![d] = to]
                  /\ to \in Sent => http[d] \in Sent
                  /\ to \notin Sent => http[d] \notin Sent
                  /\ to = "acked" => row[e] # "none"
    BY <1>3, <1>5 DEF Delivers, HandlerFails, Sent
  <2>3. \A c \in Delivery : /\ http'[c] \in Sent <=> http[c] \in Sent
                            /\ http'[c] \in Sent \cup {"acked"} => row[c[1]] # "none"
    BY <1>3, <1>4, <2>2 DEF Inv, Accounted
  <2>4. Accounted'
    BY <2>1, <2>3 DEF Inv, Accounted
  <2>5. Tries' /\ Filing' /\ Mirrored' /\ Uploaded' /\ OwnConversation'
    BY <2>1, WebhookKeeps
  <2>. QED BY <1>1, <2>4, <2>5 DEF Inv
<1>6. CASE CreatesRow(e, n)
  <2>1. UNCHANGED <<payload, filed, files, pc, try, answer, step, mirror>> /\ http[d] = "fresh"
    BY <1>3, <1>6 DEF CreatesRow
  <2>2. CASE row[e] = "none"
    <3>1. row' = [row EXCEPT ![e] = "RECEIVED"] /\ http' = [http EXCEPT ![d] = "created"]
      BY <1>3, <1>6, <2>2 DEF CreatesRow
    <3>2. \A c \in Delivery : c[1] = e => http[c] \notin Sent \cup {"acked"}
      BY <2>2 DEF Inv, Accounted
    <3>3. /\ \A c \in Delivery : http'[c] = IF c = d THEN "created" ELSE http[c]
          /\ \A x \in Event : row'[x] = IF x = e THEN "RECEIVED" ELSE row[x]
      BY <1>4, <3>1
    <3>4. Accounted'
      BY <1>3, <1>4, <2>1, <3>2, <3>3 DEF Inv, Accounted, Sent
    <3>. QED BY <1>1, <2>1, <2>2, <3>1, <3>4, WebhookKeeps DEF Inv
  <2>3. CASE row[e] # "none"
    <3>1. row' = row /\ http' = [http EXCEPT ![d] = "refused"]
      BY <1>3, <1>6, <2>3 DEF CreatesRow
    <3>2. \A c \in Delivery : http'[c] = IF c = d THEN "refused" ELSE http[c]
      BY <1>4, <3>1
    <3>3. Accounted'
      BY <1>3, <1>4, <2>1, <3>1, <3>2 DEF Inv, Accounted, Sent
    <3>. QED BY <1>1, <2>1, <3>1, <3>3, WebhookKeeps DEF Inv
  <2>. QED BY <2>2, <2>3
<1>7. CASE Dispatches(e, n)
  <2>1. PICK r \in PipelineRun : r = <<e, 1>> /\ r[1] = e /\ r[2] = 1
    BY Bounds, RunOf
  <2>2. /\ UNCHANGED <<payload, row, filed, files, try, answer, mirror>> /\ http[d] = "created"
        /\ pc' = [pc EXCEPT ![e] = IF @ = "none" THEN "pipeline" ELSE @]
        /\ step' = [step EXCEPT ![r] = IF @ = "none" THEN "begun" ELSE @]
        /\ http' = [http EXCEPT ![d] = "acked"] \/ http' = [http EXCEPT ![d] = "stranded"]
    BY <1>3, <1>7, <2>1 DEF Dispatches, StartsWorkflow
  <2>3. \A t \in PipelineRun :
          \/ step'[t] = step[t]
          \/ step[t] = "none" /\ step'[t] = "begun" /\ t[1] = e /\ t[2] = 1
    BY <1>4, <2>1, <2>2
  <2>4. /\ pc'[e] # "none" /\ \A x \in Event \ {e} : pc'[x] = pc[x]
        /\ \A c \in Delivery \ {d} : http'[c] = http[c]
    BY <1>4, <2>2
  <2>5. row[e] # "none"
    BY <1>3, <2>2 DEF Inv, Accounted, Sent
  <2>6. Accounted'
    BY <1>3, <1>4, <2>2, <2>3, <2>4, <2>5, Indices DEF Inv, Accounted, Sent
  <2>. QED BY <1>1, <2>2, <2>3, <2>6, WebhookKeeps DEF Inv
<1>. QED BY <1>5, <1>6, <1>7 DEF Webhook

LEMMA NextInv == Inv /\ [Next]_vars => Inv'
<1>. SUFFICES ASSUME Inv, [Next]_vars PROVE Inv'
  OBVIOUS
<1>1. CASE UNCHANGED vars
  <2>1. UNCHANGED <<payload, http, row, filed, files, pc, try, answer, step, mirror>>
    BY <1>1 DEF vars
  <2>2. Onward
    BY <2>1 DEF Inv, TypeInv, TypeOK, Mirrored, Onward, PipelineOnward, MirrorOnward, WorkflowOnward
  <2>3. TypeInv'
    BY <1>1, TypeNext DEF Inv
  <2>. QED BY <2>1, <2>2, <2>3, OnwardKeeps, OnwardFiling, OnwardUploaded, OnwardAnswers DEF Inv
<1>. QED BY <1>1, WebhookInv, PipelineInv, MirrorInv, WorkflowInv, DebounceInv DEF Next

LEMMA Invariance == Spec => []Inv
BY InitInv, NextInv, PTL DEF Spec

-------------------------------------------------------------------------------
(* The properties *)

\* An event Slack was told is accepted has its workflow, or the delivery that created its row
\* is still to dispatch it or was stranded before it could (processWebhook).
THEOREM AcknowledgedEvents == Spec => []AckedIsAccountedFor
<1>1. Inv => AckedIsAccountedFor
  <2>1. SUFFICES ASSUME Inv, NEW e \in Event, NEW n \in 1..MaxDeliveries[e], http[<<e, n>>] = "acked", pc[e] = "none"
                 PROVE  \E m \in 1..MaxDeliveries[e] : http[<<e, m>>] \in {"created", "stranded"}
    BY DEF AckedIsAccountedFor
  <2>2. n \in Nat /\ <<e, n>> \in Delivery
    BY Bounds, Indices
  <2>3. row[e] # "none"
    BY <2>1, <2>2 DEF Inv, Accounted
  <2>4. PICK d \in Delivery : d[1] = e /\ http[d] \in Sent
    BY <2>1, <2>3 DEF Inv, Accounted
  <2>5. d[2] \in 1..MaxDeliveries[e] /\ d = <<e, d[2]>>
    BY <2>4 DEF Delivery
  <2>. QED BY <2>4, <2>5 DEF Sent
<1>. QED BY <1>1, Invariance, PTL

\* However the deliveries of an event overlap, one of them at most gets past the unique
\* canonicalIdempotencyKey and dispatches the workflow (processWebhook).
THEOREM SingleDispatcher == Spec => []OneDispatcher
<1>1. Inv => OneDispatcher
  <2>1. SUFFICES ASSUME Inv, NEW e \in Event, NEW m \in 1..MaxDeliveries[e], NEW n \in 1..MaxDeliveries[e],
                        http[<<e, m>>] \in Sent, http[<<e, n>>] \in Sent
                 PROVE  m = n
    BY DEF OneDispatcher, Sent
  <2>2. m \in Nat /\ n \in Nat
    BY Bounds
  <2>3. <<e, m>> \in Delivery /\ <<e, n>> \in Delivery
    BY <2>2, Indices
  <2>4. <<e, m>> = <<e, n>>
    BY <2>1, <2>3 DEF Inv, Accounted
  <2>. QED BY <2>4
<1>. QED BY <1>1, Invariance, PTL

\* A row is PROCESSED exactly when its event is on the timeline or was dropped, and an event
\* is there twice only after a retry and without a file (runSupportPipeline).
THEOREM Filed == Spec => []FiledAsPromised
<1>1. Inv => FiledAsPromised
  <2>1. SUFFICES ASSUME Inv, NEW e \in Event, NEW m \in filed[e], NEW n \in filed[e], m # n
                 PROVE  Retried(e) /\ ~HasFile(e)
    BY DEF FiledAsPromised, Inv, Filing
  <2>2. m \in 1..PipelineAttempts[e] /\ n \in 1..PipelineAttempts[e]
    <3>1. filed[e] \subseteq 1..PipelineAttempts[e]
      BY <2>1 DEF Inv, TypeInv, TypeOK
    <3>. QED BY <2>1, <3>1
  <2>4. step[<<e, m>>] # "none" /\ step[<<e, n>>] # "none"
    <3>1. ASSUME NEW k \in filed[e], k \in 1..PipelineAttempts[e]
          PROVE  step[<<e, k>>] # "none"
      <4>1. PICK r \in PipelineRun : r = <<e, k>> /\ r[1] = e /\ r[2] = k
        BY <3>1, RunOf
      <4>. QED BY <2>1, <3>1, <4>1 DEF Inv, Filing, Ran
    <3>. QED BY <2>2, <3>1
  <2>5. m \in 2..PipelineAttempts[e] \/ n \in 2..PipelineAttempts[e]
    BY <2>1, <2>2, Bounds
  <2>. QED BY <2>1, <2>4, <2>5 DEF Retried, Inv, Filing
<1>. QED BY <1>1, Invariance, PTL

\* The workflow goes on with the conversation the event was filed in, unless an attempt that
\* had committed was retried.
THEOREM RightConversation == Spec => []OwnConversation
BY Invariance, PTL DEF Inv

\* Only an overlapping attempt takes a mirrored file from view (mirrorSupportAttachment).
THEOREM MirroredFileStays == Spec => UploadedStays
<1>1. ASSUME Inv, [Next]_vars, NEW f \in File, files[f] = "UPLOADED", files'[f] # "UPLOADED"
      PROVE  \E e \in Event : FileOf(e) = f /\ \E n \in 2..MirrorAttempts : mirror[<<e, n>>] # "none"
  <2>1. PICK e \in Event : \/ \E n \in 1..PipelineAttempts[e] : FilesEvent(e, n)
                           \/ \E n \in 1..MirrorAttempts : SettlesAttachment(e, n)
    <3>1. files' # files
      BY <1>1
    <3>. QED BY <1>1, <3>1 DEF Next, vars, Webhook, Delivers, CreatesRow, Dispatches, HandlerFails, Slack,
             Pipeline, LoadsEvent, DropsEvent, EmitsChange, PipelineFails, Mirror, LoadsAttachment, MirrorFails,
             InboxWorkflow, PipelineTimesOut, MirrorTimesOut, ReadsMode, GateFails, SignalsDebounce, StartsDebounce,
             Engine, Debounce, ResetsTimer, TimerExpires, DispatchesAnalysis, TerminatesChild, Closes, DebounceOnly
  <2>2. CASE \E n \in 1..PipelineAttempts[e] : FilesEvent(e, n)
    <3>1. files' = files \/ (files[FileOf(e)] = "none" /\ \E s \in {"PENDING", "FAILED"} : files' = [files EXCEPT ![FileOf(e)] = s])
      BY <2>2 DEF FilesEvent
    <3>. QED BY <1>1, <3>1 DEF Inv, TypeInv, TypeOK
  <2>3. CASE \E n \in 1..MirrorAttempts : SettlesAttachment(e, n)
    <3>1. PICK n \in 1..MirrorAttempts : SettlesAttachment(e, n)
      BY <2>3
    <3>2. PICK r \in MirrorRun : r = <<e, n>> /\ r[1] = e /\ r[2] = n
      BY Indices
    <3>3. mirror[r] = "loaded" /\ FileOf(e) = f
      BY <1>1, <3>1, <3>2 DEF SettlesAttachment, Inv, TypeInv, TypeOK
    <3>4. PICK t \in MirrorRun : FileOf(t[1]) = f /\ mirror[t] = "over"
      BY <1>1 DEF Inv, Uploaded
    <3>5. t[1] = e /\ t # r
      BY <1>1, <3>2, <3>3, <3>4, Indices DEF Inv, Filing, Mirrored
    <3>6. t = <<e, t[2]>> /\ t[2] \in 1..MirrorAttempts /\ t[2] # n
      BY <3>2, <3>5, Indices
    <3>7. n \in 2..MirrorAttempts \/ t[2] \in 2..MirrorAttempts
      BY <3>6, Bounds
    <3>. QED BY <3>2, <3>3, <3>4, <3>6, <3>7
  <2>. QED BY <2>1, <2>2, <2>3
<1>2. Inv /\ [Next]_vars =>
        [\A f \in File : files[f] = "UPLOADED" /\ files'[f] # "UPLOADED" =>
           \E e \in Event : FileOf(e) = f /\ \E n \in 2..MirrorAttempts : mirror[<<e, n>>] # "none"]_vars
  BY <1>1
<1>. QED BY <1>2, Invariance, PTL DEF Spec, UploadedStays

-------------------------------------------------------------------------------
(* An event's workflow goes forward: the safety half of WorkflowsEnd.        *)

Goals == [ pipeline |-> {"mirror", "gate", "completed", "failed"}, mirror |-> {"gate", "completed"},
           gate |-> {"signal", "completed", "failed"}, signal |-> {"start", "completed"},
           start |-> {"resignal", "completed"}, resignal |-> {"completed"} ]

Limit(e) ==
  IF pc[e] = "pipeline" THEN PipelineAttempts[e] ELSE IF pc[e] = "mirror" THEN MirrorAttempts ELSE GateAttempts

\* What a workflow may do next: the next attempt of an activity, or another wait.
Advances(e) ==
  \/ pc[e] \in {"pipeline", "mirror", "gate"} /\ try[e] < Limit(e) /\ pc' = pc /\ try' = [try EXCEPT ![e] = @ + 1]
  \/ pc[e] \in Waits /\ \E w \in Goals[pc[e]] : GoesTo(e, w)

Begins(e) == pc[e] = "none" /\ pc' = [pc EXCEPT ![e] = "pipeline"] /\ try' = try

\* Attempts and waits an event's workflow has left.
Left(e) ==
  IF pc[e] = "none" THEN PipelineAttempts[e] + MirrorAttempts + GateAttempts + 4
  ELSE IF pc[e] = "pipeline" THEN PipelineAttempts[e] + 1 - try[e] + MirrorAttempts + GateAttempts + 3
  ELSE IF pc[e] = "mirror" THEN MirrorAttempts + 1 - try[e] + GateAttempts + 3
  ELSE IF pc[e] = "gate" THEN GateAttempts + 1 - try[e] + 3
  ELSE [signal |-> 3, start |-> 2, resignal |-> 1, completed |-> 0, failed |-> 0][pc[e]]

\* The retry policies bound them.
WaitsAreBounded == \A e \in Event : Left(e) \in 0 .. (PipelineAttempts[e] + MirrorAttempts + GateAttempts + 4)

\* Each step of the workflow takes from them, and no step adds to them.
WaitsAreUsedUp ==
  [][\A e \in Event : Left(e)' <= Left(e) /\ (InboxWorkflow(e) => Left(e)' < Left(e))]_vars

GateTry == \A e \in Event : pc[e] = "gate" => try[e] <= GateAttempts

LEMMA TakesAnswerAdvances ==
  ASSUME NEW e \in Event, NEW n, NEW a, TakesAnswer(e, n, a)
  PROVE  UNCHANGED <<pc, try>> \/ Advances(e)
<1>1. CASE ~IsCurrent(e, n, "pipeline")
  BY <1>1 DEF TakesAnswer
<1>2. CASE IsCurrent(e, n, "pipeline")
  <2>1. pc[e] = "pipeline" /\ \E w \in {"mirror", "gate", "completed"} : GoesTo(e, w)
    BY <1>2 DEF TakesAnswer, IsCurrent
  <2>. QED BY <2>1 DEF Advances, Goals, Waits
<1>. QED BY <1>1, <1>2

LEMMA RetriesPipelineAdvances ==
  ASSUME NEW e \in Event, pc[e] = "pipeline", RetriesPipeline(e)
  PROVE  Advances(e)
BY DEF RetriesPipeline, Advances, Limit, Goals, Waits

LEMMA LeavesMirrorAdvances ==
  ASSUME NEW e \in Event, pc[e] = "mirror", GoesTo(e, AfterMirror(e))
  PROVE  Advances(e)
BY DEF AfterMirror, Advances, Goals, Waits

LEMMA RetriesMirrorAdvances ==
  ASSUME NEW e \in Event, NEW ended, pc[e] = "mirror", RetriesMirror(e, ended)
  PROVE  Advances(e)
<1>1. CASE try[e] < MirrorAttempts
  BY <1>1 DEF RetriesMirror, Advances, Limit
<1>2. CASE ~(try[e] < MirrorAttempts)
  BY <1>2, LeavesMirrorAdvances DEF RetriesMirror
<1>. QED BY <1>1, <1>2

LEMMA WebhookBegins ==
  ASSUME TypeInv, NEW e \in Event, NEW n, Webhook(e, n)
  PROVE  UNCHANGED <<pc, try>> \/ Begins(e)
<1>1. CASE Dispatches(e, n)
  <2>1. pc' = [pc EXCEPT ![e] = IF @ = "none" THEN "pipeline" ELSE @] /\ try' = try
    BY <1>1 DEF Dispatches, StartsWorkflow
  <2>2. CASE pc[e] = "none"
    BY <2>1, <2>2 DEF Begins
  <2>3. CASE pc[e] # "none"
    <3>1. pc' = pc
      BY <2>1, <2>3 DEF TypeInv, TypeOK
    <3>. QED BY <2>1, <3>1
  <2>. QED BY <2>2, <2>3
<1>. QED BY <1>1 DEF Webhook, Delivers, CreatesRow, HandlerFails, Slack

LEMMA PipelineAdvances ==
  ASSUME NEW e \in Event, NEW n, Pipeline(e, n)
  PROVE  UNCHANGED <<pc, try>> \/ Advances(e)
<1>1. CASE LoadsEvent(e, n)
  BY <1>1, TakesAnswerAdvances DEF LoadsEvent
<1>2. CASE DropsEvent(e, n) \/ EmitsChange(e, n)
  BY <1>2, TakesAnswerAdvances DEF DropsEvent, EmitsChange
<1>3. CASE FilesEvent(e, n)
  BY <1>3 DEF FilesEvent
<1>4. CASE PipelineFails(e, n)
  BY <1>4, RetriesPipelineAdvances DEF PipelineFails, IsCurrent
<1>. QED BY <1>1, <1>2, <1>3, <1>4 DEF Pipeline

LEMMA MirrorAdvances ==
  ASSUME NEW e \in Event, NEW n, Mirror(e, n)
  PROVE  UNCHANGED <<pc, try>> \/ Advances(e)
<1>1. MirrorDone(e, n) => UNCHANGED <<pc, try>> \/ Advances(e)
  BY LeavesMirrorAdvances DEF MirrorDone, IsCurrent
<1>2. CASE LoadsAttachment(e, n)
  BY <1>1, <1>2 DEF LoadsAttachment
<1>3. CASE SettlesAttachment(e, n)
  BY <1>1, <1>3 DEF SettlesAttachment
<1>4. CASE MirrorFails(e, n)
  BY <1>4, RetriesMirrorAdvances DEF MirrorFails, IsCurrent
<1>. QED BY <1>2, <1>3, <1>4 DEF Mirror

LEMMA WorkflowAdvances ==
  ASSUME NEW e \in Event, InboxWorkflow(e)
  PROVE  Advances(e)
<1>1. CASE PipelineTimesOut(e)
  BY <1>1, RetriesPipelineAdvances DEF PipelineTimesOut
<1>2. CASE MirrorTimesOut(e)
  BY <1>2, RetriesMirrorAdvances DEF MirrorTimesOut
<1>3. CASE ReadsMode(e)
  BY <1>3 DEF ReadsMode, Advances, Goals, Waits
<1>4. CASE GateFails(e)
  BY <1>4 DEF GateFails, Advances, Limit, Goals, Waits
<1>5. CASE SignalsDebounce(e)
  <2>1. \/ pc[e] = "signal" /\ (GoesTo(e, "completed") \/ GoesTo(e, "start"))
        \/ pc[e] = "resignal" /\ GoesTo(e, "completed")
    BY <1>5 DEF SignalsDebounce
  <2>. QED BY <2>1 DEF Advances, Goals, Waits
<1>6. CASE StartsDebounce(e)
  <2>1. pc[e] = "start" /\ (GoesTo(e, "completed") \/ GoesTo(e, "resignal"))
    BY <1>6 DEF StartsDebounce
  <2>. QED BY <2>1 DEF Advances, Goals, Waits
<1>. QED BY <1>1, <1>2, <1>3, <1>4, <1>5, <1>6 DEF InboxWorkflow

\* Every step leaves the workflows alone, starts one or takes one further.
LEMMA StepAdvances ==
  ASSUME TypeInv, [Next]_vars
  PROVE  UNCHANGED <<pc, try>> \/ \E e \in Event : Begins(e) \/ Advances(e)
<1>1. CASE UNCHANGED vars
  BY <1>1 DEF vars
<1>2. ASSUME NEW c \in Conversation, Debounce(c) PROVE UNCHANGED <<pc, try>>
  BY <1>2 DEF Debounce, ResetsTimer, TimerExpires, DispatchesAnalysis, TerminatesChild, Closes, DebounceOnly
<1>. QED BY <1>1, <1>2, WebhookBegins, PipelineAdvances, MirrorAdvances, WorkflowAdvances DEF Next

TriesOK == TypeInv /\ GateTry

LEMMA LeftBounded == TriesOK => WaitsAreBounded
<1>. SUFFICES ASSUME TriesOK, NEW e \in Event
              PROVE  Left(e) \in 0 .. (PipelineAttempts[e] + MirrorAttempts + GateAttempts + 4)
  BY DEF WaitsAreBounded
<1>1. /\ PipelineAttempts[e] \in Nat \ {0} /\ MirrorAttempts \in Nat \ {0} /\ GateAttempts \in Nat \ {0}
      /\ try[e] \in Nat \ {0} /\ pc[e] \in Waits \cup Closed \cup {"none"}
      /\ pc[e] = "pipeline" => try[e] <= PipelineAttempts[e]
      /\ pc[e] = "mirror" => try[e] <= MirrorAttempts
      /\ pc[e] = "gate" => try[e] <= GateAttempts
  BY Bounds DEF TriesOK, TypeInv, TypeOK, GateTry
<1>. QED BY <1>1 DEF Left, Waits, Closed

\* Going on takes from what is left, of this workflow only.
LEMMA AdvanceTakes ==
  ASSUME TriesOK, TypeInv', NEW e \in Event, Begins(e) \/ Advances(e)
  PROVE  /\ Left(e)' < Left(e) /\ Left(e)' \in Int
         /\ \A x \in Event \ {e} : Left(x)' = Left(x)
         /\ GateTry'
<1>1. /\ PipelineAttempts[e] \in Nat \ {0} /\ MirrorAttempts \in Nat \ {0} /\ GateAttempts \in Nat \ {0}
      /\ try[e] \in Nat \ {0} /\ pc[e] \in Waits \cup Closed \cup {"none"}
      /\ pc[e] = "pipeline" => try[e] <= PipelineAttempts[e]
      /\ pc[e] = "mirror" => try[e] <= MirrorAttempts
      /\ pc[e] = "gate" => try[e] <= GateAttempts
      /\ pc \in [Event -> Waits \cup Closed \cup {"none"}] /\ try \in [Event -> Nat \ {0}]
  BY Bounds DEF TriesOK, TypeInv, TypeOK, GateTry
<1>2. ASSUME \A x \in Event \ {e} : pc'[x] = pc[x] /\ try'[x] = try[x], pc'[e] = "gate" => try'[e] <= GateAttempts
      PROVE  (\A x \in Event \ {e} : Left(x)' = Left(x)) /\ GateTry'
  BY <1>2 DEF Left, TriesOK, GateTry
<1>3. CASE Begins(e)
  <2>1. pc[e] = "none" /\ pc'[e] = "pipeline" /\ try'[e] = try[e]
        /\ \A x \in Event \ {e} : pc'[x] = pc[x] /\ try'[x] = try[x]
    BY <1>1, <1>3 DEF Begins
  <2>2. Left(e)' = PipelineAttempts[e] + 1 - try[e] + MirrorAttempts + GateAttempts + 3
    BY <2>1 DEF Left
  <2>3. Left(e) = PipelineAttempts[e] + MirrorAttempts + GateAttempts + 4
    BY <2>1 DEF Left
  <2>. QED BY <1>1, <1>2, <2>1, <2>2, <2>3
<1>4. CASE /\ pc[e] \in {"pipeline", "mirror", "gate"} /\ try[e] < Limit(e)
           /\ pc' = pc /\ try' = [try EXCEPT ![e] = @ + 1]
  <2>1. pc'[e] = pc[e] /\ try'[e] = try[e] + 1 /\ \A x \in Event \ {e} : pc'[x] = pc[x] /\ try'[x] = try[x]
    BY <1>1, <1>4
  <2>2. Left(e)' < Left(e) /\ Left(e)' \in Int
    BY <1>1, <1>4, <2>1 DEF Left
  <2>3. pc'[e] = "gate" => try'[e] <= GateAttempts
    BY <1>1, <1>4, <2>1 DEF Limit
  <2>. QED BY <1>2, <2>1, <2>2, <2>3
<1>5. ASSUME NEW w \in Goals[pc[e]], pc[e] \in Waits, GoesTo(e, w)
      PROVE  /\ Left(e)' < Left(e) /\ Left(e)' \in Int
             /\ \A x \in Event \ {e} : Left(x)' = Left(x)
             /\ GateTry'
  <2>1. pc'[e] = w /\ (w \in {"mirror", "gate"} => try'[e] = 1)
        /\ \A x \in Event \ {e} : pc'[x] = pc[x] /\ try'[x] = try[x]
    BY <1>1, <1>5 DEF GoesTo
  <2>2. Left(e)' < Left(e) /\ Left(e)' \in Int
    <3>1. CASE pc[e] = "pipeline"
      BY <1>1, <1>5, <2>1, <3>1 DEF Left, Goals
    <3>2. CASE pc[e] = "mirror"
      BY <1>1, <1>5, <2>1, <3>2 DEF Left, Goals
    <3>3. CASE pc[e] = "gate"
      BY <1>1, <1>5, <2>1, <3>3 DEF Left, Goals
    <3>4. CASE pc[e] \in {"signal", "start", "resignal"}
      BY <1>1, <1>5, <2>1, <3>4 DEF Left, Goals
    <3>. QED BY <1>5, <3>1, <3>2, <3>3, <3>4 DEF Waits
  <2>. QED BY <1>1, <1>2, <2>1, <2>2
<1>. QED BY <1>3, <1>4, <1>5 DEF Advances

LEMMA LeftStep ==
  ASSUME TriesOK, [Next]_vars
  PROVE  TriesOK' /\ \A e \in Event : Left(e)' <= Left(e)
<1>1. TypeInv /\ TypeInv'
  BY TypeNext DEF TriesOK
<1>2. \A e \in Event : Left(e) \in Int
  BY LeftBounded, Bounds DEF WaitsAreBounded
<1>3. CASE UNCHANGED <<pc, try>>
  BY <1>1, <1>2, <1>3 DEF TriesOK, GateTry, Left
<1>4. ASSUME NEW e \in Event, Begins(e) \/ Advances(e) PROVE TriesOK' /\ \A x \in Event : Left(x)' <= Left(x)
  BY <1>1, <1>2, <1>4, AdvanceTakes DEF TriesOK
<1>. QED BY <1>1, <1>3, <1>4, StepAdvances

\* The workflow of an event waits for a bounded number of attempts and calls: each step of its own leaves fewer of
\* them, and no delivery of Slack, answer of an attempt, other event or debounce workflow makes them more.
THEOREM WaitsRunOut == Spec => []WaitsAreBounded /\ WaitsAreUsedUp
<1>1. Init => TriesOK
  BY InitType DEF Init, TriesOK, GateTry
<1>2. TriesOK /\ [Next]_vars => TriesOK'
  BY LeftStep
<1>3. TriesOK /\ [Next]_vars => [\A e \in Event : Left(e)' <= Left(e) /\ (InboxWorkflow(e) => Left(e)' < Left(e))]_vars
  <2>. SUFFICES ASSUME TriesOK, [Next]_vars, NEW e \in Event
                PROVE  Left(e)' <= Left(e) /\ (InboxWorkflow(e) => Left(e)' < Left(e))
    OBVIOUS
  <2>1. TypeInv'
    BY TypeNext DEF TriesOK
  <2>. QED BY <2>1, LeftStep, WorkflowAdvances, AdvanceTakes
<1>. QED BY <1>1, <1>2, <1>3, LeftBounded, PTL DEF Spec, WaitsAreUsedUp
===============================================================================
