---------------------------- MODULE AgentTeamRun ----------------------------
(***************************************************************************)
(* One run of an agent team: the workflow executions that work on it, the  *)
(* role inboxes they claim and queue, the questions roles put to each      *)
(* other and to humans, and the operators' requests that answer a question *)
(* and resume a waiting run.                                               *)
(*                                                                         *)
(* The interleaving unit is one database transaction or one call of the    *)
(* workflow engine.  Transactions run at READ COMMITTED: the two whose     *)
(* writes rest on what they read are two steps, the reads and the commit   *)
(* (persistRoleTurnResult, recordOperatorAnswer).  An activity takes       *)
(* effect and then either returns or loses its completion: whatever        *)
(* happens in between could as well happen before the next activity.       *)
(*                                                                         *)
(* A turn's output is a member of Output.  Texts, facts, tool calls,       *)
(* unread counters and the event log apart from question events are left   *)
(* out: no guard reads them.  The order in which queued inboxes are        *)
(* claimed is left open.                                                   *)
(***************************************************************************)
EXTENDS Naturals, FiniteSets

CONSTANTS
  Role,          \* role keys of the run's team snapshot
  SlugOf,        \* the slug of each role
  InitialRole,   \* selectInitialRole of the snapshot
  Lead,          \* resolvePrimaryRoleKey(architect), "orchestrator" if there is none
  Output,        \* what the agent service may return for a turn
  NoOutput,      \* no turn result is pending
  MaxTurns,      \* MAX_AGENT_TEAM_TURNS
  MaxMessages,   \* MAX_AGENT_TEAM_MESSAGES
  TurnAttempts,  \* maximumAttempts of the turn activities
  MaxExecutions, \* bound on workflow executions: the first one and its resumes
  Request        \* operators' requests that may be in progress at a time

Slug == {"architect", "rcaAnalyst", "codeReader", "reviewer", "prCreator"}
Human == {"customer", "operator"}
Address == {"broadcast", "orchestrator"}
Target == Role \cup Human \cup Address \cup {"unknown"}

\* question stands for question and request_evidence, passive for the kinds
\* that wake nobody, talk for the others.
Kind == {"question", "blocked", "approval", "talk", "passive"}
Message == [at : Nat, kind : Kind, to : Target]

\* messages: the draft messages by position; asks: questionsToResolve by position.
TurnOutput ==
  [ messages   : SUBSET Message,
    suggested  : SUBSET Role,
    resolves   : BOOLEAN,
    resolution : {"none", "complete", "needs_input", "no_action_needed"},
    asks       : SUBSET [at : Nat, target : Human \cup {"internal"}],
    done       : BOOLEAN ]

Nobody == "nobody"
Execution == 1..MaxExecutions
QuestionId == Nat \X {"message", "resolution"} \X Nat

ASSUME SlugAssumption == SlugOf \in [Role -> Slug]
ASSUME InitialRoleAssumption == InitialRole \in Role
ASSUME LeadAssumption ==
  \/ Lead \in Role /\ SlugOf[Lead] = "architect"
  \/ Lead = "orchestrator" /\ \A r \in Role : SlugOf[r] # "architect"
ASSUME RoleAssumption == Role \cap (Address \cup {"unknown", Nobody}) = {}
ASSUME OutputAssumption ==
  /\ Output \subseteq TurnOutput /\ NoOutput \notin Output
  /\ \A out \in Output : IsFiniteSet(out.messages)
ASSUME BoundsAssumption ==
  /\ MaxTurns \in Nat \ {0} /\ MaxMessages \in Nat
  /\ TurnAttempts \in Nat \ {0} /\ MaxExecutions \in Nat \ {0}

Architects == {r \in Role : SlugOf[r] = "architect"}
PrCreators == {r \in Role : SlugOf[r] = "prCreator"}

VARIABLES
  status,     \* AgentTeamRun.status
  inbox,      \* AgentTeamRoleInbox.state, "none" before the row exists
  messages,   \* number of AgentTeamMessage rows
  approved,   \* a reviewer's approval is among them
  open,       \* AgentTeamOpenQuestion rows with status open
  dispatched, \* question_dispatched events
  asker,      \* actor of the latest question_dispatched event of each question id
  answered,   \* question_answered events
  starting,   \* the request that created the run has not called the engine yet
  pc,         \* the activity an execution waits for, or how it ended
  attempt,    \* number of the running attempt of that activity
  turn,       \* turnCount
  role,       \* the role whose turn it is
  seen,       \* the open questions loadTurnContext handed to that role
  result,     \* what runTeamTurnActivity returned
  answering,  \* answers that passed the checks of recordOperatorAnswer
  resuming    \* how far a request has got in resumeRun

\* Ids of the questions dispatched so far.
Asked == DOMAIN asker

rowVars == <<status, inbox, messages, approved, open, dispatched, asker, answered>>
engineVars == <<pc, attempt, turn, role, seen, result>>
turnVars == <<turn, role, seen, result>>
requestVars == <<starting, answering, resuming>>
vars == <<status, inbox, messages, approved, open, dispatched, asker, answered,
          starting, pc, attempt, turn, role, seen, result, answering, resuming>>

\* "writing" is persistRoleTurnResult once its transaction has counted.
TurnActivities == {"claim", "turn", "persist", "writing"}
LifecycleActivities ==
  {"initialize", "progress", "recheck", "markWaiting", "markCompleted",
   "budgetExceeded", "markFailed"}
Ended == {"returned", "failed"}

OpenQuestion == [execution : Execution, turn : Nat, attempt : Nat, at : Nat,
                 owner : Role \cup Address \cup {"unknown"}]
DispatchEvent == [id : QuestionId, execution : Execution, attempt : Nat]

TypeOK ==
  /\ status \in {"queued", "running", "waiting", "completed", "failed"}
  /\ inbox \in [Role -> {"none", "idle", "queued", "running", "blocked", "done"}]
  /\ messages \in Nat
  /\ approved \in BOOLEAN
  /\ open \subseteq OpenQuestion
  /\ dispatched \subseteq DispatchEvent
  /\ Asked \subseteq QuestionId
  /\ \A q \in Asked : asker[q] \in Role
  /\ answered \subseteq Asked \X Request
  /\ starting \in BOOLEAN
  /\ pc \in [Execution -> TurnActivities \cup LifecycleActivities \cup Ended \cup {"none"}]
  /\ attempt \in [Execution -> 1..TurnAttempts]
  /\ turn \in [Execution -> 0..MaxTurns]
  /\ role \in [Execution -> Role \cup {Nobody}]
  /\ \A e \in Execution : pc[e] \in {"turn", "persist", "writing"} => role[e] \in Role
  /\ seen \in [Execution -> SUBSET OpenQuestion]
  /\ result \in [Execution -> Output \cup {NoOutput}]
  /\ \A e \in Execution : pc[e] \in {"persist", "writing"} => result[e] \in Output
  /\ answering \subseteq Request \X Asked \X Role
  /\ resuming \in [Request -> {"no", "checked", "dispatched"}]

\* start() of run-service.ts has created the row.
Init ==
  /\ status = "queued"
  /\ inbox = [r \in Role |-> "none"]
  /\ messages = 0
  /\ approved = FALSE
  /\ open = {}
  /\ dispatched = {}
  /\ asker = [q \in {} |-> Nobody]
  /\ answered = {}
  /\ starting = TRUE
  /\ pc = [e \in Execution |-> "none"]
  /\ attempt = [e \in Execution |-> 1]
  /\ turn = [e \in Execution |-> 0]
  /\ role = [e \in Execution |-> Nobody]
  /\ seen = [e \in Execution |-> {}]
  /\ result = [e \in Execution |-> NoOutput]
  /\ answering = {}
  /\ resuming = [o \in Request |-> "no"]

-------------------------------------------------------------------------------
(* Routing *)

CanRoute(from, to) ==
  to \in CASE from = "architect"  -> {"rcaAnalyst", "codeReader", "reviewer", "prCreator"}
           [] from = "rcaAnalyst" -> {"architect", "reviewer"}
           [] from = "codeReader" -> {"architect", "reviewer"}
           [] from = "reviewer"   -> {"architect", "prCreator"}
           [] from = "prCreator"  -> {"architect", "reviewer"}

\* A resolution other than complete adds a blocked message of its own.
Normalized(r, out) ==
  IF /\ out.resolution \in {"needs_input", "no_action_needed"}
     /\ \A m \in out.messages : m.kind # "blocked"
  THEN out.messages \cup
         { [at   |-> Cardinality(out.messages) + 1,
            kind |-> "blocked",
            to   |-> IF SlugOf[r] = "architect" THEN "orchestrator" ELSE Lead] }
  ELSE out.messages

\* partitionMessagesByRouting drops what the sender may not address.
Routed(r, out) ==
  {m \in Normalized(r, out) :
     IF m.to \in Role THEN CanRoute(SlugOf[r], SlugOf[m.to]) ELSE m.to # "unknown"}

\* A role of that name takes precedence over the human.
AsksHuman(m) == m.kind \in {"question", "blocked"} /\ m.to \in Human \ Role
OpensQuestion(m) == m.kind \in {"question", "blocked"} /\ m.to \notin Human \ Role

\* Mutant: the gate is not applied.
QueuedTargets_NoGate(r, out, approval) ==
  LET sent == Routed(r, out)
  IN  {t \in Role : \E m \in sent : m.to = t /\ m.kind # "passive"}
        \cup {t \in Architects : \E m \in sent : m.kind = "blocked"}
        \cup {t \in PrCreators : \E m \in sent : m.kind = "approval"}
        \cup {t \in out.suggested : CanRoute(SlugOf[r], SlugOf[t])}

\* The roles woken by a turn; without a reviewer's approval no PR creator.
QueuedTargets(r, out, approval) ==
  LET sent == Routed(r, out)
      woken == {t \in Role : \E m \in sent : m.to = t /\ m.kind # "passive"}
                 \cup {t \in Architects : \E m \in sent : m.kind = "blocked"}
                 \cup {t \in PrCreators : \E m \in sent : m.kind = "approval"}
                 \cup {t \in out.suggested : CanRoute(SlugOf[r], SlugOf[t])}
  IN  IF approval THEN woken ELSE woken \ PrCreators

\* Mutant: a role that wants input blocks even when it asked nobody.
SelfState_Hallucinated(r, out) ==
  IF out.resolution = "needs_input" \/ \E m \in Routed(r, out) : AsksHuman(m)
  THEN "blocked"
  ELSE IF out.done THEN "done" ELSE "idle"

\* resolveSelfTurnState: blocked only if some question went to a human.
SelfState(r, out) ==
  LET humanMessage == \E m \in Routed(r, out) : AsksHuman(m)
      humanAsk == \E a \in out.asks : a.target \in Human
  IN  IF humanMessage \/ (out.resolution = "needs_input" /\ humanAsk)
      THEN "blocked"
      ELSE IF out.done THEN "done" ELSE "idle"

\* Question ids are positional: turn, source and index.
AskedIds(r, out, n) ==
  LET sent == Routed(r, out)
      Index(m) == Cardinality({k \in sent : k.at < m.at})
  IN  { <<n, "message", Index(m)>> : m \in {m \in sent : AsksHuman(m)} }
        \cup (IF out.resolution = "none" THEN {}
              ELSE { <<n, "resolution", a.at>> : a \in out.asks })

\* buildOpenQuestionRow: a question to the orchestrator is the lead's.
Owner(r, m) ==
  IF m.to = "orchestrator" THEN IF Lead \in Role THEN Lead ELSE r ELSE m.to

-------------------------------------------------------------------------------
(* Workflow execution *)

Live(e) == pc[e] \notin Ended \cup {"none"}

\* The first execution that has not been started.
Fresh(e) == pc[e] = "none" /\ \A f \in 1..(e - 1) : pc[f] # "none"

Returns(e, to) ==
  /\ pc' = [pc EXCEPT ![e] = to]
  /\ attempt' = [attempt EXCEPT ![e] = 1]

\* A transaction that was under way is rolled back.
FromStart(p) == IF p = "writing" THEN "persist" ELSE p

\* Mutant: the retry policy names no maximumAttempts.
AttemptFails_Unlimited(e) ==
  IF pc[e] \in TurnActivities
  THEN attempt' = attempt /\ pc' = [pc EXCEPT ![e] = FromStart(@)]
  ELSE Returns(e, IF pc[e] \in {"initialize", "progress", "markFailed"}
                  THEN "failed" ELSE "markFailed")

\* Errors before the try block, and of the catch block itself, fail the
\* workflow; all others lead to the catch block.
AttemptFails(e) ==
  IF pc[e] \in TurnActivities /\ attempt[e] < TurnAttempts
  THEN attempt' = [attempt EXCEPT ![e] = @ + 1] /\ pc' = [pc EXCEPT ![e] = FromStart(@)]
  ELSE Returns(e, IF pc[e] \in {"initialize", "progress", "markFailed"}
                  THEN "failed" ELSE "markFailed")

\* The worker dies, a call errs or times out, and nothing was written.
AttemptLost(e) ==
  /\ Live(e)
  /\ AttemptFails(e)
  /\ UNCHANGED <<rowVars, turnVars, requestVars>>

\* An activity that has taken effect returns, or its completion is lost.
Completes(e, to) == Returns(e, to) \/ AttemptFails(e)

InitializeRunState(e) ==
  /\ pc[e] = "initialize"
  /\ status' = "running"
  /\ inbox' = [r \in Role |-> CASE r = InitialRole     -> "queued"
                                [] inbox[r] = "none"   -> "idle"
                                [] OTHER               -> inbox[r]]
  /\ Completes(e, "progress")
  /\ UNCHANGED <<messages, approved, open, dispatched, asker, answered,
                 turnVars, requestVars>>

\* The first getRunProgress: its value is only reported.
FirstProgress(e) ==
  /\ pc[e] = "progress"
  /\ Returns(e, "claim")
  /\ UNCHANGED <<rowVars, turnVars, requestVars>>

ClaimNextQueuedInbox(e) ==
  /\ pc[e] = "claim"
  /\ \E r \in Role :
       /\ inbox[r] = "queued"
       /\ inbox' = [inbox EXCEPT ![r] = "running"]
       /\ \/ Returns(e, "turn") /\ role' = [role EXCEPT ![e] = r]
          \/ AttemptFails(e) /\ UNCHANGED role
  /\ UNCHANGED <<status, messages, approved, open, dispatched, asker, answered,
                 turn, seen, result, requestVars>>

ClaimFindsNone(e) ==
  /\ pc[e] = "claim"
  /\ \A r \in Role : inbox[r] # "queued"
  /\ Returns(e, "recheck")
  /\ UNCHANGED <<rowVars, turnVars, requestVars>>

\* loadTurnContext and runTeamTurnActivity only read.
RunTeamTurn(e) ==
  /\ pc[e] = "turn"
  /\ seen' = [seen EXCEPT ![e] = {q \in open : q.owner = role[e]}]
  /\ \E out \in Output : result' = [result EXCEPT ![e] = out]
  /\ Returns(e, "persist")
  /\ UNCHANGED <<rowVars, turn, role, requestVars>>

\* Mutant: the budget is checked before the new messages are counted.
WithinBudget_Before(e) == messages < MaxMessages

\* The message budget counts what is there and what would be added.
WithinBudget(e) ==
  messages + Cardinality(Routed(role[e], result[e])) <= MaxMessages

\* The transaction of persistRoleTurnResult begins: it counts what is committed.
CountsMessages(e) ==
  /\ pc[e] = "persist" /\ WithinBudget(e)
  /\ pc' = [pc EXCEPT ![e] = "writing"]
  /\ UNCHANGED <<rowVars, attempt, turnVars, requestVars>>

\* Everything a turn leaves behind.
TurnPersisted(e) ==
  LET r == role[e]
      out == result[e]
      sent == Routed(r, out)
      ids == AskedIds(r, out, turn[e])
  IN  /\ messages' = messages + Cardinality(sent)
      /\ approved' = \/ approved
                     \/ SlugOf[r] = "reviewer" /\ \E m \in sent : m.kind = "approval"
      /\ open' = (open \ (IF out.resolves THEN seen[e] ELSE {})) \cup
                 { [execution |-> e, turn |-> turn[e], attempt |-> attempt[e],
                    at |-> m.at, owner |-> Owner(r, m)] :
                   m \in {m \in sent : OpensQuestion(m)} }
      /\ inbox' = [t \in Role |->
                     IF t = r THEN SelfState(r, out)
                     ELSE IF t \in QueuedTargets(r, out, approved') THEN "queued"
                     ELSE inbox[t]]
      /\ dispatched' = dispatched \cup
                       { [id |-> q, execution |-> e, attempt |-> attempt[e]] : q \in ids }
      /\ asker' = [q \in Asked \cup ids |-> IF q \in ids THEN r ELSE asker[q]]

\* The transaction commits, whatever others have committed since it counted.
PersistRoleTurnResult(e) ==
  /\ pc[e] = "writing"
  /\ TurnPersisted(e)
  /\ \/ /\ turn' = [turn EXCEPT ![e] = @ + 1]
        /\ role' = [role EXCEPT ![e] = Nobody]
        /\ seen' = [seen EXCEPT ![e] = {}]
        /\ result' = [result EXCEPT ![e] = NoOutput]
        /\ Returns(e, IF turn[e] + 1 < MaxTurns THEN "claim" ELSE "budgetExceeded")
     \/ AttemptFails(e) /\ UNCHANGED turnVars
  /\ UNCHANGED <<status, answered, requestVars>>

PersistOverBudget(e) ==
  /\ pc[e] = "persist" /\ ~WithinBudget(e)
  /\ AttemptFails(e)
  /\ UNCHANGED <<rowVars, turnVars, requestVars>>

\* Mutant: only blocked inboxes make a run wait.
Recheck_BlockedOnly(e) ==
  /\ pc[e] = "recheck"
  /\ Returns(e, IF \E r \in Role : inbox[r] = "blocked"
                THEN "markWaiting" ELSE "markCompleted")
  /\ UNCHANGED <<rowVars, turnVars, requestVars>>

\* No inbox is queued: getRunProgress decides how the run ends.
Recheck(e) ==
  /\ pc[e] = "recheck"
  /\ Returns(e, IF open # {} \/ \E r \in Role : inbox[r] = "blocked"
                THEN "markWaiting" ELSE "markCompleted")
  /\ UNCHANGED <<rowVars, turnVars, requestVars>>

\* markRunWaiting, markRunCompleted and markRunFailed update the row by id.
MarkRun(e) ==
  /\ \/ pc[e] = "markWaiting" /\ status' = "waiting"
     \/ pc[e] = "markCompleted" /\ status' = "completed"
     \/ pc[e] \in {"budgetExceeded", "markFailed"} /\ status' = "failed"
  /\ Completes(e, "returned")
  /\ UNCHANGED <<inbox, messages, approved, open, dispatched, asker, answered,
                 turnVars, requestVars>>

-------------------------------------------------------------------------------
(* Web requests *)

\* start() calls the engine...
StartDispatches(e) ==
  /\ starting /\ Fresh(e)
  /\ starting' = FALSE
  /\ Returns(e, "initialize")
  /\ UNCHANGED <<rowVars, turnVars, answering, resuming>>

\* ...or does not get there, and nothing else ever starts this run.
StartFails ==
  /\ starting
  /\ starting' = FALSE
  /\ UNCHANGED <<rowVars, engineVars, answering, resuming>>

Pending(q) == q \in Asked /\ \A a \in answered : a[1] # q

\* Mutant: the status of the run is not checked.
AnswerChecks_AnyStatus(o, q) ==
  /\ Pending(q)
  /\ \A a \in answering : a[1] # o
  /\ answering' = answering \cup {<<o, q, asker[q]>>}
  /\ UNCHANGED <<rowVars, engineVars, starting, resuming>>

\* recordOperatorAnswer: run waiting, question dispatched and not answered yet.
AnswerChecks(o, q) ==
  /\ status = "waiting"
  /\ Pending(q)
  /\ \A a \in answering : a[1] # o
  /\ answering' = answering \cup {<<o, q, asker[q]>>}
  /\ UNCHANGED <<rowVars, engineVars, starting, resuming>>

AnswerCommits(a) ==
  /\ a \in answering
  /\ answering' = answering \ {a}
  /\ answered' = answered \cup {<<a[2], a[1]>>}
  /\ messages' = messages + 1
  /\ inbox' = [inbox EXCEPT ![a[3]] = "queued"]
  /\ UNCHANGED <<status, approved, open, dispatched, asker, engineVars,
                 starting, resuming>>

AnswerFails(a) ==
  /\ a \in answering
  /\ answering' = answering \ {a}
  /\ UNCHANGED <<rowVars, engineVars, starting, resuming>>

\* resumeRun: the run was waiting when it was read...
ResumeChecks(o) ==
  /\ resuming[o] = "no" /\ status = "waiting"
  /\ resuming' = [resuming EXCEPT ![o] = "checked"]
  /\ UNCHANGED <<rowVars, engineVars, starting, answering>>

\* ...an execution is started under an id nobody used before, without
\* initializeRunState...
ResumeDispatches(o, e) ==
  /\ resuming[o] = "checked" /\ Fresh(e)
  /\ resuming' = [resuming EXCEPT ![o] = "dispatched"]
  /\ Returns(e, "progress")
  /\ UNCHANGED <<rowVars, turnVars, starting, answering>>

\* ...and then the row is flipped to running, whatever it says by now.
ResumeFlips(o) ==
  /\ resuming[o] = "dispatched"
  /\ resuming' = [resuming EXCEPT ![o] = "no"]
  /\ status' = "running"
  /\ UNCHANGED <<inbox, messages, approved, open, dispatched, asker, answered,
                 engineVars, starting, answering>>

\* The engine refuses, or the web process dies.
ResumeFails(o) ==
  /\ resuming[o] # "no"
  /\ resuming' = [resuming EXCEPT ![o] = "no"]
  /\ UNCHANGED <<rowVars, engineVars, starting, answering>>

-------------------------------------------------------------------------------
ExecutionStep(e) ==
  \/ AttemptLost(e)
  \/ InitializeRunState(e) \/ FirstProgress(e)
  \/ ClaimNextQueuedInbox(e) \/ ClaimFindsNone(e)
  \/ RunTeamTurn(e)
  \/ CountsMessages(e) \/ PersistRoleTurnResult(e) \/ PersistOverBudget(e)
  \/ Recheck(e) \/ MarkRun(e)

Operators ==
  \/ \E o \in Request :
       \/ \E q \in Asked : AnswerChecks(o, q)
       \/ ResumeChecks(o) \/ ResumeFlips(o) \/ ResumeFails(o)
       \/ \E e \in Execution : ResumeDispatches(o, e)
  \/ \E a \in answering : AnswerCommits(a) \/ AnswerFails(a)

Next ==
  \/ StartFails
  \/ \E e \in Execution : StartDispatches(e) \/ ExecutionStep(e)
  \/ Operators

Spec == Init /\ [][Next]_vars

\* The engine keeps scheduling the activities of every open execution.
FairSpec == Spec /\ \A e \in Execution : WF_vars(ExecutionStep(e))

-------------------------------------------------------------------------------
(* What must hold *)

\* "Hard gate" (docs/concepts/agent-team.md): a PR creator that does not start
\* the run is woken only after a reviewer approved in it, through every path
\* that queues an inbox: messages, suggestions, approvals, operators' answers,
\* retries that write a turn again, and overlapping executions.
PrCreatorGated ==
  \A r \in PrCreators \ {InitialRole} : inbox[r] \notin {"none", "idle"} => approved

\* A role blocked on humans has a question of its own that an operator can
\* still answer, and the answer is what queues it again.
BlockedIsAnswerable ==
  \A r \in Role :
    inbox[r] = "blocked" => \E q \in Asked : asker[q] = r /\ Pending(q)

\* A completed run is quiet: no queued inbox, no open question, no blocked
\* inbox (docs/concepts/agent-team.md).
CompletedIsQuiet ==
  status = "completed" =>
    open = {} /\ \A r \in Role : inbox[r] \notin {"queued", "blocked"}

\* What overlap costs the message budget: a turn may be written beside others
\* that counted before it committed, so each execution that was started may add
\* one budget, and retries that write a turn twice add nothing.  A run that was
\* never resumed keeps to the budget itself.  Operators' answers, which nobody
\* counts, come on top, each once.
BudgetHolds ==
  messages <= MaxMessages * Cardinality({e \in Execution : pc[e] # "none"})
                + Cardinality(answered)

\* A wake-up is not lost: a queued inbox changes only by being claimed.
WakeIsNotLost ==
  [][\A r \in Role :
       inbox[r] = "queued" => inbox'[r] \in {"queued", "running"}]_vars

\* Roles cannot hand the turn to each other for ever.
ExecutionEnds ==
  \A e \in Execution : pc[e] # "none" ~> pc[e] \in Ended
===============================================================================
