------------------------- MODULE AgentTeamRun_proofs -------------------------
(***************************************************************************)
(* Proofs about AgentTeamRun, for any team, any set of turn outputs, any   *)
(* number of executions and requests, and any value of the bounds; what a  *)
(* resume may break is proved for one execution (Alone).                   *)
(***************************************************************************)
EXTENDS AgentTeamRun, FiniteSetTheorems, TLAPS

-------------------------------------------------------------------------------
(* What a turn's output amounts to *)

\* Routing keeps finitely many well-formed messages.
LEMMA RoutedType ==
  ASSUME NEW r \in Role, NEW out \in Output
  PROVE  /\ Routed(r, out) \subseteq Message
         /\ IsFiniteSet(Routed(r, out))
<1>. DEFINE blocked == [at   |-> Cardinality(out.messages) + 1,
                        kind |-> "blocked",
                        to   |-> IF SlugOf[r] = "architect" THEN "orchestrator" ELSE Lead]
<1>1. out.messages \subseteq Message /\ IsFiniteSet(out.messages)
  BY OutputAssumption DEF TurnOutput
<1>2. Cardinality(out.messages) \in Nat
  BY <1>1, FS_CardinalityType
<1>3. blocked \in Message
  BY <1>2, LeadAssumption DEF Message, Kind, Target, Address
<1>4. IsFiniteSet(out.messages \cup {blocked})
  BY <1>1, FS_AddElement
<1>5. Normalized(r, out) \in {out.messages, out.messages \cup {blocked}}
  BY DEF Normalized
<1>6. Normalized(r, out) \subseteq Message /\ IsFiniteSet(Normalized(r, out))
  BY <1>1, <1>3, <1>4, <1>5
<1>7. Routed(r, out) \in SUBSET Normalized(r, out)
  BY DEF Routed
<1>. QED BY <1>6, <1>7, FS_Subset

LEMMA AskedIdsType ==
  ASSUME NEW r \in Role, NEW out \in Output, NEW n \in Nat
  PROVE  AskedIds(r, out, n) \subseteq QuestionId
<1>. DEFINE sent == Routed(r, out)
            Index(m) == Cardinality({k \in sent : k.at < m.at})
<1>1. ASSUME NEW m \in sent PROVE <<n, "message", Index(m)>> \in QuestionId
  <2>1. {k \in sent : k.at < m.at} \in SUBSET sent
    OBVIOUS
  <2>2. Index(m) \in Nat
    BY <2>1, RoutedType, FS_Subset, FS_CardinalityType
  <2>. QED BY <2>2 DEF QuestionId
<1>2. ASSUME NEW a \in out.asks PROVE <<n, "resolution", a.at>> \in QuestionId
  BY OutputAssumption DEF TurnOutput, QuestionId
<1>3. \A q \in AskedIds(r, out, n) :
        \/ \E m \in sent : q = <<n, "message", Index(m)>>
        \/ \E a \in out.asks : q = <<n, "resolution", a.at>>
  BY DEF AskedIds
<1>. QED BY <1>1, <1>2, <1>3

LEMMA SelfStateType ==
  ASSUME NEW r \in Role, NEW out \in Output
  PROVE  SelfState(r, out) \in {"idle", "blocked", "done"}
BY DEF SelfState

LEMMA OwnerType ==
  ASSUME NEW r \in Role, NEW m \in Message, m.to # "unknown", OpensQuestion(m)
  PROVE  Owner(r, m) \in Role \cup Address
BY DEF Owner, Message, Target, OpensQuestion

\* A message that passed the routing has a known target.
LEMMA RoutedTarget ==
  ASSUME NEW r \in Role, NEW out \in Output, NEW m \in Routed(r, out)
  PROVE  m.to # "unknown"
BY RoleAssumption DEF Routed

-------------------------------------------------------------------------------
(* Type correctness *)

PcType == TurnActivities \cup LifecycleActivities \cup Ended \cup {"none"}

EngineTypeOK ==
  /\ pc \in [Execution -> PcType]
  /\ attempt \in [Execution -> 1..TurnAttempts]

LEMMA ReturnsType ==
  ASSUME EngineTypeOK, NEW e \in Execution, NEW to \in PcType, Returns(e, to)
  PROVE  EngineTypeOK' /\ pc'[e] = to /\ \A f \in Execution \ {e} : pc'[f] = pc[f]
BY BoundsAssumption DEF Returns, EngineTypeOK

\* A failed attempt is retried, or leads to the catch block or the end.
LEMMA AttemptFailsType ==
  ASSUME EngineTypeOK, NEW e \in Execution, AttemptFails(e)
  PROVE  /\ EngineTypeOK'
         /\ \/ pc'[e] = FromStart(pc[e]) /\ pc[e] \in TurnActivities
            \/ pc'[e] \in {"failed", "markFailed"}
         /\ \A f \in Execution \ {e} : pc'[f] = pc[f]
<1>1. CASE pc[e] \in TurnActivities /\ attempt[e] < TurnAttempts
  <2>1. FromStart(pc[e]) \in PcType
    BY DEF FromStart, EngineTypeOK, PcType, TurnActivities
  <2>. QED BY <1>1, <2>1, BoundsAssumption DEF AttemptFails, EngineTypeOK
<1>2. CASE ~(pc[e] \in TurnActivities /\ attempt[e] < TurnAttempts)
  <2>. DEFINE to == IF pc[e] \in {"initialize", "progress", "markFailed"}
                    THEN "failed" ELSE "markFailed"
  <2>1. to \in PcType /\ to \in {"failed", "markFailed"}
    BY DEF PcType, Ended, LifecycleActivities
  <2>2. Returns(e, to)
    BY <1>2 DEF AttemptFails
  <2>. QED BY <2>1, <2>2, ReturnsType
<1>. QED BY <1>1, <1>2

\* An execution that can still persist a turn has one left.
Loop == {"none", "initialize", "progress", "claim", "turn", "persist", "writing"}
InTurn == {"turn", "persist", "writing"}

\* What the activities of a turn rely on.
TurnDataOK ==
  /\ \A e \in Execution : pc[e] \in Loop => turn[e] < MaxTurns
  /\ turn \in [Execution -> 0..MaxTurns]
  /\ role \in [Execution -> Role \cup {Nobody}]
  /\ \A e \in Execution : pc[e] \in InTurn => role[e] \in Role
  /\ seen \in [Execution -> SUBSET OpenQuestion]
  /\ result \in [Execution -> Output \cup {NoOutput}]
  /\ \A e \in Execution : pc[e] \in {"persist", "writing"} => result[e] \in Output

RowsOK ==
  /\ status \in {"queued", "running", "waiting", "completed", "failed"}
  /\ inbox \in [Role -> {"none", "idle", "queued", "running", "blocked", "done"}]
  /\ messages \in Nat
  /\ approved \in BOOLEAN
  /\ open \subseteq OpenQuestion
  /\ dispatched \subseteq DispatchEvent
  /\ Asked \subseteq QuestionId
  /\ \A q \in Asked : asker[q] \in Role
  /\ answered \subseteq Asked \X Request

RequestsOK ==
  /\ starting \in BOOLEAN
  /\ answering \subseteq Request \X Asked \X Role
  /\ resuming \in [Request -> {"no", "checked", "dispatched"}]

TypeInv == RowsOK /\ EngineTypeOK /\ TurnDataOK /\ RequestsOK

LEMMA TypeInvImpliesTypeOK == TypeInv => TypeOK
BY DEF TypeInv, TypeOK, RowsOK, EngineTypeOK, TurnDataOK, RequestsOK, PcType, InTurn

\* A step that moves the control of one execution out of its turn keeps the
\* turn's data.
LEMMA TurnDataKept ==
  ASSUME TurnDataOK, NEW e \in Execution, UNCHANGED turnVars,
         pc'[e] = FromStart(pc[e]) \/ pc'[e] \notin InTurn,
         pc'[e] \in Loop => pc[e] \in Loop,
         \A f \in Execution \ {e} : pc'[f] = pc[f]
  PROVE  TurnDataOK'
BY DEF TurnDataOK, turnVars, InTurn, FromStart

LEMMA RequestsKept ==
  ASSUME RequestsOK, UNCHANGED requestVars, Asked \subseteq Asked'
  PROVE  RequestsOK'
BY DEF RequestsOK, requestVars

\* Returning from or failing the current activity keeps the engine's types.
LEMMA CompletesType ==
  ASSUME EngineTypeOK, TurnDataOK, NEW e \in Execution, UNCHANGED turnVars,
         NEW to \in PcType \ InTurn, to \in Loop => pc[e] \in Loop,
         Completes(e, to)
  PROVE  EngineTypeOK' /\ TurnDataOK'
<1>1. CASE Returns(e, to)
  BY <1>1, ReturnsType, TurnDataKept
<1>2. CASE AttemptFails(e)
  BY <1>2, AttemptFailsType, TurnDataKept DEF Loop, InTurn, FromStart
<1>. QED BY <1>1, <1>2 DEF Completes

LEMMA RowsUnchanged ==
  ASSUME RowsOK, UNCHANGED rowVars
  PROVE  RowsOK' /\ Asked' = Asked
BY DEF RowsOK, rowVars, Asked

LEMMA TurnPersistedType ==
  ASSUME TypeInv, NEW e \in Execution, pc[e] = "writing", TurnPersisted(e),
         UNCHANGED <<status, answered>>
  PROVE  RowsOK' /\ Asked \subseteq Asked'
<1>. DEFINE r == role[e]
            out == result[e]
            sent == Routed(r, out)
            ids == AskedIds(r, out, turn[e])
<1>1. /\ r \in Role /\ out \in Output
      /\ turn[e] \in Nat /\ attempt[e] \in Nat /\ seen[e] \subseteq OpenQuestion
  BY BoundsAssumption DEF TypeInv, RowsOK, EngineTypeOK, TurnDataOK, InTurn
<1>2. messages' \in Nat
  BY <1>1, RoutedType, FS_CardinalityType DEF TurnPersisted, TypeInv, RowsOK
<1>3. approved' \in BOOLEAN
  BY DEF TurnPersisted, TypeInv, RowsOK
<1>4. open' \subseteq OpenQuestion
  <2>1. ASSUME NEW m \in sent, OpensQuestion(m)
        PROVE  [execution |-> e, turn |-> turn[e], attempt |-> attempt[e],
                at |-> m.at, owner |-> Owner(r, m)] \in OpenQuestion
    <3>1. m \in Message /\ m.at \in Nat
      BY <1>1, RoutedType DEF Message
    <3>2. Owner(r, m) \in Role \cup Address
      BY <1>1, <2>1, <3>1, RoutedTarget, OwnerType
    <3>. QED BY <1>1, <3>1, <3>2 DEF OpenQuestion
  <2>2. \A q \in open' : q \in open \/ \E m \in {m \in sent : OpensQuestion(m)} :
          q = [execution |-> e, turn |-> turn[e], attempt |-> attempt[e],
               at |-> m.at, owner |-> Owner(r, m)]
    BY DEF TurnPersisted
  <2>. QED BY <2>1, <2>2 DEF TypeInv, RowsOK, EngineTypeOK, TurnDataOK
<1>5. inbox' \in [Role -> {"none", "idle", "queued", "running", "blocked", "done"}]
  <2>1. \A t \in Role : inbox[t] \in {"none", "idle", "queued", "running", "blocked", "done"}
    BY DEF TypeInv, RowsOK, EngineTypeOK, TurnDataOK
  <2>2. SelfState(r, out) \in {"idle", "blocked", "done"}
    BY <1>1, SelfStateType
  <2>3. inbox' = [t \in Role |->
                    IF t = r THEN SelfState(r, out)
                    ELSE IF t \in QueuedTargets(r, out, approved') THEN "queued"
                    ELSE inbox[t]]
    BY DEF TurnPersisted
  <2>. QED BY <2>1, <2>2, <2>3
<1>6. ids \subseteq QuestionId
  BY <1>1, AskedIdsType
<1>7. dispatched' \subseteq DispatchEvent
  BY <1>1, <1>6 DEF TurnPersisted, TypeInv, RowsOK, DispatchEvent
<1>8. asker' = [q \in Asked \cup ids |-> IF q \in ids THEN r ELSE asker[q]]
  BY DEF TurnPersisted
<1>9. Asked' = Asked \cup ids
  BY <1>8 DEF Asked
<1>10. Asked' \subseteq QuestionId /\ \A q \in Asked' : asker'[q] \in Role
  BY <1>1, <1>6, <1>8, <1>9 DEF TypeInv, RowsOK, EngineTypeOK, TurnDataOK
<1>11. status' = status /\ answered' = answered /\ answered \subseteq Asked' \X Request
  BY <1>9 DEF TypeInv, RowsOK, EngineTypeOK, TurnDataOK
<1>. QED BY <1>2, <1>3, <1>4, <1>5, <1>7, <1>9, <1>10, <1>11 DEF RowsOK, TypeInv

LEMMA ExecutionStepType ==
  ASSUME TypeInv, NEW e \in Execution, ExecutionStep(e)
  PROVE  TypeInv'
<1>. USE DEF TypeInv, Loop, InTurn, FromStart
<1>1. CASE AttemptLost(e)
  BY <1>1, AttemptFailsType, TurnDataKept, RowsUnchanged, RequestsKept DEF AttemptLost
<1>2. CASE InitializeRunState(e)
  <2>1. RowsOK' /\ Asked' = Asked
    BY <1>2 DEF InitializeRunState, RowsOK, Asked
  <2>2. EngineTypeOK' /\ TurnDataOK'
    BY <1>2, CompletesType DEF InitializeRunState, PcType, LifecycleActivities
  <2>. QED BY <1>2, <2>1, <2>2, RequestsKept DEF InitializeRunState
<1>3. CASE FirstProgress(e)
  BY <1>3, ReturnsType, TurnDataKept, RowsUnchanged, RequestsKept
     DEF FirstProgress, PcType, TurnActivities
<1>4. CASE ClaimNextQueuedInbox(e)
  <2>1. RowsOK' /\ Asked' = Asked
    BY <1>4 DEF ClaimNextQueuedInbox, RowsOK, Asked
  <2>2. PICK r \in Role : \/ Returns(e, "turn") /\ role' = [role EXCEPT ![e] = r]
                          \/ AttemptFails(e) /\ UNCHANGED role
    BY <1>4 DEF ClaimNextQueuedInbox
  <2>3. pc[e] = "claim" /\ UNCHANGED <<turn, seen, result, requestVars>>
    BY <1>4 DEF ClaimNextQueuedInbox
  <2>4. CASE Returns(e, "turn") /\ role' = [role EXCEPT ![e] = r]
    <3>1. /\ EngineTypeOK' /\ pc'[e] = "turn"
          /\ \A f \in Execution \ {e} : pc'[f] = pc[f]
      BY <2>4, ReturnsType DEF PcType, TurnActivities
    <3>2. TurnDataOK'
      BY <2>3, <2>4, <3>1 DEF TurnDataOK
    <3>. QED BY <2>1, <2>3, <3>1, <3>2, RequestsKept
  <2>5. CASE AttemptFails(e) /\ UNCHANGED role
    BY <2>1, <2>3, <2>5, AttemptFailsType, TurnDataKept, RequestsKept DEF turnVars
  <2>. QED BY <2>2, <2>4, <2>5
<1>5. CASE ClaimFindsNone(e)
  BY <1>5, ReturnsType, TurnDataKept, RowsUnchanged, RequestsKept
     DEF ClaimFindsNone, PcType, LifecycleActivities
<1>6. CASE RunTeamTurn(e)
  <2>1. RowsOK' /\ Asked' = Asked /\ UNCHANGED <<turn, role, requestVars>>
    BY <1>6, RowsUnchanged DEF RunTeamTurn
  <2>2. /\ EngineTypeOK' /\ pc'[e] = "persist"
        /\ \A f \in Execution \ {e} : pc'[f] = pc[f]
    BY <1>6, ReturnsType DEF RunTeamTurn, PcType, TurnActivities
  <2>3. TurnDataOK'
    <3>1. {q \in open : q.owner = role[e]} \subseteq OpenQuestion
      BY DEF RowsOK
    <3>2. PICK out \in Output : result' = [result EXCEPT ![e] = out]
      BY <1>6 DEF RunTeamTurn
    <3>3. seen' = [seen EXCEPT ![e] = {q \in open : q.owner = role[e]}]
      BY <1>6 DEF RunTeamTurn
    <3>4. role[e] \in Role /\ turn[e] < MaxTurns
      BY <1>6 DEF RunTeamTurn, TurnDataOK
    <3>. QED BY <2>1, <2>2, <3>1, <3>2, <3>3, <3>4 DEF TurnDataOK
  <2>. QED BY <2>1, <2>2, <2>3, RequestsKept
<1>7. CASE PersistRoleTurnResult(e)
  <2>1. RowsOK' /\ Asked \subseteq Asked'
    BY <1>7, TurnPersistedType DEF PersistRoleTurnResult
  <2>2. RequestsOK'
    BY <1>7, <2>1, RequestsKept DEF PersistRoleTurnResult
  <2>3. CASE /\ turn' = [turn EXCEPT ![e] = @ + 1]
             /\ role' = [role EXCEPT ![e] = Nobody]
             /\ seen' = [seen EXCEPT ![e] = {}]
             /\ result' = [result EXCEPT ![e] = NoOutput]
             /\ Returns(e, IF turn[e] + 1 < MaxTurns THEN "claim" ELSE "budgetExceeded")
    <3>. DEFINE to == IF turn[e] + 1 < MaxTurns THEN "claim" ELSE "budgetExceeded"
    <3>1. to \in PcType \ InTurn
      BY DEF PcType, TurnActivities, LifecycleActivities
    <3>2. /\ EngineTypeOK' /\ pc'[e] \notin InTurn
          /\ \A f \in Execution \ {e} : pc'[f] = pc[f]
      BY <2>3, <3>1, ReturnsType
    <3>3. turn[e] < MaxTurns /\ turn[e] \in Nat
      BY <1>7, BoundsAssumption DEF PersistRoleTurnResult, TurnDataOK
    <3>4. turn[e] + 1 <= MaxTurns /\ (pc'[e] \in Loop => turn[e] + 1 < MaxTurns)
      BY <2>3, <3>1, <3>3, ReturnsType, BoundsAssumption DEF Returns, EngineTypeOK
    <3>. QED BY <2>1, <2>2, <2>3, <3>2, <3>3, <3>4, BoundsAssumption DEF TurnDataOK
  <2>4. CASE AttemptFails(e) /\ UNCHANGED turnVars
    BY <2>1, <2>2, <2>4, AttemptFailsType, TurnDataKept
  <2>. QED BY <1>7, <2>3, <2>4 DEF PersistRoleTurnResult
<1>8. CASE PersistOverBudget(e)
  BY <1>8, AttemptFailsType, TurnDataKept, RowsUnchanged, RequestsKept DEF PersistOverBudget
<1>9. CASE Recheck(e)
  BY <1>9, ReturnsType, TurnDataKept, RowsUnchanged, RequestsKept
     DEF Recheck, PcType, LifecycleActivities
<1>10. CASE MarkRun(e)
  <2>1. RowsOK' /\ Asked' = Asked
    BY <1>10 DEF MarkRun, RowsOK, Asked
  <2>2. EngineTypeOK' /\ TurnDataOK'
    BY <1>10, CompletesType DEF MarkRun, PcType, Ended
  <2>. QED BY <1>10, <2>1, <2>2, RequestsKept DEF MarkRun
<1>11. CASE CountsMessages(e)
  <2>1. RowsOK' /\ Asked' = Asked /\ UNCHANGED <<turnVars, requestVars>>
    BY <1>11, RowsUnchanged DEF CountsMessages
  <2>2. EngineTypeOK' /\ TurnDataOK'
    BY <1>11 DEF CountsMessages, EngineTypeOK, TurnDataOK, PcType, TurnActivities, turnVars
  <2>. QED BY <2>1, <2>2, RequestsKept
<1>. QED BY <1>1, <1>2, <1>3, <1>4, <1>5, <1>6, <1>7, <1>8, <1>9, <1>10, <1>11
        DEF ExecutionStep

LEMMA WebStepType ==
  ASSUME TypeInv,
         \/ StartFails
         \/ \E e \in Execution : StartDispatches(e)
         \/ Operators
  PROVE  TypeInv'
<1>. USE DEF TypeInv, Loop, InTurn, FromStart
<1>1. CASE StartFails
  BY <1>1, RowsUnchanged
     DEF StartFails, engineVars, RequestsOK, EngineTypeOK, TurnDataOK, Asked
<1>2. ASSUME NEW e \in Execution, StartDispatches(e) PROVE TypeInv'
  <2>1. EngineTypeOK' /\ TurnDataOK'
    BY <1>2, ReturnsType, TurnDataKept
       DEF StartDispatches, Fresh, PcType, LifecycleActivities
  <2>2. RowsOK' /\ Asked' = Asked
    BY <1>2, RowsUnchanged DEF StartDispatches
  <2>. QED BY <1>2, <2>1, <2>2 DEF StartDispatches, RequestsOK
<1>3. ASSUME NEW o \in Request, NEW q \in Asked, AnswerChecks(o, q) PROVE TypeInv'
  <2>1. RowsOK' /\ Asked' = Asked
    BY <1>3, RowsUnchanged DEF AnswerChecks
  <2>2. <<o, q, asker[q]>> \in Request \X Asked \X Role
    BY DEF RowsOK
  <2>. QED BY <1>3, <2>1, <2>2
           DEF AnswerChecks, engineVars, RequestsOK, EngineTypeOK, TurnDataOK
<1>4. ASSUME NEW o \in Request,
             ResumeChecks(o) \/ ResumeFlips(o) \/ ResumeFails(o)
      PROVE  TypeInv'
  BY <1>4 DEF ResumeChecks, ResumeFlips, ResumeFails, rowVars, engineVars,
              RowsOK, RequestsOK, EngineTypeOK, TurnDataOK, Asked
<1>5. ASSUME NEW o \in Request, NEW e \in Execution, ResumeDispatches(o, e)
      PROVE  TypeInv'
  <2>1. EngineTypeOK' /\ TurnDataOK'
    BY <1>5, ReturnsType, TurnDataKept
       DEF ResumeDispatches, Fresh, PcType, LifecycleActivities
  <2>2. RowsOK' /\ Asked' = Asked
    BY <1>5, RowsUnchanged DEF ResumeDispatches
  <2>. QED BY <1>5, <2>1, <2>2 DEF ResumeDispatches, RequestsOK
<1>6. ASSUME NEW a \in answering, AnswerCommits(a) \/ AnswerFails(a) PROVE TypeInv'
  <2>1. a[1] \in Request /\ a[2] \in Asked /\ a[3] \in Role
    BY DEF RequestsOK
  <2>2. Asked' = Asked
    BY <1>6 DEF AnswerCommits, AnswerFails, rowVars, Asked
  <2>3. RowsOK'
    BY <1>6, <2>1, <2>2 DEF AnswerCommits, AnswerFails, rowVars, RowsOK
  <2>. QED BY <1>6, <2>2, <2>3
           DEF AnswerCommits, AnswerFails, engineVars, RequestsOK, EngineTypeOK, TurnDataOK
<1>. QED BY <1>1, <1>2, <1>3, <1>4, <1>5, <1>6 DEF Operators

LEMMA InitType == Init => TypeInv
<1>. SUFFICES ASSUME Init PROVE TypeInv
  OBVIOUS
<1>1. Asked = {}
  BY DEF Init, Asked
<1>2. RowsOK /\ RequestsOK
  BY <1>1 DEF Init, RowsOK, RequestsOK
<1>3. EngineTypeOK
  BY BoundsAssumption DEF Init, EngineTypeOK, PcType
<1>4. TurnDataOK
  BY BoundsAssumption DEF Init, TurnDataOK, Loop, InTurn
<1>. QED BY <1>2, <1>3, <1>4 DEF TypeInv

LEMMA StutterType == TypeInv /\ UNCHANGED vars => TypeInv'
BY DEF vars, TypeInv, RowsOK, EngineTypeOK, TurnDataOK, RequestsOK, Asked

LEMMA TypeInvariance == Spec => []TypeInv
<1>1. TypeInv /\ [Next]_vars => TypeInv'
  BY ExecutionStepType, WebStepType, StutterType DEF Next
<1>. QED BY <1>1, InitType, PTL DEF Spec

\* Rows, control state, counters and the requests in progress keep their types,
\* for every team, every set of turn outputs and every number of executions.
THEOREM TypeCorrectness == Spec => []TypeOK
BY TypeInvariance, TypeInvImpliesTypeOK, PTL

-------------------------------------------------------------------------------
(* The gate before the PR creator.  A role acts in four ways: it holds an       *)
(* inbox, it has the turn, it has asked, and an answer is on its way to it.     *)

Gated == PrCreators \ {InitialRole}

Absent(r) ==
  /\ inbox[r] \in {"none", "idle"}
  /\ \A e \in Execution : role[e] # r
  /\ \A q \in Asked : asker[q] # r
  /\ \A a \in answering : a[3] # r

GateInv == TypeInv /\ (~approved => \A r \in Gated : Absent(r))

\* A turn of another role does not bring a PR creator in before the approval.
LEMMA PersistKeepsGate ==
  ASSUME GateInv, NEW e \in Execution, PersistRoleTurnResult(e), ~approved',
         NEW t \in Gated
  PROVE  Absent(t)'
<1>. DEFINE r == role[e]
            out == result[e]
            ids == AskedIds(r, out, turn[e])
<1>1. ~approved /\ Absent(t) /\ t \in Role /\ r \in Role /\ r # t
  BY DEF PersistRoleTurnResult, TurnPersisted, GateInv, Absent, Gated, PrCreators,
         TypeInv, RowsOK, TurnDataOK, InTurn
<1>2. t \notin QueuedTargets(r, out, approved')
  BY DEF QueuedTargets, Gated
<1>3. inbox'[t] = inbox[t]
  BY <1>1, <1>2 DEF PersistRoleTurnResult, TurnPersisted
<1>4. \A f \in Execution : role'[f] # t
  <2>1. role' = [role EXCEPT ![e] = Nobody] \/ role' = role
    BY DEF PersistRoleTurnResult, turnVars
  <2>2. role \in [Execution -> Role \cup {Nobody}] /\ Nobody # t
    BY <1>1, RoleAssumption DEF GateInv, TypeInv, TurnDataOK
  <2>. QED BY <1>1, <2>1, <2>2 DEF Absent
<1>5. asker' = [q \in Asked \cup ids |-> IF q \in ids THEN r ELSE asker[q]]
  BY DEF PersistRoleTurnResult, TurnPersisted
<1>6. \A q \in Asked' : asker'[q] # t
  BY <1>1, <1>5 DEF Absent, Asked
<1>7. answering' = answering
  BY DEF PersistRoleTurnResult, requestVars
<1>. QED BY <1>1, <1>3, <1>4, <1>6, <1>7 DEF Absent

LEMMA ExecutionKeepsGate ==
  ASSUME GateInv, NEW e \in Execution, ExecutionStep(e), ~approved',
         NEW t \in Gated
  PROVE  Absent(t)'
<1>. USE DEF GateInv, Absent
<1>1. CASE \/ AttemptLost(e) \/ FirstProgress(e) \/ ClaimFindsNone(e)
           \/ RunTeamTurn(e) \/ CountsMessages(e) \/ PersistOverBudget(e) \/ Recheck(e)
  BY <1>1 DEF AttemptLost, FirstProgress, ClaimFindsNone, RunTeamTurn, CountsMessages,
              PersistOverBudget, Recheck, rowVars, turnVars, requestVars, Asked
<1>2. CASE InitializeRunState(e)
  <2>1. t \in Role /\ t # InitialRole
    BY DEF Gated, PrCreators
  <2>2. inbox'[t] \in {"none", "idle"}
    BY <1>2, <2>1 DEF InitializeRunState
  <2>. QED BY <1>2, <2>2 DEF InitializeRunState, turnVars, requestVars, Asked
<1>3. CASE ClaimNextQueuedInbox(e)
  <2>1. PICK r \in Role : /\ inbox[r] = "queued"
                          /\ inbox' = [inbox EXCEPT ![r] = "running"]
                          /\ role' = [role EXCEPT ![e] = r] \/ UNCHANGED role
    BY <1>3 DEF ClaimNextQueuedInbox
  <2>2. UNCHANGED <<approved, asker, answering>>
    BY <1>3 DEF ClaimNextQueuedInbox, requestVars
  <2>3. r # t
    BY <2>1, <2>2
  <2>. QED BY <2>1, <2>2, <2>3 DEF Asked, TypeInv, RowsOK, TurnDataOK
<1>4. CASE PersistRoleTurnResult(e)
  BY <1>4, PersistKeepsGate
<1>5. CASE MarkRun(e)
  BY <1>5 DEF MarkRun, turnVars, requestVars, Asked
<1>. QED BY <1>1, <1>2, <1>3, <1>4, <1>5 DEF ExecutionStep

LEMMA WebKeepsGate ==
  ASSUME GateInv, NEW t \in Gated, ~approved',
         \/ StartFails
         \/ \E e \in Execution : StartDispatches(e)
         \/ Operators
  PROVE  Absent(t)'
<1>. USE DEF GateInv, Absent
<1>1. CASE StartFails \/ \E e \in Execution : StartDispatches(e)
  BY <1>1 DEF StartFails, StartDispatches, rowVars, engineVars, turnVars, Asked
<1>2. ASSUME NEW o \in Request, NEW q \in Asked, AnswerChecks(o, q) PROVE Absent(t)'
  BY <1>2 DEF AnswerChecks, rowVars, engineVars, Asked
<1>3. ASSUME NEW o \in Request,
             \/ ResumeChecks(o) \/ ResumeFlips(o) \/ ResumeFails(o)
             \/ \E e \in Execution : ResumeDispatches(o, e)
      PROVE  Absent(t)'
  BY <1>3 DEF ResumeChecks, ResumeFlips, ResumeFails, ResumeDispatches,
              rowVars, engineVars, turnVars, Asked
<1>4. ASSUME NEW a \in answering, AnswerCommits(a) \/ AnswerFails(a) PROVE Absent(t)'
  <2>1. approved' = approved /\ asker' = asker /\ role' = role /\ answering' \subseteq answering
    BY <1>4 DEF AnswerCommits, AnswerFails, rowVars, engineVars
  <2>2. inbox'[t] = inbox[t]
    BY <1>4 DEF AnswerCommits, AnswerFails, rowVars, TypeInv, RowsOK, Gated, PrCreators
  <2>. QED BY <2>1, <2>2 DEF Asked
<1>. QED BY <1>1, <1>2, <1>3, <1>4 DEF Operators

LEMMA InitGate == Init => GateInv
<1>. SUFFICES ASSUME Init PROVE GateInv
  OBVIOUS
<1>1. \A r \in Gated : Absent(r)
  BY RoleAssumption DEF Init, Absent, Gated, PrCreators, Asked
<1>. QED BY <1>1, InitType DEF GateInv

\* Whatever the agents say and however often a turn is written: a PR creator
\* that does not start the run stays out until a reviewer has approved.
THEOREM GateHolds == Spec => []PrCreatorGated
<1>1. GateInv /\ [Next]_vars => GateInv'
  <2>. SUFFICES ASSUME GateInv, [Next]_vars PROVE GateInv'
    OBVIOUS
  <2>1. TypeInv'
    BY ExecutionStepType, WebStepType, StutterType DEF Next, GateInv
  <2>2. ASSUME ~approved', NEW t \in Gated PROVE Absent(t)'
    <3>1. CASE Next
      BY <2>2, <3>1, ExecutionKeepsGate, WebKeepsGate DEF Next
    <3>2. CASE UNCHANGED vars
      BY <2>2, <3>2 DEF vars, GateInv, Absent, Asked
    <3>. QED BY <3>1, <3>2
  <2>. QED BY <2>1, <2>2 DEF GateInv
<1>2. GateInv => PrCreatorGated
  BY DEF GateInv, PrCreatorGated, Absent, Gated
<1>. QED BY <1>1, <1>2, InitGate, PTL DEF Spec

-------------------------------------------------------------------------------
(* The message budget.  What may still be added rests on how many executions    *)
(* are not between their count and their commit: each of them has a budget to   *)
(* give, and of those that are, the last to count had room for its own turn.    *)
(* An answer counts once: its request is the only one of its kind, and the      *)
(* event it will insert is not there yet.                                       *)

\* Executions that have been started and are not writing a counted turn.
Free == {e \in Execution : pc[e] \notin {"none", "writing"}}

Size(e) == Cardinality(Routed(role[e], result[e]))

\* A writing execution whose turn still fits.
Fits(e) ==
  /\ pc[e] = "writing"
  /\ messages + Size(e) <= MaxMessages * (Cardinality(Free) + 1) + Cardinality(answered)

HasRoom ==
  \/ messages <= MaxMessages * Cardinality(Free) + Cardinality(answered)
  \/ \E e \in Execution : Fits(e)

BudgetInv ==
  /\ TypeInv
  /\ IsFiniteSet(answered)
  /\ HasRoom
  /\ \A e \in Execution : pc[e] = "writing" => Size(e) <= MaxMessages
  /\ \A a \in answering : <<a[2], a[1]>> \notin answered
  /\ \A a, b \in answering : a[1] = b[1] => a = b

LEMMA OneBudgetMore ==
  ASSUME NEW n \in Nat
  PROVE  /\ MaxMessages * n \in Nat
         /\ MaxMessages * (n + 1) = MaxMessages * n + MaxMessages
BY BoundsAssumption

\* What is counted is a number.
LEMMA BudgetTerms ==
  ASSUME BudgetInv
  PROVE  /\ IsFiniteSet(Free) /\ Cardinality(Free) \in Nat
         /\ Cardinality(answered) \in Nat /\ messages \in Nat
         /\ \A e \in Execution : pc[e] = "writing" => Size(e) \in Nat
<1>1. Free \in SUBSET (1..MaxExecutions) /\ IsFiniteSet(1..MaxExecutions)
  BY FS_Interval, BoundsAssumption DEF Free, Execution
<1>2. IsFiniteSet(Free) /\ Cardinality(Free) \in Nat
  BY <1>1, FS_Subset, FS_CardinalityType
<1>3. Cardinality(answered) \in Nat /\ messages \in Nat
  BY FS_CardinalityType DEF BudgetInv, TypeInv, RowsOK
<1>4. ASSUME NEW e \in Execution, pc[e] = "writing" PROVE Size(e) \in Nat
  <2>1. role[e] \in Role /\ result[e] \in Output
    BY <1>4 DEF BudgetInv, TypeInv, TurnDataOK, InTurn
  <2>. QED BY <2>1, RoutedType, FS_CardinalityType DEF Size
<1>. QED BY <1>2, <1>3, <1>4

\* Nothing is added, and nobody starts or stops writing.
LEMMA BudgetUnchanged ==
  ASSUME BudgetInv, UNCHANGED <<messages, answered>>, answering' \subseteq answering, TypeInv',
         Free' = Free,
         \A e \in Execution : pc'[e] = "writing" <=> pc[e] = "writing",
         \A e \in Execution : pc[e] = "writing" => role'[e] = role[e] /\ result'[e] = result[e]
  PROVE  BudgetInv'
<1>1. \A e \in Execution : pc[e] = "writing" => Size(e)' = Size(e)
  BY DEF Size
<1>2. HasRoom'
  BY <1>1 DEF BudgetInv, HasRoom, Fits
<1>. QED BY <1>1, <1>2 DEF BudgetInv

\* The other executions, from one execution's step.
OthersKept(e) ==
  \A f \in Execution \ {e} :
    pc'[f] = pc[f] /\ role'[f] = role[f] /\ result'[f] = result[f]

\* An execution becomes free: it starts, or it stops writing.  It may have added
\* the turn it had counted.
LEMMA BecomesFree ==
  ASSUME BudgetInv, NEW e \in Execution, OthersKept(e), TypeInv',
         pc[e] \in {"none", "writing"}, pc'[e] \notin {"none", "writing"},
         UNCHANGED <<answered, answering>>,
         \/ messages' = messages
         \/ pc[e] = "writing" /\ messages' = messages + Size(e)
  PROVE  BudgetInv'
<1>. DEFINE n == Cardinality(Free)
<1>1. Free' = Free \cup {e} /\ e \notin Free
  BY DEF Free, OthersKept
<1>2. Cardinality(Free)' = n + 1
  BY <1>1, BudgetTerms, FS_AddElement
<1>3. \A f \in Execution : pc'[f] = "writing" => pc[f] = "writing" /\ f # e /\ Size(f)' = Size(f)
  BY DEF OthersKept, Size
<1>4. \A f \in Execution : pc[f] = "writing" /\ f # e => pc'[f] = "writing" /\ Size(f)' = Size(f)
  BY DEF OthersKept, Size
<1>5. pc[e] = "writing" => Size(e) \in Nat /\ Size(e) <= MaxMessages
  BY BudgetTerms DEF BudgetInv
<1>6. messages' \in Nat /\ messages \in Nat /\ n \in Nat /\ Cardinality(answered) \in Nat
  BY BudgetTerms DEF TypeInv, RowsOK
<1>7. /\ MaxMessages * n \in Nat /\ MaxMessages * (n + 1) = MaxMessages * n + MaxMessages
      /\ MaxMessages * ((n + 1) + 1) = MaxMessages * (n + 1) + MaxMessages
  <2>. n + 1 \in Nat
    BY <1>6
  <2>. QED BY <1>6, OneBudgetMore
<1>8. HasRoom'
  <2>1. CASE messages <= MaxMessages * n + Cardinality(answered)
    <3>1. messages' <= MaxMessages * (n + 1) + Cardinality(answered)
      BY <2>1, <1>5, <1>6, <1>7, BoundsAssumption
    <3>. QED BY <3>1, <1>2 DEF HasRoom
  <2>2. CASE Fits(e)
    <3>1. messages' <= MaxMessages * (n + 1) + Cardinality(answered)
      BY <2>2, <1>5, <1>6, <1>7, BoundsAssumption DEF Fits
    <3>. QED BY <3>1, <1>2 DEF HasRoom
  <2>3. ASSUME NEW f \in Execution \ {e}, Fits(f) PROVE HasRoom'
    <3>1. pc[f] = "writing" /\ Size(f) \in Nat
          /\ messages + Size(f) <= MaxMessages * (n + 1) + Cardinality(answered)
      BY <2>3, BudgetTerms DEF Fits
    <3>2. messages' + Size(f) <= MaxMessages * ((n + 1) + 1) + Cardinality(answered)
      BY <3>1, <1>5, <1>6, <1>7, BoundsAssumption
    <3>3. Fits(f)'
      BY <3>1, <3>2, <1>2, <1>4 DEF Fits
    <3>. QED BY <3>3 DEF HasRoom
  <2>. QED BY <2>1, <2>2, <2>3 DEF BudgetInv, HasRoom
<1>. QED BY <1>3, <1>8 DEF BudgetInv

\* The last to count has room for its turn, whatever the others have counted.
LEMMA CountKeepsBudget ==
  ASSUME BudgetInv, NEW e \in Execution, CountsMessages(e), TypeInv'
  PROVE  BudgetInv'
<1>1. /\ pc[e] = "persist" /\ pc' = [pc EXCEPT ![e] = "writing"]
      /\ UNCHANGED <<messages, answered, answering, role, result>>
      /\ messages + Size(e) <= MaxMessages
  BY DEF CountsMessages, WithinBudget, Size, rowVars, turnVars, requestVars
<1>2. pc'[e] = "writing" /\ \A f \in Execution \ {e} : pc'[f] = pc[f]
  BY <1>1 DEF BudgetInv, TypeInv, EngineTypeOK
<1>3. \A f \in Execution : Size(f)' = Size(f)
  BY <1>1 DEF Size
<1>4. Free = Free' \cup {e} /\ e \notin Free'
  BY <1>1, <1>2 DEF Free
<1>5. IsFiniteSet(Free') /\ Cardinality(Free') \in Nat
  <2>1. Free' \in SUBSET Free
    BY <1>4
  <2>. QED BY <2>1, BudgetTerms, FS_Subset, FS_CardinalityType
<1>6. Size(e) \in Nat /\ messages \in Nat /\ Cardinality(answered) \in Nat
  <2>1. role[e] \in Role /\ result[e] \in Output
    BY <1>1 DEF BudgetInv, TypeInv, TurnDataOK, InTurn
  <2>. QED BY <2>1, BudgetTerms, RoutedType, FS_CardinalityType DEF Size
<1>7. messages + Size(e) <= MaxMessages * (Cardinality(Free') + 1) + Cardinality(answered)
  BY <1>1, <1>5, <1>6, OneBudgetMore, BoundsAssumption
<1>8. Fits(e)'
  BY <1>1, <1>2, <1>3, <1>7 DEF Fits
<1>9. Size(e) <= MaxMessages
  BY <1>1, <1>6, BoundsAssumption
<1>. QED BY <1>1, <1>2, <1>3, <1>8, <1>9 DEF BudgetInv, HasRoom

LEMMA ExecutionKeepsBudget ==
  ASSUME BudgetInv, NEW e \in Execution, ExecutionStep(e), TypeInv'
  PROVE  BudgetInv'
<1>1. EngineTypeOK /\ TurnDataOK
  BY DEF BudgetInv, TypeInv
<1>2. CASE CountsMessages(e)
  BY <1>2, CountKeepsBudget
<1>3. CASE PersistRoleTurnResult(e)
  <2>1. /\ pc[e] = "writing" /\ messages' = messages + Size(e)
        /\ UNCHANGED <<answered, answering>>
    BY <1>3 DEF PersistRoleTurnResult, TurnPersisted, requestVars, Size
  <2>2. pc'[e] \notin {"none", "writing"} /\ \A f \in Execution \ {e} : pc'[f] = pc[f]
    BY <1>1, <1>3, <2>1, AttemptFailsType
       DEF PersistRoleTurnResult, Returns, EngineTypeOK, FromStart
  <2>3. \A f \in Execution \ {e} : role'[f] = role[f] /\ result'[f] = result[f]
    BY <1>1, <1>3 DEF PersistRoleTurnResult, TurnDataOK, turnVars
  <2>. QED BY <2>1, <2>2, <2>3, BecomesFree DEF OthersKept
<1>4. CASE AttemptLost(e)
  <2>1. UNCHANGED <<messages, answered, answering, role, result>> /\ pc[e] # "none"
    BY <1>4 DEF AttemptLost, Live, rowVars, turnVars, requestVars
  <2>2. pc'[e] \notin {"none", "writing"} /\ \A f \in Execution \ {e} : pc'[f] = pc[f]
    BY <1>1, <1>4, AttemptFailsType DEF AttemptLost, FromStart, TurnActivities
  <2>3. CASE pc[e] = "writing"
    BY <2>1, <2>2, <2>3, BecomesFree DEF OthersKept
  <2>4. CASE pc[e] # "writing"
    <3>1. Free' = Free
      BY <2>1, <2>2, <2>4 DEF Free
    <3>. QED BY <2>1, <2>2, <2>4, <3>1, BudgetUnchanged
  <2>. QED BY <2>3, <2>4
<1>5. ASSUME ~CountsMessages(e), ~PersistRoleTurnResult(e), ~AttemptLost(e)
      PROVE  BudgetInv'
  <2>1. UNCHANGED <<messages, answered, answering>>
    BY <1>5 DEF ExecutionStep, InitializeRunState, FirstProgress,
                ClaimNextQueuedInbox, ClaimFindsNone, RunTeamTurn, PersistOverBudget,
                Recheck, MarkRun, rowVars, requestVars
  <2>2. pc[e] \notin {"none", "writing"}
    BY <1>5 DEF ExecutionStep, InitializeRunState, FirstProgress,
                ClaimNextQueuedInbox, ClaimFindsNone, RunTeamTurn, PersistOverBudget,
                Recheck, MarkRun
  <2>3. \/ AttemptFails(e)
        \/ \E to \in PcType \ {"none", "writing"} : Returns(e, to)
    BY <1>5 DEF ExecutionStep, InitializeRunState, FirstProgress,
                ClaimNextQueuedInbox, ClaimFindsNone, RunTeamTurn, PersistOverBudget,
                Recheck, MarkRun, Completes, PcType, TurnActivities,
                LifecycleActivities, Ended
  <2>4. pc'[e] \notin {"none", "writing"} /\ \A f \in Execution \ {e} : pc'[f] = pc[f]
    BY <1>1, <2>3, AttemptFailsType, ReturnsType DEF FromStart, TurnActivities
  <2>5. \A f \in Execution \ {e} : role'[f] = role[f] /\ result'[f] = result[f]
    BY <1>1, <1>5 DEF ExecutionStep, InitializeRunState, FirstProgress,
                ClaimNextQueuedInbox, ClaimFindsNone, RunTeamTurn, PersistOverBudget,
                Recheck, MarkRun, turnVars, TurnDataOK
  <2>6. Free' = Free
    BY <2>2, <2>4 DEF Free
  <2>. QED BY <2>1, <2>2, <2>4, <2>5, <2>6, BudgetUnchanged
<1>. QED BY <1>2, <1>3, <1>4, <1>5

LEMMA RoomUnchanged ==
  ASSUME HasRoom, UNCHANGED <<messages, answered, pc, role, result>>
  PROVE  HasRoom' /\ \A e \in Execution : Size(e)' = Size(e)
<1>1. Free' = Free /\ \A e \in Execution : Size(e)' = Size(e)
  BY DEF Free, Size
<1>. QED BY <1>1 DEF HasRoom, Fits

\* A request that neither starts an execution nor answers.
LEMMA RequestKeepsBudget ==
  ASSUME BudgetInv, TypeInv', UNCHANGED <<messages, answered, pc, role, result>>,
         answering' \subseteq answering
  PROVE  BudgetInv'
<1>1. Free' = Free
  BY DEF Free
<1>. QED BY <1>1, BudgetUnchanged

\* An execution that starts brings a budget.
LEMMA StartKeepsBudget ==
  ASSUME BudgetInv, TypeInv', NEW e \in Execution, pc[e] = "none",
         NEW to \in {"initialize", "progress"}, Returns(e, to),
         UNCHANGED <<messages, answered, answering, role, result>>
  PROVE  BudgetInv'
<1>1. pc'[e] = to /\ \A f \in Execution \ {e} : pc'[f] = pc[f]
  BY DEF Returns, BudgetInv, TypeInv, EngineTypeOK
<1>. QED BY <1>1, BecomesFree DEF OthersKept

LEMMA WebKeepsBudget ==
  ASSUME BudgetInv, TypeInv',
         \/ StartFails
         \/ \E e \in Execution : StartDispatches(e)
         \/ Operators
  PROVE  BudgetInv'
<1>1. CASE StartFails
  BY <1>1, RequestKeepsBudget DEF StartFails, rowVars, engineVars
<1>2. ASSUME NEW e \in Execution,
             StartDispatches(e) \/ \E o \in Request : ResumeDispatches(o, e)
      PROVE  BudgetInv'
  BY <1>2, StartKeepsBudget DEF StartDispatches, ResumeDispatches, Fresh, rowVars, turnVars
<1>3. ASSUME NEW o \in Request, NEW q \in Asked, AnswerChecks(o, q) PROVE BudgetInv'
  <2>1. /\ answering' = answering \cup {<<o, q, asker[q]>>}
        /\ UNCHANGED <<messages, answered, pc, role, result>>
        /\ \A a \in answering : a[1] # o
        /\ \A x \in answered : x[1] # q
    BY <1>3 DEF AnswerChecks, Pending, rowVars, engineVars
  <2>2. HasRoom' /\ \A e \in Execution : Size(e)' = Size(e)
    BY <2>1, RoomUnchanged DEF BudgetInv
  <2>. QED BY <2>1, <2>2 DEF BudgetInv
<1>4. ASSUME NEW o \in Request, ResumeChecks(o) \/ ResumeFlips(o) \/ ResumeFails(o)
      PROVE  BudgetInv'
  BY <1>4, RequestKeepsBudget DEF ResumeChecks, ResumeFlips, ResumeFails, rowVars, engineVars
<1>5. ASSUME NEW a \in answering, AnswerFails(a) PROVE BudgetInv'
  BY <1>5, RequestKeepsBudget DEF AnswerFails, rowVars, engineVars
<1>6. ASSUME NEW a \in answering, AnswerCommits(a) PROVE BudgetInv'
  <2>. DEFINE x == <<a[2], a[1]>>
  <2>1. /\ answering' = answering \ {a} /\ answered' = answered \cup {x}
        /\ messages' = messages + 1 /\ UNCHANGED <<pc, role, result>>
    BY <1>6 DEF AnswerCommits, engineVars
  <2>2. x \notin answered /\ IsFiniteSet(answered)
    BY DEF BudgetInv
  <2>3. /\ IsFiniteSet(answered') /\ Cardinality(answered) \in Nat
        /\ Cardinality(answered') = Cardinality(answered) + 1
    BY <2>1, <2>2, FS_AddElement, FS_CardinalityType
  <2>4. Free' = Free /\ \A e \in Execution : Size(e)' = Size(e)
    BY <2>1 DEF Free, Size
  <2>5. /\ Cardinality(Free) \in Nat /\ messages \in Nat
        /\ MaxMessages * Cardinality(Free) \in Nat
        /\ MaxMessages * (Cardinality(Free) + 1) = MaxMessages * Cardinality(Free) + MaxMessages
    BY BudgetTerms, OneBudgetMore
  <2>6. ASSUME messages <= MaxMessages * Cardinality(Free) + Cardinality(answered)
        PROVE  HasRoom'
    BY <2>1, <2>3, <2>4, <2>5, <2>6 DEF HasRoom
  <2>7. ASSUME NEW e \in Execution, Fits(e) PROVE HasRoom'
    <3>1. pc[e] = "writing" /\ Size(e) \in Nat
      BY <2>7, BudgetTerms DEF Fits
    <3>2. messages' + Size(e) <=
            MaxMessages * (Cardinality(Free) + 1) + Cardinality(answered')
      BY <2>7, <2>1, <2>3, <2>5, <3>1, BoundsAssumption DEF Fits
    <3>3. Fits(e)'
      BY <2>1, <2>4, <3>1, <3>2 DEF Fits
    <3>. QED BY <3>3 DEF HasRoom
  <2>8. HasRoom'
    BY <2>6, <2>7 DEF BudgetInv, HasRoom
  <2>9. \A b \in answering' : <<b[2], b[1]>> \notin answered'
    BY <2>1 DEF BudgetInv
  <2>. QED BY <2>1, <2>3, <2>4, <2>8, <2>9 DEF BudgetInv
<1>. QED BY <1>1, <1>2, <1>3, <1>4, <1>5, <1>6 DEF Operators

\* Executions that write beside each other may each add a budget, since a count
\* does not see what is not committed; retries that write a turn twice add
\* nothing, and the operators' answers come on top, each once.
THEOREM BudgetIsKept == Spec => []BudgetHolds
<1>1. Init => BudgetInv
  <2>. SUFFICES ASSUME Init PROVE BudgetInv
    OBVIOUS
  <2>1. /\ answered = {} /\ answering = {} /\ messages = 0
        /\ \A e \in Execution : pc[e] = "none"
    BY DEF Init
  <2>2. Free = {}
    BY <2>1 DEF Free
  <2>3. Cardinality(Free) = 0 /\ Cardinality(answered) = 0 /\ IsFiniteSet(answered)
    BY <2>1, <2>2, FS_EmptySet
  <2>4. HasRoom
    BY <2>1, <2>3, BoundsAssumption DEF HasRoom
  <2>. QED BY <2>1, <2>3, <2>4, InitType DEF BudgetInv
<1>2. BudgetInv /\ [Next]_vars => BudgetInv'
  <2>. SUFFICES ASSUME BudgetInv, [Next]_vars PROVE BudgetInv'
    OBVIOUS
  <2>1. TypeInv'
    BY ExecutionStepType, WebStepType, StutterType DEF Next, BudgetInv
  <2>2. CASE Next
    BY <2>1, <2>2, ExecutionKeepsBudget, WebKeepsBudget DEF Next
  <2>3. CASE UNCHANGED vars
    BY <2>1, <2>3, RequestKeepsBudget DEF vars
  <2>. QED BY <2>2, <2>3
<1>3. BudgetInv => BudgetHolds
  <2>. SUFFICES ASSUME BudgetInv PROVE BudgetHolds
    OBVIOUS
  <2>. DEFINE started == {e \in Execution : pc[e] # "none"}
              n == Cardinality(Free)
              s == Cardinality(started)
  <2>1. IsFiniteSet(started) /\ s \in Nat
    <3>1. started \in SUBSET (1..MaxExecutions) /\ IsFiniteSet(1..MaxExecutions)
      BY FS_Interval, BoundsAssumption DEF Execution
    <3>. QED BY <3>1, FS_Subset, FS_CardinalityType
  <2>2. Free \in SUBSET started /\ n \in Nat /\ n <= s
    BY <2>1, FS_Subset, FS_CardinalityType DEF Free
  <2>3. ASSUME NEW k \in Nat, k <= s PROVE MaxMessages * k <= MaxMessages * s
    <3>1. s - k \in Nat /\ MaxMessages * s = MaxMessages * k + MaxMessages * (s - k)
      BY <2>1, <2>3, BoundsAssumption
    <3>2. MaxMessages * (s - k) \in Nat /\ MaxMessages * k \in Nat
      BY <3>1, BoundsAssumption
    <3>. QED BY <3>1, <3>2
  <2>4. CASE messages <= MaxMessages * n + Cardinality(answered)
    BY <2>1, <2>2, <2>3, <2>4, BudgetTerms, BoundsAssumption DEF BudgetHolds
  <2>5. ASSUME NEW e \in Execution, Fits(e) PROVE BudgetHolds
    <3>1. e \in started /\ e \notin Free /\ Size(e) \in Nat
      BY <2>5, BudgetTerms DEF Fits, Free
    <3>2. IsFiniteSet(Free \cup {e}) /\ Cardinality(Free \cup {e}) = n + 1
      BY <3>1, BudgetTerms, FS_AddElement
    <3>3. n + 1 <= s
      <4>1. Free \cup {e} \in SUBSET started
        BY <2>2, <3>1
      <4>. QED BY <4>1, <3>2, <2>1, FS_Subset
    <3>4. MaxMessages * (n + 1) <= MaxMessages * s
      BY <2>2, <2>3, <3>3
    <3>5. MaxMessages * (n + 1) \in Nat /\ MaxMessages * s \in Nat
      BY <2>1, <2>2, BoundsAssumption
    <3>. QED BY <2>5, <3>1, <3>4, <3>5, BudgetTerms DEF Fits, BudgetHolds
  <2>. QED BY <2>4, <2>5 DEF BudgetInv, HasRoom
<1>. QED BY <1>1, <1>2, <1>3, PTL DEF Spec

-------------------------------------------------------------------------------
(* A run that is never resumed.  Operators act only once its execution is over, *)
(* so nothing disturbs the inboxes while it schedules them; and turn counts do  *)
(* not repeat, so no question takes over the id of another one.                 *)

Over == {"markFailed", "returned", "failed"}

Drained == open = {} /\ \A r \in Role : inbox[r] \notin {"queued", "blocked"}

\* Operators wait until the execution is over.
Undisturbed ==
  /\ \/ status = "waiting" \/ answering # {} \/ answered # {}
     \/ \E o \in Request : resuming[o] # "no"
     => pc[1] \in Over
  /\ \A o \in Request : resuming[o] # "dispatched"
  /\ answering # {} => status \in {"waiting", "failed"}

Scheduled ==
  /\ status = "completed" => pc[1] \in Over /\ Drained
  /\ pc[1] = "markCompleted" => Drained
  /\ pc[1] = "recheck" => \A r \in Role : inbox[r] # "queued"
  /\ pc[1] \in InTurn => inbox[role[1]] # "queued"

\* Ids of earlier turns, and on a retry those of this turn, asked by this role.
IdsInOrder ==
  /\ pc[1] \in Loop =>
       \A q \in Asked : q[1] < turn[1] \/ pc[1] \in {"persist", "writing"}
  /\ pc[1] \in {"persist", "writing"} =>
       \A q \in Asked : q[1] < turn[1] \/ (q[1] = turn[1] /\ asker[q] = role[1])
  /\ \A a \in answering : asker[a[2]] = a[3]

Alone ==
  TypeInv /\ Undisturbed /\ Scheduled /\ IdsInOrder /\ BlockedIsAnswerable

LEMMA OneExecution ==
  ASSUME MaxExecutions = 1
  PROVE  Execution = {1}
BY DEF Execution

\* Ids are those of the turn, and a role that blocks has asked.
LEMMA AskedIdsOfTurn ==
  ASSUME NEW r \in Role, NEW out \in Output, NEW n \in Nat
  PROVE  /\ \A q \in AskedIds(r, out, n) : q[1] = n
         /\ SelfState(r, out) = "blocked" => AskedIds(r, out, n) # {}
<1>. DEFINE sent == Routed(r, out)
            Index(m) == Cardinality({k \in sent : k.at < m.at})
<1>1. \A q \in AskedIds(r, out, n) : q[1] = n
  <2>1. \A q \in AskedIds(r, out, n) :
          \/ \E m \in sent : q = <<n, "message", Index(m)>>
          \/ \E a \in out.asks : q = <<n, "resolution", a.at>>
    BY DEF AskedIds
  <2>. HIDE DEF Index
  <2>. QED BY <2>1
<1>2. ASSUME \E m \in Routed(r, out) : AsksHuman(m) PROVE AskedIds(r, out, n) # {}
  BY <1>2 DEF AskedIds
<1>3. ASSUME out.resolution = "needs_input", \E a \in out.asks : a.target \in Human
      PROVE  AskedIds(r, out, n) # {}
  BY <1>3 DEF AskedIds
<1>. QED BY <1>1, <1>2, <1>3 DEF SelfState

\* Where a step may take the control of the execution.
LEMMA ControlStep ==
  ASSUME MaxExecutions = 1, TypeInv, NEW to, Returns(1, to)
  PROVE  pc'[1] = to
BY OneExecution DEF Returns, TypeInv, EngineTypeOK

LEMMA FailureStep ==
  ASSUME MaxExecutions = 1, TypeInv, AttemptFails(1)
  PROVE  \/ pc'[1] = FromStart(pc[1]) /\ pc[1] \in TurnActivities
         \/ pc'[1] \in {"failed", "markFailed"}
BY OneExecution, AttemptFailsType DEF TypeInv

\* A step that changes no row and no turn, and moves the control only to where
\* the rows allow it.
LEMMA ControlKeepsAlone ==
  ASSUME MaxExecutions = 1, Alone, TypeInv', UNCHANGED <<rowVars, turnVars, requestVars>>,
         \/ pc'[1] \in {pc[1], FromStart(pc[1]), "failed", "markFailed"}
         \/ pc[1] = "persist" /\ pc'[1] = "writing"
         \/ pc[1] = "progress" /\ pc'[1] = "claim"
         \/ pc[1] = "claim" /\ pc'[1] = "recheck" /\ \A r \in Role : inbox[r] # "queued"
         \/ pc[1] = "recheck" /\ pc'[1] = "markWaiting"
         \/ pc[1] = "recheck" /\ pc'[1] = "markCompleted" /\ Drained
  PROVE  Alone'
<1>. USE DEF rowVars, turnVars, requestVars, FromStart, InTurn
<1>1. Undisturbed'
  BY DEF Alone, Undisturbed, Over
<1>2. Scheduled'
  BY DEF Alone, Scheduled, Drained, Over
<1>3. IdsInOrder'
  BY DEF Alone, IdsInOrder, Loop, Asked
<1>4. BlockedIsAnswerable'
  BY DEF Alone, BlockedIsAnswerable, Pending, Asked
<1>. QED BY <1>1, <1>2, <1>3, <1>4 DEF Alone

LEMMA PersistKeepsAlone ==
  ASSUME MaxExecutions = 1, Alone, TypeInv', PersistRoleTurnResult(1)
  PROVE  Alone'
<1>. DEFINE r == role[1]
            out == result[1]
            ids == AskedIds(r, out, turn[1])
<1>1. /\ r \in Role /\ out \in Output /\ turn[1] \in Nat /\ pc[1] = "writing"
      /\ turn \in [Execution -> 0..MaxTurns]
  BY OneExecution, BoundsAssumption DEF PersistRoleTurnResult, Alone, TypeInv, TurnDataOK, InTurn
<1>2. /\ UNCHANGED <<status, answered, answering, resuming>>
      /\ asker' = [q \in Asked \cup ids |-> IF q \in ids THEN r ELSE asker[q]]
      /\ inbox' = [t \in Role |->
                     IF t = r THEN SelfState(r, out)
                     ELSE IF t \in QueuedTargets(r, out, approved') THEN "queued"
                     ELSE inbox[t]]
  BY DEF PersistRoleTurnResult, TurnPersisted, requestVars
<1>3. Asked' = Asked \cup ids
  BY <1>2 DEF Asked
<1>4. \/ turn'[1] = turn[1] + 1 /\ pc'[1] \in {"claim", "budgetExceeded"}
      \/ UNCHANGED <<turn, role>> /\ pc'[1] \in {"persist", "failed", "markFailed"}
  <2>1. CASE /\ turn' = [turn EXCEPT ![1] = @ + 1]
             /\ Returns(1, IF turn[1] + 1 < MaxTurns THEN "claim" ELSE "budgetExceeded")
    <3>1. pc'[1] \in {"claim", "budgetExceeded"}
      BY <2>1, ControlStep DEF Alone
    <3>. QED BY <1>1, <2>1, <3>1, OneExecution
  <2>2. CASE AttemptFails(1) /\ UNCHANGED turnVars
    BY <1>1, <2>2, FailureStep DEF Alone, turnVars, FromStart
  <2>. QED BY <2>1, <2>2 DEF PersistRoleTurnResult
<1>5. answered = {} /\ answering = {} /\ status \notin {"waiting", "completed"}
  BY <1>1 DEF Alone, Undisturbed, Scheduled, Over
<1>6. Undisturbed'
  BY <1>1, <1>2, <1>5 DEF Alone, Undisturbed, Over
<1>7. Scheduled'
  BY <1>1, <1>2, <1>4, <1>5, SelfStateType DEF Scheduled, InTurn
<1>8. /\ \A q \in ids : q[1] = turn[1]
      /\ \A q \in Asked : q[1] < turn[1] \/ (q[1] = turn[1] /\ asker[q] = r)
      /\ \A q \in Asked' : q[1] \in Nat
  BY <1>1, AskedIdsOfTurn DEF Alone, IdsInOrder, TypeInv, RowsOK, QuestionId
<1>9. IdsInOrder'
  <2>1. CASE turn'[1] = turn[1] + 1 /\ pc'[1] \in {"claim", "budgetExceeded"}
    BY <1>1, <1>2, <1>3, <1>5, <1>8, <2>1 DEF IdsInOrder, Loop
  <2>2. CASE UNCHANGED <<turn, role>> /\ pc'[1] \in {"persist", "failed", "markFailed"}
    BY <1>1, <1>2, <1>3, <1>5, <1>8, <2>2 DEF IdsInOrder, Loop
  <2>. QED BY <1>4, <2>1, <2>2
<1>10. BlockedIsAnswerable'
  <2>. SUFFICES ASSUME NEW t \in Role, inbox'[t] = "blocked"
                PROVE  \E q \in Asked' : asker'[q] = t
    BY <1>2, <1>5 DEF BlockedIsAnswerable, Pending
  <2>1. CASE t = r
    BY <1>1, <1>2, <1>3, <2>1, AskedIdsOfTurn
  <2>2. CASE t # r
    <3>1. inbox[t] = "blocked"
      BY <1>2, <2>2
    <3>2. PICK q \in Asked : asker[q] = t
      BY <3>1 DEF Alone, BlockedIsAnswerable
    <3>3. q \notin ids
      BY <1>1, <1>8, <2>2, <3>2
    <3>. QED BY <1>2, <1>3, <3>2, <3>3
  <2>. QED BY <2>1, <2>2
<1>. QED BY <1>6, <1>7, <1>9, <1>10 DEF Alone

\* Claiming, initializing, running a turn and marking the run.
LEMMA OtherStepsKeepAlone ==
  ASSUME MaxExecutions = 1, Alone, TypeInv',
         \/ InitializeRunState(1) \/ ClaimNextQueuedInbox(1)
         \/ RunTeamTurn(1) \/ MarkRun(1)
  PROVE  Alone'
<1>. USE DEF Asked, Pending, InTurn, FromStart
<1>1. CASE InitializeRunState(1)
  <2>1. /\ pc[1] = "initialize" /\ pc'[1] \in {"progress", "failed", "markFailed"}
        /\ UNCHANGED <<open, asker, answered, turn, role, answering, resuming>>
        /\ status' = "running" /\ \A r \in Role : inbox'[r] = "blocked" => inbox[r] = "blocked"
    <3>1. pc'[1] \in {"progress", "failed", "markFailed"}
      BY <1>1, ControlStep, FailureStep
         DEF Alone, InitializeRunState, Completes, TurnActivities
    <3>. QED BY <1>1, <3>1 DEF InitializeRunState, turnVars, requestVars
  <2>2. Undisturbed' /\ Scheduled'
    BY <2>1 DEF Alone, Undisturbed, Scheduled, Over
  <2>3. IdsInOrder' /\ BlockedIsAnswerable'
    BY <2>1 DEF Alone, IdsInOrder, BlockedIsAnswerable, Loop
  <2>. QED BY <2>2, <2>3 DEF Alone
<1>2. CASE ClaimNextQueuedInbox(1)
  <2>1. PICK r \in Role :
          /\ inbox[r] = "queued"
          /\ inbox' = [inbox EXCEPT ![r] = "running"]
          /\ \/ Returns(1, "turn") /\ role' = [role EXCEPT ![1] = r]
             \/ AttemptFails(1) /\ UNCHANGED role
    BY <1>2 DEF ClaimNextQueuedInbox
  <2>2. /\ pc[1] = "claim"
        /\ UNCHANGED <<status, open, asker, answered, turn, answering, resuming>>
    BY <1>2 DEF ClaimNextQueuedInbox, requestVars
  <2>3. \/ pc'[1] = "turn" /\ role'[1] = r
        \/ pc'[1] \in {"claim", "failed", "markFailed"}
    BY <2>1, <2>2, ControlStep, FailureStep, OneExecution DEF Alone, TypeInv, TurnDataOK
  <2>4. inbox'[r] = "running" /\ \A t \in Role : inbox'[t] = "blocked" => inbox[t] = "blocked"
    BY <2>1 DEF Alone, TypeInv, RowsOK
  <2>5. Undisturbed' /\ Scheduled'
    BY <2>2, <2>3, <2>4 DEF Alone, Undisturbed, Scheduled, Over
  <2>6. IdsInOrder' /\ BlockedIsAnswerable'
    BY <2>2, <2>3, <2>4 DEF Alone, IdsInOrder, BlockedIsAnswerable, Loop
  <2>. QED BY <2>5, <2>6 DEF Alone
<1>3. CASE RunTeamTurn(1)
  <2>1. /\ pc[1] = "turn" /\ pc'[1] = "persist"
        /\ UNCHANGED <<status, inbox, open, asker, answered, turn, role, answering, resuming>>
    BY <1>3, ControlStep DEF Alone, RunTeamTurn, rowVars, requestVars
  <2>2. Undisturbed' /\ Scheduled'
    BY <2>1 DEF Alone, Undisturbed, Scheduled, Drained, Over
  <2>3. IdsInOrder' /\ BlockedIsAnswerable'
    BY <2>1 DEF Alone, IdsInOrder, BlockedIsAnswerable, Loop
  <2>. QED BY <2>2, <2>3 DEF Alone
<1>4. CASE MarkRun(1)
  <2>1. /\ UNCHANGED <<inbox, open, asker, answered, turn, role, answering, resuming>>
        /\ \/ pc[1] = "markWaiting" /\ status' = "waiting"
           \/ pc[1] = "markCompleted" /\ status' = "completed"
           \/ pc[1] \in {"budgetExceeded", "markFailed"} /\ status' = "failed"
    BY <1>4 DEF MarkRun, turnVars, requestVars
  <2>2. pc'[1] \in {"returned", "failed", "markFailed"}
    BY <1>4, <2>1, ControlStep, FailureStep DEF Alone, MarkRun, Completes, TurnActivities
  <2>3. Undisturbed' /\ Scheduled'
    BY <2>1, <2>2 DEF Alone, Undisturbed, Scheduled, Drained, Over
  <2>4. IdsInOrder' /\ BlockedIsAnswerable'
    BY <2>1, <2>2 DEF Alone, IdsInOrder, BlockedIsAnswerable, Loop
  <2>. QED BY <2>3, <2>4 DEF Alone
<1>. QED BY <1>1, <1>2, <1>3, <1>4

LEMMA ExecutionKeepsAlone ==
  ASSUME MaxExecutions = 1, Alone, TypeInv', ExecutionStep(1)
  PROVE  Alone'
<1>1. CASE AttemptLost(1) \/ PersistOverBudget(1)
  BY <1>1, FailureStep, ControlKeepsAlone DEF AttemptLost, PersistOverBudget, Alone
<1>2. CASE FirstProgress(1)
  BY <1>2, ControlStep, ControlKeepsAlone DEF FirstProgress, Alone
<1>3. CASE ClaimFindsNone(1)
  BY <1>3, ControlStep, ControlKeepsAlone DEF ClaimFindsNone, Alone
<1>4. CASE Recheck(1)
  <2>1. \A r \in Role : inbox[r] # "queued"
    BY <1>4 DEF Recheck, Alone, Scheduled
  <2>2. \/ pc'[1] = "markWaiting"
        \/ pc'[1] = "markCompleted" /\ Drained
    BY <1>4, <2>1, ControlStep DEF Recheck, Alone, Drained
  <2>. QED BY <1>4, <2>2, ControlKeepsAlone DEF Recheck
<1>5. CASE PersistRoleTurnResult(1)
  BY <1>5, PersistKeepsAlone
<1>6. CASE CountsMessages(1)
  <2>1. pc'[1] = "writing"
    BY <1>6, OneExecution DEF CountsMessages, Alone, TypeInv, EngineTypeOK
  <2>. QED BY <1>6, <2>1, ControlKeepsAlone DEF CountsMessages
<1>. QED BY <1>1, <1>2, <1>3, <1>4, <1>5, <1>6, OtherStepsKeepAlone DEF ExecutionStep

LEMMA WebKeepsAlone ==
  ASSUME MaxExecutions = 1, Alone, TypeInv',
         \/ StartFails
         \/ \E e \in Execution : StartDispatches(e)
         \/ Operators
  PROVE  Alone'
<1>. USE DEF Asked, Pending, InTurn, FromStart
<1>1. CASE StartFails
  BY <1>1 DEF StartFails, rowVars, engineVars, Alone, Undisturbed, Scheduled, Drained,
              IdsInOrder, BlockedIsAnswerable
<1>2. ASSUME NEW e \in Execution, StartDispatches(e) PROVE Alone'
  <2>1. /\ e = 1 /\ pc[1] = "none" /\ pc'[1] = "initialize"
        /\ UNCHANGED <<status, inbox, open, asker, answered, turn, role, answering, resuming>>
    BY <1>2, OneExecution, ControlStep
       DEF StartDispatches, Fresh, rowVars, turnVars, Alone
  <2>2. Undisturbed' /\ Scheduled'
    BY <2>1 DEF Alone, Undisturbed, Scheduled, Over
  <2>3. IdsInOrder' /\ BlockedIsAnswerable'
    BY <2>1 DEF Alone, IdsInOrder, BlockedIsAnswerable, Loop
  <2>. QED BY <2>2, <2>3 DEF Alone
<1>3. ASSUME NEW o \in Request, NEW q \in Asked, AnswerChecks(o, q) PROVE Alone'
  <2>1. /\ status = "waiting" /\ answering' = answering \cup {<<o, q, asker[q]>>}
        /\ UNCHANGED <<status, inbox, open, asker, answered, pc, turn, role, resuming>>
    BY <1>3 DEF AnswerChecks, rowVars, engineVars
  <2>2. Undisturbed' /\ Scheduled'
    BY <2>1 DEF Alone, Undisturbed, Scheduled, Drained
  <2>3. IdsInOrder' /\ BlockedIsAnswerable'
    BY <2>1 DEF Alone, IdsInOrder, BlockedIsAnswerable
  <2>. QED BY <2>2, <2>3 DEF Alone
<1>4. ASSUME NEW o \in Request, ResumeChecks(o) \/ ResumeFails(o) PROVE Alone'
  <2>1. /\ UNCHANGED <<status, inbox, open, asker, answered, pc, turn, role, answering>>
        /\ \/ resuming' = [resuming EXCEPT ![o] = "no"]
           \/ resuming' = [resuming EXCEPT ![o] = "checked"] /\ status = "waiting"
    BY <1>4 DEF ResumeChecks, ResumeFails, rowVars, engineVars
  <2>2. resuming \in [Request -> {"no", "checked", "dispatched"}]
    BY DEF Alone, TypeInv, RequestsOK
  <2>3. Undisturbed'
    BY <2>1, <2>2 DEF Alone, Undisturbed
  <2>4. Scheduled' /\ IdsInOrder' /\ BlockedIsAnswerable'
    BY <2>1 DEF Alone, Scheduled, Drained, IdsInOrder, BlockedIsAnswerable
  <2>. QED BY <2>3, <2>4 DEF Alone
<1>5. ASSUME NEW o \in Request,
             ResumeFlips(o) \/ \E e \in Execution : ResumeDispatches(o, e)
      PROVE  FALSE
  BY <1>5, OneExecution
     DEF ResumeFlips, ResumeDispatches, Fresh, Alone, Undisturbed, Over
<1>6. ASSUME NEW a \in answering, AnswerCommits(a) \/ AnswerFails(a) PROVE Alone'
  <2>1. /\ a[2] \in Asked /\ a[3] \in Role /\ asker[a[2]] = a[3]
        /\ answering' \subseteq answering
        /\ UNCHANGED <<status, open, asker, pc, turn, role, resuming>>
        /\ \/ UNCHANGED <<inbox, answered>>
           \/ /\ inbox' = [inbox EXCEPT ![a[3]] = "queued"]
              /\ answered' = answered \cup {<<a[2], a[1]>>}
    BY <1>6 DEF AnswerCommits, AnswerFails, rowVars, engineVars, Alone, IdsInOrder,
                TypeInv, RequestsOK
  <2>2. pc[1] \in Over /\ status \in {"waiting", "failed"}
    BY DEF Alone, Undisturbed
  <2>3. Undisturbed' /\ Scheduled' /\ IdsInOrder'
    BY <2>1, <2>2 DEF Alone, Undisturbed, Scheduled, IdsInOrder, Over, Loop
  <2>4. BlockedIsAnswerable'
    <3>. SUFFICES ASSUME NEW r \in Role, inbox'[r] = "blocked"
                  PROVE  \E q \in Asked : asker[q] = r /\ Pending(q)'
      BY <2>1 DEF BlockedIsAnswerable
    <3>1. inbox[r] = "blocked" /\ (inbox' = inbox \/ r # a[3])
      BY <2>1 DEF Alone, TypeInv, RowsOK
    <3>2. PICK q \in Asked : asker[q] = r /\ Pending(q)
      BY <3>1 DEF Alone, BlockedIsAnswerable
    <3>3. Pending(q)'
      <4>1. CASE UNCHANGED <<inbox, answered>>
        BY <2>1, <3>2, <4>1
      <4>2. CASE /\ inbox' = [inbox EXCEPT ![a[3]] = "queued"]
                 /\ answered' = answered \cup {<<a[2], a[1]>>}
        <5>1. r # a[3]
          BY <2>1, <3>1, <4>2 DEF Alone, TypeInv, RowsOK
        <5>2. q # a[2]
          BY <2>1, <3>2, <5>1
        <5>. QED BY <2>1, <3>2, <4>2, <5>2
      <4>. QED BY <2>1, <4>1, <4>2
    <3>. QED BY <3>2, <3>3
  <2>. QED BY <2>3, <2>4 DEF Alone
<1>. QED BY <1>1, <1>2, <1>3, <1>4, <1>5, <1>6 DEF Operators

LEMMA AloneStep ==
  ASSUME MaxExecutions = 1, Alone, [Next]_vars
  PROVE  Alone'
<1>1. TypeInv'
  BY ExecutionStepType, WebStepType, StutterType DEF Next, Alone
<1>2. CASE Next
  BY <1>1, <1>2, ExecutionKeepsAlone, WebKeepsAlone, OneExecution DEF Next
<1>3. CASE UNCHANGED vars
  <2>1. /\ UNCHANGED <<rowVars, turnVars, requestVars>> /\ pc'[1] = pc[1]
    BY <1>3 DEF vars, rowVars, turnVars, requestVars
  <2>. QED BY <1>1, <2>1, ControlKeepsAlone
<1>. QED BY <1>2, <1>3

LEMMA InitAlone ==
  ASSUME MaxExecutions = 1, Init
  PROVE  Alone
<1>1. /\ pc[1] = "none" /\ Asked = {} /\ answering = {} /\ answered = {}
      /\ status = "queued" /\ \A o \in Request : resuming[o] = "no"
      /\ \A r \in Role : inbox[r] = "none"
  BY OneExecution DEF Init, Asked
<1>2. Undisturbed /\ Scheduled
  BY <1>1 DEF Undisturbed, Scheduled, InTurn
<1>3. IdsInOrder /\ BlockedIsAnswerable
  BY <1>1 DEF IdsInOrder, BlockedIsAnswerable
<1>. QED BY <1>2, <1>3, InitType DEF Alone

LEMMA AloneInvariance ==
  ASSUME MaxExecutions = 1
  PROVE  Spec => []Alone
<1>1. Init => Alone
  BY InitAlone
<1>2. Alone /\ [Next]_vars => Alone'
  BY AloneStep
<1>. QED BY <1>1, <1>2, PTL DEF Spec

\* Without a resume, a run is completed only when nothing is queued, blocked or
\* open, and stays so.
THEOREM CompletionIsQuiet ==
  ASSUME MaxExecutions = 1
  PROVE  Spec => []CompletedIsQuiet
<1>1. Alone => CompletedIsQuiet
  BY DEF Alone, Scheduled, Drained, CompletedIsQuiet
<1>. QED BY <1>1, AloneInvariance, PTL

\* Without a resume, every role blocked on humans has a question they can answer.
THEOREM BlockedCanBeAnswered ==
  ASSUME MaxExecutions = 1
  PROVE  Spec => []BlockedIsAnswerable
<1>1. Alone => BlockedIsAnswerable
  BY DEF Alone
<1>. QED BY <1>1, AloneInvariance, PTL

\* Without a resume, no step takes a wake-up back.
THEOREM WakesAreKept ==
  ASSUME MaxExecutions = 1
  PROVE  Spec => WakeIsNotLost
<1>. DEFINE Kept == \A r \in Role :
                      inbox[r] = "queued" => inbox'[r] \in {"queued", "running"}
<1>1. Alone /\ [Next]_vars => [Kept]_vars
  <2>. SUFFICES ASSUME Alone, Next, NEW r \in Role, inbox[r] = "queued"
                PROVE  inbox'[r] \in {"queued", "running"}
    OBVIOUS
  <2>. USE DEF Alone, TypeInv, RowsOK
  <2>1. CASE StartFails \/ \E e \in Execution : StartDispatches(e)
    BY <2>1 DEF StartFails, StartDispatches, rowVars
  <2>2. CASE Operators
    <3>1. UNCHANGED inbox \/ \E a \in answering : inbox' = [inbox EXCEPT ![a[3]] = "queued"]
      BY <2>2 DEF Operators, AnswerChecks, AnswerCommits, AnswerFails, ResumeChecks,
                  ResumeDispatches, ResumeFlips, ResumeFails, rowVars
    <3>. QED BY <3>1
  <2>3. CASE ExecutionStep(1)
    <3>1. CASE InitializeRunState(1)
      BY <3>1 DEF InitializeRunState
    <3>2. CASE ClaimNextQueuedInbox(1)
      BY <3>2 DEF ClaimNextQueuedInbox
    <3>3. CASE PersistRoleTurnResult(1)
      <4>1. r # role[1]
        BY <3>3 DEF PersistRoleTurnResult, Scheduled, InTurn
      <4>. QED BY <3>3, <4>1 DEF PersistRoleTurnResult, TurnPersisted
    <3>4. CASE ~(\/ InitializeRunState(1) \/ ClaimNextQueuedInbox(1)
                 \/ PersistRoleTurnResult(1))
      BY <2>3, <3>4 DEF ExecutionStep, AttemptLost, FirstProgress, ClaimFindsNone,
                        RunTeamTurn, CountsMessages, PersistOverBudget, Recheck,
                        MarkRun, rowVars
    <3>. QED BY <3>1, <3>2, <3>3, <3>4
  <2>. QED BY <2>1, <2>2, <2>3, OneExecution DEF Next
<1>. QED BY <1>1, AloneInvariance, PTL DEF Spec, WakeIsNotLost

-------------------------------------------------------------------------------
(* An execution runs out of steps, whatever roles wake each other and         *)
(* whatever operators answer: the safety half of ExecutionEnds.               *)

\* Rank of the activities before the first turn and after the last.
Before == [none |-> 6, initialize |-> 5, progress |-> 4]
After == [recheck |-> 3, markWaiting |-> 2, markCompleted |-> 2, budgetExceeded |-> 2, markFailed |-> 1,
          returned |-> 0, failed |-> 0]

\* The steps of a turn up to attempt k of activity p: an attempt to persist
\* counts, and then writes.
Passed(p, k) ==
  CASE p = "claim"   -> k
    [] p = "turn"    -> TurnAttempts + k
    [] p = "persist" -> 2 * TurnAttempts + 2 * k - 1
    [] p = "writing" -> 2 * TurnAttempts + 2 * k

\* The steps an execution can still take, at attempt k of activity p with n turns to go.
Remaining(p, k, n) ==
  IF p \in DOMAIN After THEN After[p]
  ELSE IF p \in TurnActivities THEN 4 * TurnAttempts * n + 4 - Passed(p, k)
  ELSE 4 * TurnAttempts * n + Before[p]

Work(e) == Remaining(pc[e], attempt[e], MaxTurns - turn[e])

\* Each step of an execution takes from what it can still do, and nothing else adds to it: answers,
\* resumes and other executions that queue inboxes give this one no turn it did not have.
WorkIsUsedUp ==
  [][\A e \in Execution : Work(e)' <= Work(e) /\ (ExecutionStep(e) => Work(e)' < Work(e))]_vars

\* The bound: three activities a turn, each tried TurnAttempts times and the last in two steps, and those around the turns.
WorkIsBounded == \A e \in Execution : Work(e) \in 0 .. (4 * TurnAttempts * MaxTurns + 6)

LEMMA TurnsAdd ==
  ASSUME NEW n \in Nat
  PROVE  4 * TurnAttempts * n \in Nat /\ 4 * TurnAttempts * (n + 1) = 4 * TurnAttempts * n + 4 * TurnAttempts
BY BoundsAssumption

\* What is left within a turn, and when it is over.
LEMMA RemainingTurn ==
  ASSUME NEW n \in Nat \ {0}, NEW k \in 1..TurnAttempts
  PROVE  /\ \A p \in TurnActivities : Remaining(p, k, n) \in Nat /\ Remaining(p, k, n) > 3
         /\ \A p \in TurnActivities : k < TurnAttempts => Remaining(FromStart(p), k + 1, n) < Remaining(p, k, n)
         /\ Remaining("turn", 1, n) < Remaining("claim", k, n)
         /\ Remaining("persist", 1, n) < Remaining("turn", k, n)
         /\ Remaining("writing", k, n) < Remaining("persist", k, n)
         /\ Remaining("claim", 1, n - 1) < Remaining("writing", k, n)
         /\ \A p \in TurnActivities : Remaining(p, k, n) <= 4 * TurnAttempts * n + 3
<1>. DEFINE w == 4 * TurnAttempts * (n - 1)
<1>1. n - 1 \in Nat /\ TurnAttempts \in Nat \ {0}
  BY BoundsAssumption
<1>2. w \in Nat /\ 4 * TurnAttempts * n = w + 4 * TurnAttempts
  <2>1. (n - 1) + 1 = n
    OBVIOUS
  <2>. QED BY <1>1, <2>1, TurnsAdd
<1>3. /\ \A j \in Nat : Remaining("writing", j, n) = w + 2 * TurnAttempts + 4 - 2 * j
      /\ \A j \in Nat : Remaining("persist", j, n) = w + 2 * TurnAttempts + 5 - 2 * j
      /\ \A j \in Nat : Remaining("turn", j, n) = w + 3 * TurnAttempts + 4 - j
      /\ \A j \in Nat : Remaining("claim", j, n) = w + 4 * TurnAttempts + 4 - j
      /\ Remaining("claim", 1, n - 1) = w + 3
  BY <1>1, <1>2 DEF Remaining, After, Passed, TurnActivities
<1>. HIDE DEF w
<1>. QED BY <1>1, <1>2, <1>3 DEF TurnActivities, FromStart

LEMMA TurnsLeft ==
  ASSUME TypeInv, NEW e \in Execution
  PROVE  /\ MaxTurns - turn[e] \in 0..MaxTurns /\ attempt[e] \in 1..TurnAttempts
         /\ pc[e] \in Loop => MaxTurns - turn[e] \in Nat \ {0}
BY BoundsAssumption DEF TypeInv, TurnDataOK, EngineTypeOK

\* Outside a turn, whatever the attempt.
LEMMA RemainingElse ==
  ASSUME NEW n \in 0..MaxTurns, NEW k \in 1..TurnAttempts
  PROVE  /\ 4 * TurnAttempts * n \in Nat
         /\ Remaining("failed", k, n) = 0 /\ Remaining("returned", k, n) = 0
         /\ Remaining("markFailed", k, n) = 1
         /\ \A p \in {"markWaiting", "markCompleted", "budgetExceeded"} : Remaining(p, k, n) = 2
         /\ Remaining("recheck", k, n) = 3
         /\ Remaining("progress", k, n) = 4 * TurnAttempts * n + 4
         /\ Remaining("initialize", k, n) = 4 * TurnAttempts * n + 5
         /\ Remaining("none", k, n) = 4 * TurnAttempts * n + 6
<1>1. 4 * TurnAttempts * n \in Nat
  BY TurnsAdd, BoundsAssumption
<1>. QED BY <1>1 DEF Remaining, After, Before, TurnActivities

LEMMA WorkBounded == TypeInv => WorkIsBounded
<1>. SUFFICES ASSUME TypeInv, NEW e \in Execution
              PROVE  Work(e) \in 0 .. (4 * TurnAttempts * MaxTurns + 6)
  BY DEF WorkIsBounded
<1>. DEFINE n == MaxTurns - turn[e]
            k == attempt[e]
<1>1. n \in 0..MaxTurns /\ k \in 1..TurnAttempts /\ (pc[e] \in Loop => n \in Nat \ {0})
  BY TurnsLeft
<1>2. 4 * TurnAttempts * n <= 4 * TurnAttempts * MaxTurns /\ 4 * TurnAttempts * n \in Nat
  <2>. DEFINE d == MaxTurns - n
  <2>1. d \in Nat /\ MaxTurns = n + d /\ TurnAttempts \in Nat /\ MaxTurns \in Nat /\ n \in Nat
    BY <1>1, BoundsAssumption
  <2>2. 4 * TurnAttempts * d \in Nat /\ 4 * TurnAttempts * n \in Nat
    BY <2>1, TurnsAdd
  <2>3. 4 * TurnAttempts * (n + d) = 4 * TurnAttempts * n + 4 * TurnAttempts * d
    BY <2>1
  <2>. HIDE DEF n, d
  <2>. QED BY <2>1, <2>2, <2>3
<1>3. pc[e] \in TurnActivities \/ pc[e] \in Ended \cup {"markFailed", "markWaiting", "markCompleted",
        "budgetExceeded", "recheck", "progress", "initialize", "none"}
  BY DEF TypeInv, EngineTypeOK, PcType, LifecycleActivities
<1>4. 4 * TurnAttempts * MaxTurns \in Nat
  BY TurnsAdd, BoundsAssumption
<1>5. Work(e) = Remaining(pc[e], k, n)
  BY DEF Work
<1>. HIDE DEF n, k
<1>6. CASE pc[e] \in TurnActivities
  <2>1. n \in Nat \ {0}
    BY <1>1, <1>6 DEF Loop, TurnActivities
  <2>2. Remaining(pc[e], k, n) \in Nat /\ Remaining(pc[e], k, n) <= 4 * TurnAttempts * n + 3
    BY <1>1, <1>6, <2>1, RemainingTurn
  <2>. QED BY <1>2, <1>4, <1>5, <2>2
<1>7. CASE pc[e] \notin TurnActivities
  BY <1>1, <1>2, <1>3, <1>4, <1>5, <1>7, RemainingElse DEF Ended
<1>. QED BY <1>6, <1>7

\* A step of an execution other than e does not touch e.
LEMMA OtherWork ==
  ASSUME TypeInv, NEW e \in Execution, NEW f \in Execution, e # f, ExecutionStep(f)
  PROVE  Work(e)' = Work(e)
<1>1. ASSUME NEW to, Returns(f, to) PROVE pc'[e] = pc[e] /\ attempt'[e] = attempt[e]
  BY <1>1 DEF Returns, TypeInv, EngineTypeOK
<1>2. ASSUME AttemptFails(f) PROVE pc'[e] = pc[e] /\ attempt'[e] = attempt[e]
  BY <1>1, <1>2 DEF AttemptFails, TypeInv, EngineTypeOK
<1>3. CountsMessages(f) => pc'[e] = pc[e] /\ attempt'[e] = attempt[e]
  BY DEF CountsMessages, TypeInv, EngineTypeOK
<1>4. pc'[e] = pc[e] /\ attempt'[e] = attempt[e]
  BY <1>1, <1>2, <1>3
     DEF ExecutionStep, AttemptLost, InitializeRunState, FirstProgress, ClaimNextQueuedInbox, ClaimFindsNone,
         RunTeamTurn, PersistRoleTurnResult, PersistOverBudget, Recheck, MarkRun, Completes
<1>5. turn'[e] = turn[e]
  BY DEF ExecutionStep, AttemptLost, InitializeRunState, FirstProgress, ClaimNextQueuedInbox, ClaimFindsNone,
         RunTeamTurn, CountsMessages, PersistRoleTurnResult, PersistOverBudget, Recheck, MarkRun, turnVars, TypeInv, TurnDataOK
<1>. QED BY <1>4, <1>5 DEF Work

\* Going on, with the turns left and at the first attempt.
LEMMA WorkReturned ==
  ASSUME TypeInv, NEW e \in Execution, NEW to \in PcType, Returns(e, to), turn' = turn
  PROVE  Work(e)' = Remaining(to, 1, MaxTurns - turn[e])
BY DEF Returns, TypeInv, EngineTypeOK, Work

LEMMA WorkFailed ==
  ASSUME TypeInv, NEW e \in Execution, Live(e), AttemptFails(e), turn' = turn
  PROVE  Work(e)' < Work(e)
<1>. DEFINE n == MaxTurns - turn[e]
            k == attempt[e]
<1>1. n \in 0..MaxTurns /\ k \in 1..TurnAttempts /\ (pc[e] \in Loop => n \in Nat \ {0}) /\ 1 \in 1..TurnAttempts
  BY TurnsLeft, BoundsAssumption
<1>2. Work(e) = Remaining(pc[e], k, n)
  BY DEF Work
<1>3. CASE pc[e] \in TurnActivities /\ k < TurnAttempts
  <2>1. pc'[e] = FromStart(pc[e]) /\ attempt'[e] = k + 1
    BY <1>3 DEF AttemptFails, TypeInv, EngineTypeOK
  <2>2. Work(e)' = Remaining(FromStart(pc[e]), k + 1, n)
    BY <2>1 DEF Work
  <2>3. n \in Nat \ {0}
    BY <1>1, <1>3 DEF Loop, TurnActivities
  <2>. HIDE DEF n, k
  <2>. QED BY <1>1, <1>2, <1>3, <2>2, <2>3, RemainingTurn
<1>4. CASE pc[e] \in TurnActivities /\ ~(k < TurnAttempts)
  <2>1. Returns(e, "markFailed") /\ "markFailed" \in PcType
    BY <1>4 DEF AttemptFails, TurnActivities, PcType, LifecycleActivities
  <2>2. Work(e)' = Remaining("markFailed", 1, n)
    BY <2>1, WorkReturned
  <2>3. n \in Nat \ {0}
    BY <1>1, <1>4 DEF Loop, TurnActivities
  <2>. HIDE DEF n, k
  <2>4. Remaining(pc[e], k, n) \in Nat /\ Remaining(pc[e], k, n) > 3 /\ Remaining("markFailed", 1, n) = 1
    BY <1>1, <1>4, <2>3, RemainingTurn, RemainingElse
  <2>. QED BY <1>2, <2>2, <2>4
<1>5. CASE pc[e] \notin TurnActivities
  <2>. DEFINE to == IF pc[e] \in {"initialize", "progress", "markFailed"} THEN "failed" ELSE "markFailed"
  <2>1. Returns(e, to) /\ to \in PcType
    BY <1>5 DEF AttemptFails, PcType, Ended, LifecycleActivities
  <2>2. Work(e)' = Remaining(to, 1, n)
    BY <2>1, WorkReturned
  <2>3. pc[e] \in LifecycleActivities
    BY <1>5 DEF Live, TypeInv, EngineTypeOK, PcType
  <2>4. CASE pc[e] \in {"initialize", "progress", "markFailed"}
    <3>1. to = "failed"
      BY <2>4
    <3>. HIDE DEF n, k, to
    <3>. QED BY <1>1, <1>2, <2>2, <2>4, <3>1, RemainingElse
  <2>5. CASE pc[e] \notin {"initialize", "progress", "markFailed"}
    <3>1. to = "markFailed" /\ pc[e] \in {"recheck", "markWaiting", "markCompleted", "budgetExceeded"}
      BY <2>3, <2>5 DEF LifecycleActivities
    <3>. HIDE DEF n, k, to
    <3>. QED BY <1>1, <1>2, <2>2, <3>1, RemainingElse
  <2>. QED BY <2>4, <2>5
<1>. QED BY <1>3, <1>4, <1>5

\* An activity returns to a place with less to do, or its attempt fails.
LEMMA WorkCompleted ==
  ASSUME TypeInv, NEW e \in Execution, NEW to \in PcType, Live(e), Completes(e, to), turn' = turn,
         Remaining(to, 1, MaxTurns - turn[e]) < Work(e)
  PROVE  Work(e)' < Work(e)
BY WorkReturned, WorkFailed DEF Completes

LEMMA OwnWork ==
  ASSUME TypeInv, NEW e \in Execution, ExecutionStep(e)
  PROVE  Work(e)' < Work(e)
<1>. DEFINE n == MaxTurns - turn[e]
            k == attempt[e]
<1>1. n \in 0..MaxTurns /\ k \in 1..TurnAttempts /\ (pc[e] \in Loop => n \in Nat \ {0}) /\ 1 \in 1..TurnAttempts
  BY TurnsLeft, BoundsAssumption
<1>2. Work(e) = Remaining(pc[e], k, n)
  BY DEF Work
<1>3. /\ \A p \in TurnActivities \cup LifecycleActivities \cup Ended : p \in PcType
      /\ pc[e] \in TurnActivities \cup LifecycleActivities => Live(e)
  BY DEF PcType, Live, TurnActivities, LifecycleActivities, Ended
<1>4. CASE AttemptLost(e)
  BY <1>4, WorkFailed DEF AttemptLost, turnVars
<1>5. CASE InitializeRunState(e)
  <2>1. pc[e] = "initialize" /\ Completes(e, "progress") /\ turn' = turn
    BY <1>5 DEF InitializeRunState, turnVars
  <2>2. Live(e) /\ "progress" \in PcType
    BY <2>1, <1>3 DEF LifecycleActivities
  <2>3. Remaining("progress", 1, n) < Remaining("initialize", k, n)
    <3>. HIDE DEF n, k
    <3>. QED BY <1>1, RemainingElse
  <2>. QED BY <1>2, <2>1, <2>2, <2>3, WorkCompleted
<1>6. CASE FirstProgress(e)
  <2>1. pc[e] = "progress" /\ Returns(e, "claim") /\ turn' = turn
    BY <1>6 DEF FirstProgress, turnVars
  <2>2. Live(e) /\ "claim" \in PcType
    BY <2>1, <1>3 DEF LifecycleActivities, TurnActivities
  <2>3. Remaining("claim", 1, n) < Remaining("progress", k, n)
    <3>1. n \in Nat \ {0}
      BY <1>1, <2>1 DEF Loop
    <3>. HIDE DEF n, k
    <3>. QED BY <1>1, <3>1, RemainingElse, RemainingTurn DEF TurnActivities
  <2>. QED BY <1>2, <2>1, <2>2, <2>3, WorkReturned
<1>7. CASE ClaimNextQueuedInbox(e)
  <2>1. pc[e] = "claim" /\ (Returns(e, "turn") \/ AttemptFails(e)) /\ turn' = turn
    BY <1>7 DEF ClaimNextQueuedInbox
  <2>2. Live(e) /\ "turn" \in PcType
    BY <2>1, <1>3 DEF TurnActivities
  <2>3. Remaining("turn", 1, n) < Remaining("claim", k, n)
    <3>1. n \in Nat \ {0}
      BY <1>1, <2>1 DEF Loop
    <3>. HIDE DEF n, k
    <3>. QED BY <1>1, <3>1, RemainingTurn
  <2>. QED BY <1>2, <2>1, <2>2, <2>3, WorkCompleted DEF Completes
<1>8. CASE ClaimFindsNone(e)
  <2>1. pc[e] = "claim" /\ Returns(e, "recheck") /\ turn' = turn
    BY <1>8 DEF ClaimFindsNone, turnVars
  <2>2. "recheck" \in PcType
    BY <1>3 DEF LifecycleActivities
  <2>3. Remaining("recheck", 1, n) < Remaining("claim", k, n)
    <3>1. n \in Nat \ {0}
      BY <1>1, <2>1 DEF Loop
    <3>. HIDE DEF n, k
    <3>. QED BY <1>1, <3>1, RemainingTurn, RemainingElse DEF TurnActivities
  <2>. QED BY <1>2, <2>1, <2>2, <2>3, WorkReturned
<1>9. CASE RunTeamTurn(e)
  <2>1. pc[e] = "turn" /\ Returns(e, "persist") /\ turn' = turn
    BY <1>9 DEF RunTeamTurn
  <2>2. "persist" \in PcType
    BY <1>3 DEF TurnActivities
  <2>3. Remaining("persist", 1, n) < Remaining("turn", k, n)
    <3>1. n \in Nat \ {0}
      BY <1>1, <2>1 DEF Loop
    <3>. HIDE DEF n, k
    <3>. QED BY <1>1, <3>1, RemainingTurn
  <2>. QED BY <1>2, <2>1, <2>2, <2>3, WorkReturned
<1>10. CASE PersistRoleTurnResult(e)
  <2>1. pc[e] = "writing" /\ Live(e) /\ n \in Nat \ {0}
    BY <1>1, <1>3, <1>10 DEF PersistRoleTurnResult, TurnActivities, Loop
  <2>2. CASE /\ turn' = [turn EXCEPT ![e] = @ + 1]
             /\ Returns(e, IF turn[e] + 1 < MaxTurns THEN "claim" ELSE "budgetExceeded")
    <3>. DEFINE to == IF turn[e] + 1 < MaxTurns THEN "claim" ELSE "budgetExceeded"
    <3>1. pc'[e] = to /\ attempt'[e] = 1 /\ turn'[e] = turn[e] + 1
      BY <2>2 DEF Returns, TypeInv, EngineTypeOK, TurnDataOK
    <3>2. Work(e)' = Remaining(to, 1, n - 1)
      <4>1. MaxTurns - (turn[e] + 1) = n - 1
        BY BoundsAssumption DEF TypeInv, TurnDataOK
      <4>. QED BY <3>1, <4>1 DEF Work
    <3>3. to \in {"claim", "budgetExceeded"} /\ n - 1 \in 0..MaxTurns
      <4>1. to \in {"claim", "budgetExceeded"}
        OBVIOUS
      <4>. HIDE DEF n, to
      <4>. QED BY <1>1, <2>1, <4>1, BoundsAssumption
    <3>. HIDE DEF n, k, to
    <3>4. Remaining("claim", 1, n - 1) < Remaining("writing", k, n)
      BY <1>1, <2>1, RemainingTurn
    <3>5. Remaining("budgetExceeded", 1, n - 1) = 2 /\ Remaining("writing", k, n) > 3
           /\ Remaining("writing", k, n) \in Nat
      BY <1>1, <2>1, <3>3, RemainingTurn, RemainingElse DEF TurnActivities
    <3>. QED BY <1>2, <2>1, <3>2, <3>3, <3>4, <3>5
  <2>3. CASE AttemptFails(e) /\ UNCHANGED turnVars
    BY <2>1, <2>3, WorkFailed DEF turnVars
  <2>. QED BY <1>10, <2>2, <2>3 DEF PersistRoleTurnResult
<1>11. CASE PersistOverBudget(e)
  BY <1>3, <1>11, WorkFailed DEF PersistOverBudget, turnVars, TurnActivities
<1>12. CASE Recheck(e)
  <2>. DEFINE to == IF open # {} \/ \E r \in Role : inbox[r] = "blocked" THEN "markWaiting" ELSE "markCompleted"
  <2>1. pc[e] = "recheck" /\ Returns(e, to) /\ turn' = turn /\ to \in {"markWaiting", "markCompleted"}
    BY <1>12 DEF Recheck, turnVars
  <2>. HIDE DEF to
  <2>2. to \in PcType
    BY <1>3, <2>1 DEF LifecycleActivities
  <2>3. Remaining(to, 1, n) < Remaining("recheck", k, n)
    <3>. HIDE DEF n, k
    <3>. QED BY <1>1, <2>1, RemainingElse
  <2>. QED BY <1>2, <2>1, <2>2, <2>3, WorkReturned
<1>13. CASE MarkRun(e)
  <2>1. /\ pc[e] \in {"markWaiting", "markCompleted", "budgetExceeded", "markFailed"}
        /\ Completes(e, "returned") /\ turn' = turn
    BY <1>13 DEF MarkRun, turnVars
  <2>2. Live(e) /\ "returned" \in PcType
    BY <1>3, <2>1 DEF LifecycleActivities, Ended
  <2>3. Remaining("returned", 1, n) < Remaining(pc[e], k, n)
    <3>. HIDE DEF n, k
    <3>. QED BY <1>1, <2>1, RemainingElse
  <2>. QED BY <1>2, <2>1, <2>2, <2>3, WorkCompleted
<1>14. CASE CountsMessages(e)
  <2>1. /\ pc[e] = "persist" /\ pc'[e] = "writing"
        /\ UNCHANGED <<attempt, turn>>
    BY <1>14 DEF CountsMessages, turnVars, TypeInv, EngineTypeOK
  <2>2. Work(e)' = Remaining("writing", k, n)
    BY <2>1 DEF Work
  <2>3. n \in Nat \ {0}
    BY <1>1, <2>1 DEF Loop
  <2>. HIDE DEF n, k
  <2>. QED BY <1>1, <1>2, <2>1, <2>2, <2>3, RemainingTurn
<1>. QED BY <1>4, <1>5, <1>6, <1>7, <1>8, <1>9, <1>10, <1>11, <1>12, <1>13, <1>14
        DEF ExecutionStep

\* Starting an execution is its first step; all else that is done from the web leaves its work alone.
LEMMA WebWork ==
  ASSUME TypeInv, NEW e \in Execution,
         StartFails \/ (\E f \in Execution : StartDispatches(f)) \/ Operators
  PROVE  Work(e)' <= Work(e)
<1>. DEFINE n == MaxTurns - turn[e]
            k == attempt[e]
<1>1. n \in 0..MaxTurns /\ k \in 1..TurnAttempts /\ 1 \in 1..TurnAttempts
  BY TurnsLeft, BoundsAssumption
<1>2. Work(e) = Remaining(pc[e], k, n) /\ Work(e) \in Nat
  BY WorkBounded DEF Work, WorkIsBounded
<1>3. ASSUME NEW f \in Execution, NEW to \in {"initialize", "progress"}, Fresh(f), Returns(f, to), turn' = turn
      PROVE  Work(e)' <= Work(e)
  <2>1. CASE e = f
    <3>1. pc[e] = "none" /\ to \in PcType
      BY <1>3, <2>1 DEF Fresh, PcType, LifecycleActivities
    <3>2. Work(e)' = Remaining(to, 1, n)
      BY <1>3, <2>1, <3>1, WorkReturned
    <3>. HIDE DEF n, k
    <3>. QED BY <1>1, <1>2, <3>1, <3>2, RemainingElse
  <2>2. CASE e # f
    <3>1. pc'[e] = pc[e] /\ attempt'[e] = attempt[e]
      BY <1>3, <2>2 DEF Returns, TypeInv, EngineTypeOK
    <3>. QED BY <1>2, <1>3, <3>1 DEF Work
  <2>. QED BY <2>1, <2>2
<1>4. \/ UNCHANGED engineVars
      \/ \E f \in Execution, to \in {"initialize", "progress"} : Fresh(f) /\ Returns(f, to) /\ turn' = turn
  BY DEF StartFails, StartDispatches, Operators, AnswerChecks, AnswerCommits, AnswerFails, ResumeChecks,
         ResumeDispatches, ResumeFlips, ResumeFails, turnVars
<1>5. CASE UNCHANGED engineVars
  BY <1>2, <1>5 DEF engineVars, Work
<1>. QED BY <1>3, <1>4, <1>5

\* Every step of an execution takes from a work that is bounded when it starts, and nothing that
\* happens beside it adds to it: not the retries of activities, not wake-ups, not operators.
THEOREM WorkRunsOut == Spec => []WorkIsBounded /\ WorkIsUsedUp
<1>. DEFINE UsedUp(e) == Work(e)' <= Work(e) /\ (ExecutionStep(e) => Work(e)' < Work(e))
<1>1. ASSUME TypeInv, [Next]_vars PROVE [\A e \in Execution : UsedUp(e)]_vars
  <2>. SUFFICES ASSUME Next, NEW e \in Execution PROVE UsedUp(e)
    BY <1>1
  <2>1. TypeInv' /\ TypeInv
    BY <1>1, ExecutionStepType, WebStepType DEF Next
  <2>2. Work(e) \in Nat /\ Work(e)' \in Nat
    <3>1. WorkIsBounded /\ WorkIsBounded'
      BY <2>1, WorkBounded, PTL
    <3>2. 4 * TurnAttempts * MaxTurns \in Nat
      BY TurnsAdd, BoundsAssumption
    <3>. QED BY <3>1, <3>2 DEF WorkIsBounded
  <2>3. ExecutionStep(e) => Work(e)' < Work(e)
    BY <2>1, OwnWork
  <2>4. Work(e)' <= Work(e)
    <3>1. ASSUME NEW f \in Execution, ExecutionStep(f) PROVE Work(e)' <= Work(e)
      BY <2>1, <2>2, <3>1, OwnWork, OtherWork
    <3>. QED BY <2>1, <3>1, WebWork DEF Next
  <2>. QED BY <2>3, <2>4
<1>2. TypeInv => WorkIsBounded
  BY WorkBounded
<1>. QED BY <1>1, <1>2, TypeInvariance, PTL DEF Spec, WorkIsUsedUp
===============================================================================
