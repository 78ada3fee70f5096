-------------------------- MODULE Workspace_proofs --------------------------
(***************************************************************************)
(* Proofs about what belongs to a workspace: its repositories and its      *)
(* members.                                                                *)
(*                                                                         *)
(* RepositoryIndex, for any repositories, files, syncs and attempts.  What *)
(* makes the properties inductive: a sync request that exists belongs to   *)
(* the live repository row (SyncsOfRepo), the chunks an attempt has stored *)
(* are in its version (StoredIsThere), and an attempt that works and is    *)
(* not late is the one its workflow waits for (OnlyCurrentWorks).          *)
(*                                                                         *)
(* WorkspaceAccess, for any users, workspaces, sessions and requests in    *)
(* flight.  Rows only ever grow (Grows): a row keeps its user and its      *)
(* workspace, an owner's stays as it is and nobody becomes one.  So what a *)
(* request has found out (TaskOK) survives whatever the others do, and a   *)
(* sign-in is alone with the session it is going to create (Alone, Held).  *)
(***************************************************************************)
EXTENDS RepositoryIndex, WorkspaceAccess, TLAPS, WellFoundedInduction, FiniteSetTheorems
Unstarted == {"none", "requested", "lost"}

SyncsOfRepo ==
  /\ \A s \in Syncs : owner[s] \in {NoRepo, repo}
  /\ \A s \in Syncs : wf[s] = "none" => owner[s] = NoRepo

UnstartedIsIdle ==
  \A a \in Attempts : wf[a[1]] \in Unstarted => pc[a] = "idle"

StoredIsThere ==
  \A a \in Attempts :
    /\ pc[a] \in {"storing", "flipping"} /\ Live(a[1]) => got[a] \ left[a] \subseteq chunks[a[1]]
    /\ pc[a] = "flipping" => left[a] = {}

Whole == \A s \in Syncs : Cardinality(chunks[s]) >= fileCount[s]

WholeInv == TypeOK /\ SyncsOfRepo /\ UnstartedIsIdle /\ StoredIsThere /\ Whole

USE DEF hub, syncVars, wfVars, versionVars, attVars

LEMMA AttemptParts ==
  /\ \A a \in Attempts : a[1] \in Syncs /\ a[2] \in 1 .. MaxAttempts /\ a = <<a[1], a[2]>>
  /\ \A s \in Syncs, k \in 1 .. MaxAttempts :
       <<s, k>> \in Attempts /\ <<s, k>>[1] = s /\ <<s, k>>[2] = k
BY DEF Attempts

-------------------------------------------------------------------------------
(* Types *)

LEMMA InitType == Init => TypeOK
<1>. SUFFICES ASSUME Init PROVE TypeOK
  OBVIOUS
<1>1. 0 \in 0 .. MaxAttempts /\ {} \in SUBSET Files /\ {} \in SUBSET Syncs
  BY IndexAssumption
<1>. QED BY <1>1 DEF Init, TypeOK

LEMMA PageType == ASSUME TypeOK, Page PROVE TypeOK'
<1>1. CASE Connects
  BY <1>1 DEF Connects, TypeOK
<1>2. CASE Uninstalls
  BY <1>2 DEF Uninstalls, TypeOK
<1>3. CASE DeletesRepo
  BY <1>3 DEF DeletesRepo, TypeOK
<1>. QED BY <1>1, <1>2, <1>3 DEF Page

LEMMA EndsType ==
  ASSUME TypeOK, NEW a \in Attempts, NEW how \in Over, Ends(a, how)
  PROVE  /\ pc' \in [Attempts -> {"idle"} \union Working \union Over]
         /\ got' \in [Attempts -> SUBSET Files] /\ left' \in [Attempts -> SUBSET Files]
         /\ seen' \in [Attempts -> SUBSET Syncs] /\ late' \in [Attempts -> BOOLEAN]
BY DEF Ends, TypeOK, Over

LEMMA ActivityType ==
  ASSUME TypeOK, NEW a \in Attempts, Activity(a)
  PROVE  TypeOK'
<1>0. a[1] \in Syncs
  BY AttemptParts
<1>1. CASE Begins(a)
  <2>1. CASE Goes(a, "running") /\ status' = [status EXCEPT ![a[1]] = "running"]
    BY <1>0, <1>1, <2>1 DEF Begins, Goes, TypeOK, Working
  <2>2. CASE Ends(a, "thrown") /\ UNCHANGED status
    BY <1>0, <1>1, <2>2, EndsType DEF Begins, TypeOK, Over
  <2>3. CASE Ends(a, "refused") /\ status' = [status EXCEPT ![a[1]] = "failed"]
    BY <1>0, <1>1, <2>3, EndsType DEF Begins, TypeOK, Over
  <2>. QED BY <1>1, <2>1, <2>2, <2>3 DEF Begins
<1>2. CASE BuildsVersion(a)
  <2>1. CASE Ends(a, "thrown") /\ UNCHANGED built
    BY <1>0, <1>2, <2>1, EndsType DEF BuildsVersion, TypeOK, Over
  <2>2. CASE ~(Ends(a, "thrown") /\ UNCHANGED built)
    BY <1>0, <1>2, <2>2 DEF BuildsVersion, TypeOK, Working, Fetched
  <2>. QED BY <2>1, <2>2
<1>3. CASE Stores(a)
  BY <1>0, <1>3 DEF Stores, TypeOK
<1>4. CASE OpensFlip(a)
  BY <1>0, <1>4 DEF OpensFlip, TypeOK, Working, Served, Versions
<1>5. CASE CommitsFlip(a)
  <2>1. Cardinality(got[a]) \in Nat
    BY IndexAssumption, FS_Subset, FS_CardinalityType DEF TypeOK
  <2>. QED BY <1>0, <1>5, <2>1, EndsType DEF CommitsFlip, Flips, TypeOK, Over
<1>6. CASE Fails(a)
  BY <1>0, <1>6, EndsType DEF Fails, TypeOK, Over
<1>7. CASE Dies(a)
  BY <1>0, <1>7, EndsType DEF Dies, TypeOK, Over
<1>. QED BY <1>1, <1>2, <1>3, <1>4, <1>5, <1>6, <1>7 DEF Activity

LEMMA TriesType ==
  ASSUME TypeOK, NEW s \in Syncs, NEW stopped \in [Attempts -> {"idle"} \union Working \union Over],
         TriesAgain(s, stopped)
  PROVE  /\ wf' \in [Syncs -> {"none", "requested", "lost", "running", "marking", "unmarked", "completed", "failed"}]
         /\ try' \in [Syncs -> 0 .. MaxAttempts]
         /\ pc' \in [Attempts -> {"idle"} \union Working \union Over]
<1>1. CASE try[s] < MaxAttempts
  <2>1. try[s] + 1 \in 1 .. MaxAttempts
    BY <1>1, IndexAssumption DEF TypeOK
  <2>2. PICK next \in Attempts : next = <<s, try[s] + 1>>
    BY <2>1, AttemptParts
  <2>3. pc' = [stopped EXCEPT ![next] = "begun"] /\ try' = [try EXCEPT ![s] = try[s] + 1] /\ wf' = wf
    BY <1>1, <2>2 DEF TriesAgain
  <2>. QED BY <2>1, <2>3 DEF TypeOK, Working
<1>2. CASE ~(try[s] < MaxAttempts)
  BY <1>2 DEF TypeOK, TriesAgain
<1>. QED BY <1>1, <1>2

LEMMA SyncType ==
  ASSUME TypeOK, NEW s \in Syncs, CreatesSync(s) \/ Dispatches(s) \/ Workflow(s)
  PROVE  TypeOK'
<1>1. CASE CreatesSync(s)
  BY <1>1 DEF CreatesSync, TypeOK
<1>2. CASE Dispatches(s)
  <2>1. 1 \in 1 .. MaxAttempts /\ <<s, 1>> \in Attempts
    BY IndexAssumption, AttemptParts
  <2>2. PICK first \in Attempts : first = <<s, 1>>
    BY <2>1
  <2>3. pc' = [pc EXCEPT ![first] = "begun"] \/ pc' = pc
    BY <1>2, <2>2 DEF Dispatches
  <2>4. pc' \in [Attempts -> {"idle"} \union Working \union Over]
    BY <2>3 DEF TypeOK, Working
  <2>5. try' \in [Syncs -> 0 .. MaxAttempts]
    BY <1>2, IndexAssumption DEF Dispatches, TypeOK
  <2>. QED BY <1>2, <2>4, <2>5 DEF Dispatches, TypeOK
<1>3. CASE Completes(s)
  BY <1>3 DEF Completes, TypeOK
<1>4. CASE Retries(s)
  <2>1. CASE TriesAgain(s, pc)
    BY <1>4, <2>1, TriesType DEF Retries, TypeOK
  <2>2. CASE wf' = [wf EXCEPT ![s] = "marking"] /\ UNCHANGED <<try, pc>>
    BY <1>4, <2>2 DEF Retries, TypeOK
  <2>. QED BY <1>4, <2>1, <2>2 DEF Retries
<1>5. CASE TimesOut(s)
  <2>1. [pc EXCEPT ![Current(s)] = "dead"] \in [Attempts -> {"idle"} \union Working \union Over]
    BY DEF TypeOK, Over
  <2>2. CASE TriesAgain(s, [pc EXCEPT ![Current(s)] = "dead"]) /\ late' = late
    BY <1>5, <2>1, <2>2, TriesType DEF TimesOut, TypeOK
  <2>3. CASE TriesAgain(s, pc) /\ late' = [late EXCEPT ![Current(s)] = TRUE]
    BY <1>5, <2>3, TriesType DEF TimesOut, TypeOK
  <2>. QED BY <1>5, <2>2, <2>3 DEF TimesOut
<1>6. CASE Marks(s) \/ MarkGivesUp(s)
  BY <1>6 DEF Marks, Marked, MarkGivesUp, TypeOK
<1>. QED BY <1>1, <1>2, <1>3, <1>4, <1>5, <1>6 DEF Workflow

LEMMA TypeNext == TypeOK /\ [Next]_vars => TypeOK'
<1>. SUFFICES ASSUME TypeOK, [Next]_vars PROVE TypeOK'
  OBVIOUS
<1>1. CASE UNCHANGED vars
  BY <1>1 DEF vars, TypeOK
<1>. QED BY <1>1, PageType, ActivityType, SyncType DEF Next

\* Whatever the syncs of a repository meet, the state is well typed: attempts
\* stay within maximumAttempts, what an attempt holds are files.
THEOREM TypeCorrect == Spec => []TypeOK
BY InitType, TypeNext, PTL DEF Spec

-------------------------------------------------------------------------------
(* What is served is whole *)

LEMMA TriesKeeps ==
  ASSUME TypeOK, NEW s \in Syncs, NEW stopped \in [Attempts -> {"idle"} \union Working \union Over],
         TriesAgain(s, stopped), wf[s] = "running"
  PROVE  /\ wf'[s] \in {wf[s], "marking"} /\ \A t \in Syncs \ {s} : wf'[t] = wf[t]
         /\ \A b \in Attempts : pc'[b] \in {stopped[b], "begun"}
         /\ \A b \in Attempts : b # <<s, try'[s]>> => pc'[b] = stopped[b]
         /\ \A b \in Attempts : b[1] # s => pc'[b] = stopped[b]
         /\ \A t \in Syncs \ {s} : try'[t] = try[t]
         /\ wf'[s] = wf[s] => pc'[<<s, try'[s]>>] = "begun" /\ try'[s] \in 1 .. MaxAttempts
                             /\ try'[s] = try[s] + 1
<1>1. CASE try[s] < MaxAttempts
  <2>1. try[s] + 1 \in 1 .. MaxAttempts
    BY <1>1, IndexAssumption DEF TypeOK
  <2>2. PICK next \in Attempts : next = <<s, try[s] + 1>> /\ next[1] = s
    BY <2>1, AttemptParts
  <2>3. pc' = [stopped EXCEPT ![next] = "begun"] /\ try' = [try EXCEPT ![s] = try[s] + 1] /\ wf' = wf
    BY <1>1, <2>2 DEF TriesAgain
  <2>4. try'[s] = try[s] + 1 /\ <<s, try'[s]>> = next
    BY <2>2, <2>3 DEF TypeOK
  <2>5. \A b \in Attempts : b # next => pc'[b] = stopped[b]
    BY <2>3
  <2>6. pc'[next] = "begun"
    BY <2>3
  <2>. QED BY <2>1, <2>2, <2>3, <2>4, <2>5, <2>6 DEF TypeOK
<1>2. CASE ~(try[s] < MaxAttempts)
  <2>1. wf' = [wf EXCEPT ![s] = "marking"] /\ pc' = stopped /\ try' = try
    BY <1>2 DEF TriesAgain
  <2>2. wf'[s] = "marking" /\ \A t \in Syncs \ {s} : wf'[t] = wf[t]
    BY <2>1 DEF TypeOK
  <2>. QED BY <2>1, <2>2
<1>. QED BY <1>1, <1>2

\* What a sync's own steps leave alone.
LEMMA SyncFrame ==
  ASSUME TypeOK, NEW s \in Syncs, Dispatches(s) \/ Workflow(s)
  PROVE  /\ UNCHANGED <<hub, owner, versionVars, got, left, seen>>
         /\ \A t \in Syncs \ {s} : wf'[t] = wf[t] /\ try'[t] = try[t] /\ status'[t] = status[t]
         /\ wf[s] # "none" /\ wf'[s] # "none"
         /\ wf'[s] \in Unstarted => wf[s] \in Unstarted /\ pc' = pc
         /\ \A b \in Attempts : b[1] # s => pc'[b] = pc[b] /\ late'[b] = late[b]
         /\ \A b \in Attempts : pc'[b] \in {pc[b], "begun", "dead"} /\ (late[b] => late'[b])
<1>1. CASE Dispatches(s)
  <2>1. PICK first \in Attempts : first = <<s, 1>> /\ first[1] = s
    <3>1. 1 \in 1 .. MaxAttempts
      BY IndexAssumption
    <3>. QED BY <3>1, AttemptParts
  <2>2. pc' = [pc EXCEPT ![first] = "begun"] \/ pc' = pc
    BY <1>1, <2>1 DEF Dispatches
  <2>3. \A b \in Attempts : pc'[b] = pc[b] \/ (b = first /\ pc'[b] = "begun")
    BY <2>2 DEF TypeOK
  <2>4. /\ wf[s] = "requested" /\ wf'[s] \in {"running", "lost"} /\ (wf'[s] = "lost" => pc' = pc)
        /\ \A t \in Syncs \ {s} : wf'[t] = wf[t] /\ try'[t] = try[t]
    BY <1>1 DEF Dispatches, TypeOK
  <2>. QED BY <1>1, <2>1, <2>3, <2>4 DEF Dispatches, Unstarted
<1>2. CASE Completes(s)
  BY <1>2 DEF Completes, TypeOK, Unstarted
<1>3. CASE Retries(s)
  <2>1. CASE TriesAgain(s, pc)
    <3>1. wf[s] = "running"
      BY <1>3 DEF Retries
    <3>2. pc \in [Attempts -> {"idle"} \union Working \union Over]
      BY DEF TypeOK
    <3>3. /\ \A b \in Attempts : pc'[b] \in {pc[b], "begun"} /\ (b[1] # s => pc'[b] = pc[b])
          /\ \A t \in Syncs \ {s} : wf'[t] = wf[t] /\ try'[t] = try[t]
          /\ wf'[s] \in {wf[s], "marking"}
      BY <2>1, <3>1, <3>2, TriesKeeps
    <3>. QED BY <1>3, <3>1, <3>3 DEF Retries, Unstarted
  <2>2. CASE wf' = [wf EXCEPT ![s] = "marking"] /\ UNCHANGED <<try, pc>>
    BY <1>3, <2>2 DEF Retries, TypeOK, Unstarted
  <2>. QED BY <1>3, <2>1, <2>2 DEF Retries
<1>4. CASE TimesOut(s)
  <2>0. wf[s] = "running"
    BY <1>4 DEF TimesOut
  <2>1. CASE TriesAgain(s, [pc EXCEPT ![Current(s)] = "dead"]) /\ late' = late
    <3>1. PICK stopped : stopped = [pc EXCEPT ![Current(s)] = "dead"]
      OBVIOUS
    <3>2. /\ stopped \in [Attempts -> {"idle"} \union Working \union Over]
          /\ \A b \in Attempts : stopped[b] \in {pc[b], "dead"} /\ (b[1] # s => stopped[b] = pc[b])
      <4>1. \A b \in Attempts : b[1] # s => b # Current(s)
        BY DEF Current
      <4>. QED BY <3>1, <4>1 DEF TypeOK, Over
    <3>3. TriesAgain(s, stopped)
      BY <2>1, <3>1
    <3>6. stopped \in [Attempts -> {"idle"} \union Working \union Over]
      BY <3>2
    <3>4. /\ \A b \in Attempts : pc'[b] \in {stopped[b], "begun"}
          /\ \A b \in Attempts : b[1] # s => pc'[b] = stopped[b]
          /\ \A t \in Syncs \ {s} : wf'[t] = wf[t] /\ try'[t] = try[t]
          /\ wf'[s] \in {wf[s], "marking"}
      BY <2>0, <3>6, <3>3, TriesKeeps
    <3>5. \A b \in Attempts : pc'[b] \in {pc[b], "begun", "dead"} /\ (b[1] # s => pc'[b] = pc[b])
      BY <3>2, <3>4
    <3>. QED BY <1>4, <2>0, <2>1, <3>4, <3>5 DEF TimesOut, Unstarted
  <2>2. CASE TriesAgain(s, pc) /\ late' = [late EXCEPT ![Current(s)] = TRUE]
    <3>0. pc \in [Attempts -> {"idle"} \union Working \union Over]
      BY DEF TypeOK
    <3>1. /\ \A b \in Attempts : pc'[b] \in {pc[b], "begun"} /\ (b[1] # s => pc'[b] = pc[b])
          /\ \A t \in Syncs \ {s} : wf'[t] = wf[t] /\ try'[t] = try[t]
          /\ wf'[s] \in {wf[s], "marking"}
      BY <2>0, <2>2, <3>0, TriesKeeps
    <3>2. \A b \in Attempts : (late[b] => late'[b]) /\ (b[1] # s => late'[b] = late[b])
      <4>1. \A b \in Attempts : b[1] # s => b # Current(s)
        BY DEF Current
      <4>. QED BY <2>2, <4>1 DEF TypeOK
    <3>. QED BY <1>4, <2>0, <3>1, <3>2 DEF TimesOut, Unstarted
  <2>. QED BY <1>4, <2>1, <2>2 DEF TimesOut
<1>5. CASE Marks(s) \/ MarkGivesUp(s)
  BY <1>5 DEF Marks, Marked, MarkGivesUp, TypeOK, Unstarted
<1>. QED BY <1>1, <1>2, <1>3, <1>4, <1>5 DEF Workflow

\* What the steps of an attempt leave alone.
LEMMA ActivityFrame ==
  ASSUME TypeOK, NEW a \in Attempts, Activity(a)
  PROVE  /\ UNCHANGED <<hub, owner, wfVars, late>>
         /\ pc[a] \in Working /\ pc'[a] # "idle" /\ pc'[a] # "begun"
         /\ \A b \in Attempts \ {a} : pc'[b] = pc[b] /\ got'[b] = got[b] /\ left'[b] = left[b]
         /\ \A s \in Syncs \ {a[1]} : chunks'[s] = chunks[s] /\ fileCount'[s] = fileCount[s]
                                      /\ status'[s] = status[s]
         /\ \A s \in Syncs : chunks[s] \subseteq chunks'[s]
<1>0. a[1] \in Syncs
  BY AttemptParts
<1>1. CASE Begins(a)
  BY <1>0, <1>1 DEF Begins, Ends, Goes, TypeOK, Working
<1>2. CASE BuildsVersion(a)
  BY <1>0, <1>2 DEF BuildsVersion, Ends, TypeOK, Working
<1>3. CASE Stores(a)
  BY <1>0, <1>3 DEF Stores, TypeOK, Working
<1>4. CASE OpensFlip(a)
  BY <1>0, <1>4 DEF OpensFlip, TypeOK, Working
<1>5. CASE CommitsFlip(a)
  BY <1>0, <1>5 DEF CommitsFlip, Flips, Ends, TypeOK, Working
<1>6. CASE Fails(a)
  BY <1>0, <1>6 DEF Fails, Ends, TypeOK
<1>7. CASE Dies(a)
  BY <1>0, <1>7 DEF Dies, Ends, TypeOK
<1>. QED BY <1>1, <1>2, <1>3, <1>4, <1>5, <1>6, <1>7 DEF Activity

LEMMA LiveKept ==
  ASSUME TypeOK, SyncsOfRepo, Page
  PROVE  /\ SyncsOfRepo'
         /\ \A s \in Syncs : Live(s)' => Live(s) /\ chunks'[s] = chunks[s]
<1>1. CASE Connects
  <2>1. repo = NoRepo => \A s \in Syncs : owner[s] = NoRepo
    BY DEF SyncsOfRepo
  <2>. QED BY <1>1, <2>1 DEF Connects, SyncsOfRepo, Live, TypeOK
<1>2. CASE Uninstalls
  BY <1>2 DEF Uninstalls, SyncsOfRepo, Live, TypeOK
<1>3. CASE DeletesRepo
  <2>1. \A s \in Syncs : owner'[s] = NoRepo
    BY <1>3 DEF DeletesRepo, SyncsOfRepo, Live, TypeOK
  <2>. QED BY <1>3, <2>1 DEF DeletesRepo, SyncsOfRepo, Live
<1>. QED BY <1>1, <1>2, <1>3 DEF Page

LEMMA SyncsOfRepoKept == ASSUME TypeOK, SyncsOfRepo, [Next]_vars PROVE SyncsOfRepo'
<1>1. CASE UNCHANGED vars
  BY <1>1 DEF vars, SyncsOfRepo
<1>2. CASE Page
  BY <1>2, LiveKept
<1>3. ASSUME NEW s \in Syncs, CreatesSync(s) PROVE SyncsOfRepo'
  BY <1>3 DEF CreatesSync, SyncsOfRepo, TypeOK
<1>4. ASSUME NEW s \in Syncs, Dispatches(s) \/ Workflow(s) PROVE SyncsOfRepo'
  <2>1. owner' = owner /\ repo' = repo
        /\ \A t \in Syncs : wf'[t] = "none" => wf[t] = "none"
    BY <1>4, SyncFrame
  <2>. QED BY <2>1 DEF SyncsOfRepo
<1>5. ASSUME NEW a \in Attempts, Activity(a) PROVE SyncsOfRepo'
  <2>1. owner' = owner /\ repo' = repo /\ wf' = wf
    BY <1>5, ActivityFrame
  <2>. QED BY <2>1 DEF SyncsOfRepo
<1>. QED BY <1>1, <1>2, <1>3, <1>4, <1>5 DEF Next

LEMMA UnstartedKept ==
  ASSUME TypeOK, UnstartedIsIdle, [Next]_vars
  PROVE  UnstartedIsIdle'
<1>1. CASE UNCHANGED vars
  BY <1>1 DEF vars, UnstartedIsIdle
<1>2. CASE Page
  <2>1. UNCHANGED <<wf, pc>>
    BY <1>2 DEF Page, Connects, Uninstalls, DeletesRepo
  <2>. QED BY <2>1 DEF UnstartedIsIdle
<1>3. ASSUME NEW s \in Syncs, CreatesSync(s) PROVE UnstartedIsIdle'
  BY <1>3 DEF CreatesSync, UnstartedIsIdle, TypeOK, Unstarted
<1>4. ASSUME NEW s \in Syncs, Dispatches(s) \/ Workflow(s) PROVE UnstartedIsIdle'
  <2>1. /\ \A t \in Syncs \ {s} : wf'[t] = wf[t]
        /\ wf'[s] \in Unstarted => wf[s] \in Unstarted /\ pc' = pc
        /\ \A b \in Attempts : b[1] # s => pc'[b] = pc[b]
    BY <1>4, SyncFrame
  <2>. QED BY <2>1, AttemptParts DEF UnstartedIsIdle
<1>5. ASSUME NEW a \in Attempts, Activity(a) PROVE UnstartedIsIdle'
  <2>1. /\ wf' = wf /\ pc[a] \in Working
        /\ \A b \in Attempts \ {a} : pc'[b] = pc[b]
    BY <1>5, ActivityFrame
  <2>2. wf[a[1]] \notin Unstarted
    BY <2>1 DEF UnstartedIsIdle, Working
  <2>. QED BY <2>1, <2>2 DEF UnstartedIsIdle
<1>. QED BY <1>1, <1>2, <1>3, <1>4, <1>5 DEF Next

LEMMA StoredKept ==
  ASSUME WholeInv, [Next]_vars
  PROVE  StoredIsThere'
<1>. USE DEF WholeInv
<1>1. CASE UNCHANGED vars
  BY <1>1 DEF vars, StoredIsThere, Live
<1>2. CASE Page
  <2>1. UNCHANGED <<pc, got, left>>
    BY <1>2 DEF Page, Connects, Uninstalls, DeletesRepo
  <2>. QED BY <1>2, <2>1, LiveKept, AttemptParts DEF StoredIsThere
<1>3. ASSUME NEW s \in Syncs, CreatesSync(s) PROVE StoredIsThere'
  <2>1. \A a \in Attempts : a[1] = s => pc[a] = "idle"
    BY <1>3 DEF CreatesSync, UnstartedIsIdle, Unstarted
  <2>2. UNCHANGED <<repo, pc, got, left, chunks>> /\ \A t \in Syncs \ {s} : owner'[t] = owner[t]
    BY <1>3 DEF CreatesSync, TypeOK
  <2>. QED BY <2>1, <2>2, AttemptParts DEF StoredIsThere, Live
<1>4. ASSUME NEW s \in Syncs, Dispatches(s) \/ Workflow(s) PROVE StoredIsThere'
  <2>1. /\ UNCHANGED <<repo, owner, chunks, got, left>>
        /\ \A b \in Attempts : pc'[b] \in {pc[b], "begun", "dead"}
    BY <1>4, SyncFrame
  <2>. QED BY <2>1 DEF StoredIsThere, Live
<1>5. ASSUME NEW a \in Attempts, Activity(a) PROVE StoredIsThere'
  <2>0. a[1] \in Syncs
    BY AttemptParts
  <2>1. /\ UNCHANGED <<repo, owner>>
        /\ \A b \in Attempts \ {a} : pc'[b] = pc[b] /\ got'[b] = got[b] /\ left'[b] = left[b]
        /\ \A s \in Syncs : chunks[s] \subseteq chunks'[s]
    BY <1>5, ActivityFrame
  <2>2. /\ pc'[a] \in {"storing", "flipping"} /\ Live(a[1])' => got'[a] \ left'[a] \subseteq chunks'[a[1]]
        /\ pc'[a] = "flipping" => left'[a] = {}
    <3>1. CASE Begins(a)
      BY <3>1 DEF Begins, Ends, Goes, TypeOK
    <3>2. CASE BuildsVersion(a)
      BY <3>2 DEF BuildsVersion, Ends, TypeOK
    <3>3. CASE Stores(a)
      BY <2>0, <3>3 DEF Stores, TypeOK, StoredIsThere
    <3>4. CASE OpensFlip(a)
      BY <2>0, <2>1, <3>4 DEF OpensFlip, TypeOK, StoredIsThere, Live
    <3>5. CASE CommitsFlip(a)
      BY <3>5 DEF CommitsFlip, Ends, TypeOK
    <3>6. CASE Fails(a)
      BY <3>6 DEF Fails, Ends, TypeOK
    <3>7. CASE Dies(a)
      BY <3>7 DEF Dies, Ends, TypeOK
    <3>. QED BY <1>5, <3>1, <3>2, <3>3, <3>4, <3>5, <3>6, <3>7 DEF Activity
  <2>3. \A b \in Attempts \ {a} :
          /\ pc'[b] \in {"storing", "flipping"} /\ Live(b[1])' => got'[b] \ left'[b] \subseteq chunks'[b[1]]
          /\ pc'[b] = "flipping" => left'[b] = {}
    BY <2>1, AttemptParts DEF StoredIsThere, Live
  <2>. QED BY <2>2, <2>3 DEF StoredIsThere
<1>. QED BY <1>1, <1>2, <1>3, <1>4, <1>5 DEF Next

LEMMA FewerChunks ==
  ASSUME TypeOK, NEW T \in SUBSET Files, NEW U \in SUBSET T
  PROVE  Cardinality(U) \in Nat /\ Cardinality(T) \in Nat /\ Cardinality(U) <= Cardinality(T)
<1>1. IsFiniteSet(T)
  BY IndexAssumption, FS_Subset
<1>. QED BY <1>1, FS_Subset, FS_CardinalityType

LEMMA WholeKept ==
  ASSUME WholeInv, [Next]_vars
  PROVE  Whole'
<1>. USE DEF WholeInv
<1>1. CASE UNCHANGED <<chunks, fileCount>>
  BY <1>1 DEF Whole
<1>2. CASE DeletesRepo
  <2>1. Cardinality({}) = 0
    BY FS_EmptySet
  <2>. QED BY <1>2, <2>1 DEF DeletesRepo, Whole, TypeOK
<1>3. ASSUME NEW a \in Attempts, Activity(a) PROVE Whole'
  <2>0. a[1] \in Syncs /\ TypeOK'
    BY <1>3, AttemptParts, ActivityType
  <2>1. /\ \A s \in Syncs \ {a[1]} : chunks'[s] = chunks[s] /\ fileCount'[s] = fileCount[s]
        /\ \A s \in Syncs : chunks[s] \subseteq chunks'[s]
    BY <1>3, ActivityFrame
  <2>2. Cardinality(chunks'[a[1]]) >= fileCount'[a[1]]
    <3>1. CASE CommitsFlip(a)
      <4>1. got[a] \subseteq chunks[a[1]] /\ chunks[a[1]] \subseteq Files
        BY <2>0, <3>1 DEF CommitsFlip, StoredIsThere, TypeOK
      <4>2. fileCount'[a[1]] = Cardinality(got[a]) /\ chunks' = chunks
        BY <2>0, <3>1 DEF CommitsFlip, Flips, TypeOK
      <4>. QED BY <4>1, <4>2, FewerChunks
    <3>2. CASE fileCount' = fileCount
      <4>1. Cardinality(chunks[a[1]]) >= fileCount[a[1]] /\ fileCount[a[1]] \in Nat
        BY <2>0 DEF Whole, TypeOK
      <4>2. /\ Cardinality(chunks[a[1]]) \in Nat /\ Cardinality(chunks'[a[1]]) \in Nat
            /\ Cardinality(chunks[a[1]]) <= Cardinality(chunks'[a[1]])
        <5>1. chunks[a[1]] \subseteq chunks'[a[1]] /\ chunks'[a[1]] \in SUBSET Files
          BY <2>0, <2>1 DEF TypeOK
        <5>. QED BY <5>1, FewerChunks
      <4>. QED BY <3>2, <4>1, <4>2
    <3>3. CommitsFlip(a) \/ fileCount' = fileCount
      BY <1>3 DEF Activity, Begins, BuildsVersion, Stores, OpensFlip, Fails, Dies
    <3>. QED BY <3>1, <3>2, <3>3
  <2>3. \A s \in Syncs \ {a[1]} : Cardinality(chunks'[s]) >= fileCount'[s]
    BY <2>1 DEF Whole
  <2>. QED BY <2>2, <2>3 DEF Whole
<1>4. CASE Connects \/ Uninstalls
  BY <1>1, <1>4 DEF Connects, Uninstalls
<1>5. ASSUME NEW s \in Syncs, CreatesSync(s) \/ Dispatches(s) \/ Workflow(s) PROVE Whole'
  BY <1>1, <1>5 DEF CreatesSync, Dispatches, Workflow, Completes, Retries, TimesOut,
                    Marks, Marked, MarkGivesUp
<1>6. CASE UNCHANGED vars
  BY <1>1, <1>6 DEF vars
<1>. QED BY <1>2, <1>3, <1>4, <1>5, <1>6 DEF Next, Page

LEMMA WholeInvInit == Init => WholeInv
<1>. SUFFICES ASSUME Init PROVE WholeInv
  OBVIOUS
<1>1. Cardinality({}) = 0
  BY FS_EmptySet
<1>2. SyncsOfRepo /\ UnstartedIsIdle /\ StoredIsThere
  BY AttemptParts DEF Init, SyncsOfRepo, UnstartedIsIdle, StoredIsThere
<1>3. Whole
  BY <1>1 DEF Init, Whole
<1>. QED BY <1>2, <1>3, InitType DEF WholeInv

LEMMA WholeInvNext == WholeInv /\ [Next]_vars => WholeInv'
BY TypeNext, SyncsOfRepoKept, UnstartedKept, StoredKept, WholeKept DEF WholeInv

LEMMA WholeInvariant == Spec => []WholeInv
BY WholeInvInit, WholeInvNext, PTL DEF Spec

\* A version that is served, or that the agent's search reads, holds the chunks of
\* as many files as it says it has, whichever attempts wrote them and however they
\* ended (runRepositoryIndexPipeline), for any number of syncs, attempts and files.
THEOREM ServedIsAlwaysWhole == Spec => []ServedIsWhole
<1>1. WholeInv => ServedIsWhole
  BY DEF WholeInv, Whole, ServedIsWhole, Served, Versions, AgentReads
<1>. QED BY <1>1, WholeInvariant, PTL

-------------------------------------------------------------------------------
(* A repository with a snapshot keeps one *)

LEMMA ServedKept ==
  ASSUME TypeOK, SyncsOfRepo, [Next]_vars, repo' = repo, Served(repo) # {}
  PROVE  Served(repo)' # {}
<1>0. PICK v \in Syncs : repo # NoRepo /\ owner[v] = repo /\ built[v] # "none" /\ active[v]
  BY DEF Served, Versions
<1>1. SUFFICES \E u \in Syncs : owner'[u] = repo /\ built'[u] # "none" /\ active'[u]
  BY <1>0 DEF Served, Versions
<1>2. CASE UNCHANGED <<owner, built, active>>
  BY <1>0, <1>2
<1>3. ASSUME NEW s \in Syncs, CreatesSync(s)
      PROVE  owner'[v] = repo /\ UNCHANGED <<built, active>>
  <2>1. s # v
    BY <1>0, <1>3 DEF CreatesSync, SyncsOfRepo
  <2>. QED BY <1>0, <1>3, <2>1 DEF CreatesSync, TypeOK
<1>4. ASSUME NEW a \in Attempts, Activity(a), ~UNCHANGED <<owner, built, active>>
      PROVE  \E u \in Syncs : owner'[u] = repo /\ built'[u] # "none" /\ active'[u]
  <2>0. a[1] \in Syncs /\ owner' = owner
    BY <1>4, AttemptParts, ActivityFrame
  <2>1. CASE BuildsVersion(a)
    <3>1. built'[v] # "none" /\ active' = active
      BY <1>0, <2>0, <2>1 DEF BuildsVersion, TypeOK
    <3>. QED BY <1>0, <2>0, <3>1
  <2>2. CASE Fails(a)
    <3>1. built'[v] # "none" /\ active' = active
      BY <1>0, <2>0, <2>2 DEF Fails, TypeOK
    <3>. QED BY <1>0, <2>0, <3>1
  <2>3. CASE CommitsFlip(a)
    <3>1. built'[a[1]] = "active" /\ active'[a[1]] /\ owner[a[1]] = repo
      BY <2>0, <2>3 DEF CommitsFlip, Flips, Live, TypeOK
    <3>. QED BY <2>0, <3>1
  <2>4. CASE Begins(a) \/ Stores(a) \/ OpensFlip(a) \/ Dies(a)
    BY <1>4, <2>4 DEF Begins, Stores, OpensFlip, Dies
  <2>. QED BY <1>4, <2>1, <2>2, <2>3, <2>4 DEF Activity
<1>5. CASE Page
  <2>1. ~DeletesRepo
    BY <1>0 DEF DeletesRepo
  <2>. QED BY <1>2, <1>5, <2>1 DEF Page, Connects, Uninstalls
<1>6. ASSUME NEW s \in Syncs, Dispatches(s) \/ Workflow(s)
      PROVE  UNCHANGED <<owner, built, active>>
  BY <1>6, SyncFrame
<1>7. CASE UNCHANGED vars
  BY <1>2, <1>7 DEF vars
<1>. QED BY <1>0, <1>2, <1>3, <1>4, <1>5, <1>6, <1>7 DEF Next

\* Once a repository row has a snapshot to serve it always has one, however many
\* syncs fail, are retried, come late or flip at once (runRepositoryIndexPipeline).
THEOREM StaysAlwaysServed == Spec => StaysServed
<1>1. WholeInv /\ [Next]_vars => [Served(repo) # {} /\ repo' = repo => Served(repo)' # {}]_vars
  BY ServedKept DEF WholeInv
<1>. QED BY <1>1, WholeInvariant, PTL DEF Spec, StaysServed

-------------------------------------------------------------------------------
(* The health of a repository settles *)

NoneLate(s) == \A k \in 1 .. MaxAttempts : ~late[<<s, k>>]

OnlyCurrentWorks ==
  \A a \in Attempts : pc[a] \in Working /\ ~late[a] => wf[a[1]] = "running" /\ a[2] = try[a[1]]

ReturnedIsCompleted ==
  \A s \in Syncs :
    /\ NoneLate(s) /\ owner[s] # NoRepo
    /\ wf[s] = "completed" \/ (wf[s] = "running" /\ try[s] \in 1 .. MaxAttempts /\ pc[Current(s)] = "returned")
    => status[s] = "completed"

FailedIsMarked ==
  \A s \in Syncs : NoneLate(s) /\ wf[s] = "failed" => status[s] \notin {"pending", "running"}

CompletedIsServed ==
  (\E s \in Syncs : owner[s] # NoRepo /\ status[s] = "completed") => Served(repo) # {}

RunningHasTry == \A s \in Syncs : wf[s] = "running" => try[s] \in 1 .. MaxAttempts

HealthInv ==
  /\ WholeInv
  /\ RunningHasTry
  /\ OnlyCurrentWorks
  /\ ReturnedIsCompleted
  /\ FailedIsMarked
  /\ CompletedIsServed

LEMMA HealthInvInit == Init => HealthInv
<1>. SUFFICES ASSUME Init PROVE HealthInv
  OBVIOUS
<1>1. /\ RunningHasTry /\ OnlyCurrentWorks /\ ReturnedIsCompleted /\ FailedIsMarked
      /\ CompletedIsServed
  BY AttemptParts
  DEF Init, RunningHasTry, OnlyCurrentWorks, ReturnedIsCompleted, FailedIsMarked, CompletedIsServed,
      Working
<1>. QED BY <1>1, WholeInvInit DEF HealthInv

LEMMA RunningKept ==
  ASSUME TypeOK, RunningHasTry, [Next]_vars
  PROVE  RunningHasTry'
<1>1. CASE UNCHANGED wfVars
  BY <1>1 DEF RunningHasTry
<1>2. ASSUME NEW s \in Syncs, CreatesSync(s) PROVE RunningHasTry'
  BY <1>2 DEF CreatesSync, RunningHasTry, TypeOK
<1>3. ASSUME NEW s \in Syncs, Dispatches(s) \/ Workflow(s) PROVE RunningHasTry'
  <2>1. \A t \in Syncs \ {s} : wf'[t] = wf[t] /\ try'[t] = try[t]
    BY <1>3, SyncFrame
  <2>2. wf'[s] = "running" => try'[s] \in 1 .. MaxAttempts
    <3>1. CASE Dispatches(s)
      BY <3>1, IndexAssumption DEF Dispatches, TypeOK
    <3>2. CASE Retries(s) \/ TimesOut(s)
      <4>1. wf[s] = "running" /\ pc \in [Attempts -> {"idle"} \union Working \union Over]
            /\ [pc EXCEPT ![Current(s)] = "dead"] \in [Attempts -> {"idle"} \union Working \union Over]
        BY <3>2 DEF Retries, TimesOut, TypeOK, Over
      <4>2. CASE TriesAgain(s, pc)
        BY <4>1, <4>2, TriesKeeps
      <4>3. CASE TriesAgain(s, [pc EXCEPT ![Current(s)] = "dead"])
        BY <4>1, <4>3, TriesKeeps
      <4>4. CASE wf' = [wf EXCEPT ![s] = "marking"]
        BY <4>4 DEF TypeOK
      <4>. QED BY <3>2, <4>2, <4>3, <4>4 DEF Retries, TimesOut
    <3>3. CASE Completes(s) \/ Marks(s) \/ MarkGivesUp(s)
      BY <3>3 DEF Completes, Marks, Marked, MarkGivesUp, TypeOK
    <3>. QED BY <1>3, <3>1, <3>2, <3>3 DEF Workflow
  <2>. QED BY <2>1, <2>2 DEF RunningHasTry
<1>4. ASSUME NEW a \in Attempts, Activity(a) PROVE UNCHANGED wfVars
  BY <1>4, ActivityFrame
<1>5. CASE Page
  BY <1>1, <1>5 DEF Page, Connects, Uninstalls, DeletesRepo
<1>. QED BY <1>1, <1>2, <1>3, <1>4, <1>5 DEF Next, vars

\* Where the attempts of a sync stand after a step of its workflow.
LEMMA WorkflowStep ==
  ASSUME HealthInv, NEW s \in Syncs, Dispatches(s) \/ Workflow(s)
  PROVE  /\ \A k \in 1 .. MaxAttempts :
              pc'[<<s, k>>] \in Working /\ ~late'[<<s, k>>] => wf'[s] = "running" /\ k = try'[s]
         /\ NoneLate(s)' => NoneLate(s)
         /\ wf'[s] = "running" => try'[s] \in 1 .. MaxAttempts /\ pc'[<<s, try'[s]>>] = "begun"
         /\ wf'[s] = "completed" => Completes(s)
         /\ wf'[s] = "failed" => Marks(s)
<1>. USE DEF HealthInv, WholeInv
<1>0. /\ \A k \in 1 .. MaxAttempts : <<s, k>> \in Attempts /\ <<s, k>>[1] = s /\ <<s, k>>[2] = k
      /\ RunningHasTry
  BY AttemptParts
<1>a. \A k \in 1 .. MaxAttempts :
        pc[<<s, k>>] \in Working /\ ~late[<<s, k>>] => wf[s] = "running" /\ k = try[s]
  BY <1>0 DEF OnlyCurrentWorks
<1>b. \A k \in 1 .. MaxAttempts : late[<<s, k>>] => late'[<<s, k>>]
  BY <1>0, SyncFrame
<1>c. NoneLate(s)' => NoneLate(s)
  BY <1>b DEF NoneLate
<1>1. CASE Dispatches(s)
  <2>1. \A k \in 1 .. MaxAttempts : pc[<<s, k>>] = "idle"
    BY <1>0, <1>1 DEF Dispatches, UnstartedIsIdle, Unstarted
  <2>2. PICK first \in Attempts : first = <<s, 1>>
    <3>1. 1 \in 1 .. MaxAttempts
      BY IndexAssumption
    <3>. QED BY <1>0, <3>1
  <2>3. CASE /\ wf' = [wf EXCEPT ![s] = "running"] /\ try' = [try EXCEPT ![s] = 1]
             /\ pc' = [pc EXCEPT ![first] = "begun"]
    <3>1. wf'[s] = "running" /\ try'[s] = 1 /\ pc'[first] = "begun"
          /\ \A b \in Attempts \ {first} : pc'[b] = pc[b]
      BY <2>3 DEF TypeOK
    <3>2. \A k \in 1 .. MaxAttempts : k # 1 => pc'[<<s, k>>] = "idle"
      BY <1>0, <2>1, <2>2, <3>1
    <3>3. 1 \in 1 .. MaxAttempts
      BY IndexAssumption
    <3>. QED BY <1>c, <2>2, <3>1, <3>2, <3>3 DEF Working
  <2>4. CASE wf' = [wf EXCEPT ![s] = "lost"] /\ UNCHANGED <<try, pc>>
    <3>1. wf'[s] = "lost"
      BY <2>4 DEF TypeOK
    <3>. QED BY <1>c, <2>1, <2>4, <3>1 DEF Working
  <2>. QED BY <1>1, <2>2, <2>3, <2>4 DEF Dispatches
<1>2. CASE Completes(s)
  <2>1. wf'[s] = "completed" /\ pc' = pc /\ late' = late /\ pc[<<s, try[s]>>] = "returned"
    BY <1>2 DEF Completes, Current, TypeOK
  <2>. QED BY <1>2, <1>a, <1>c, <2>1 DEF Working
<1>3. CASE Retries(s) \/ TimesOut(s)
  <2>1. wf[s] = "running" /\ try[s] \in 1 .. MaxAttempts
    BY <1>3 DEF Retries, TimesOut, RunningHasTry
  <2>2. PICK cur \in Attempts : cur = <<s, try[s]>> /\ cur = Current(s)
    BY <1>0, <2>1 DEF Current
  <2>3. /\ \A k \in 1 .. MaxAttempts : pc[<<s, k>>] \in Working => late'[<<s, k>>]
        /\ \/ TriesAgain(s, pc) \/ TriesAgain(s, [pc EXCEPT ![cur] = "dead"])
           \/ wf' = [wf EXCEPT ![s] = "marking"] /\ UNCHANGED <<try, pc>>
    <3>1. CASE TimesOut(s) /\ pc[cur] \in Working /\ late' = [late EXCEPT ![cur] = TRUE]
               /\ TriesAgain(s, pc)
      <4>1. late'[cur]
        BY <3>1 DEF TypeOK
      <4>2. \A k \in 1 .. MaxAttempts : pc[<<s, k>>] \in Working => late[<<s, k>>] \/ k = try[s]
        BY <1>a
      <4>. QED BY <1>b, <2>2, <3>1, <4>1, <4>2
    <3>2. CASE /\ pc[cur] \in Over
               /\ \/ TriesAgain(s, pc) \/ TriesAgain(s, [pc EXCEPT ![cur] = "dead"])
                  \/ wf' = [wf EXCEPT ![s] = "marking"] /\ UNCHANGED <<try, pc>>
      <4>1. \A k \in 1 .. MaxAttempts : pc[<<s, k>>] \in Working => late[<<s, k>>]
        BY <1>a, <2>2, <3>2 DEF Over, Working
      <4>. QED BY <1>b, <3>2, <4>1
    <3>. QED BY <1>3, <2>2, <3>1, <3>2 DEF Retries, TimesOut, Over
  <2>4. ASSUME NEW stopped \in [Attempts -> {"idle"} \union Working \union Over],
               \A b \in Attempts : stopped[b] \in {pc[b], "dead"}, TriesAgain(s, stopped)
        PROVE  /\ \A k \in 1 .. MaxAttempts :
                    pc'[<<s, k>>] \in Working /\ ~late'[<<s, k>>] => wf'[s] = "running" /\ k = try'[s]
               /\ wf'[s] = "running" => try'[s] \in 1 .. MaxAttempts /\ pc'[<<s, try'[s]>>] = "begun"
               /\ wf'[s] \in {"running", "marking"}
    <3>1. /\ \A b \in Attempts : b # <<s, try'[s]>> => pc'[b] = stopped[b]
          /\ wf'[s] = "running" => try'[s] \in 1 .. MaxAttempts /\ pc'[<<s, try'[s]>>] = "begun"
          /\ wf'[s] \in {"running", "marking"}
      BY <2>1, <2>4, TriesKeeps
    <3>2. \A k \in 1 .. MaxAttempts : k # try'[s] => pc'[<<s, k>>] \in {pc[<<s, k>>], "dead"}
      BY <1>0, <2>4, <3>1
    <3>3. \A k \in 1 .. MaxAttempts : k # try'[s] /\ pc'[<<s, k>>] \in Working => late'[<<s, k>>]
      BY <2>3, <3>2 DEF Working
    <3>4. wf'[s] = "marking" => pc' = stopped
      BY <2>1, <2>4 DEF TriesAgain
    <3>5. wf'[s] = "marking" => \A k \in 1 .. MaxAttempts : pc'[<<s, k>>] \in {pc[<<s, k>>], "dead"}
      BY <1>0, <2>4, <3>4
    <3>6. wf'[s] = "marking" => \A k \in 1 .. MaxAttempts : pc'[<<s, k>>] \in Working => late'[<<s, k>>]
      BY <2>3, <3>5 DEF Working
    <3>. QED BY <3>1, <3>3, <3>6
  <2>5. CASE TriesAgain(s, pc)
    <3>1. pc \in [Attempts -> {"idle"} \union Working \union Over]
      BY DEF TypeOK
    <3>. QED BY <1>c, <2>4, <2>5, <3>1
  <2>6. CASE TriesAgain(s, [pc EXCEPT ![cur] = "dead"])
    <3>1. PICK stopped : stopped = [pc EXCEPT ![cur] = "dead"]
      OBVIOUS
    <3>2. /\ stopped \in [Attempts -> {"idle"} \union Working \union Over]
          /\ \A b \in Attempts : stopped[b] \in {pc[b], "dead"}
      BY <3>1 DEF TypeOK, Over
    <3>3. TriesAgain(s, stopped)
      BY <2>6, <3>1
    <3>. QED BY <1>c, <2>4, <3>2, <3>3
  <2>7. CASE wf' = [wf EXCEPT ![s] = "marking"] /\ UNCHANGED <<try, pc>>
    <3>1. wf'[s] = "marking"
      BY <2>7 DEF TypeOK
    <3>. QED BY <1>c, <2>3, <2>7, <3>1
  <2>. QED BY <2>3, <2>5, <2>6, <2>7
<1>4. CASE Marks(s) \/ MarkGivesUp(s)
  <2>1. /\ wf[s] \in {"marking", "unmarked"} /\ wf'[s] \in {"failed", "unmarked"}
        /\ pc' = pc /\ late' = late /\ (wf'[s] = "failed" => Marks(s))
    BY <1>4 DEF Marks, Marked, MarkGivesUp, TypeOK
  <2>. QED BY <1>4, <1>a, <1>c, <2>1
<1>. QED BY <1>1, <1>2, <1>3, <1>4 DEF Workflow

\* A step of an attempt that is not late is one of the current attempt.
LEMMA ActivityStep ==
  ASSUME HealthInv, NEW a \in Attempts, Activity(a)
  PROVE  /\ ~late[a] => wf[a[1]] = "running" /\ a[2] = try[a[1]] /\ a = Current(a[1])
         /\ UNCHANGED <<repo, owner, wf, try, late>>
         /\ \A b \in Attempts \ {a} : pc'[b] = pc[b]
         /\ \A s \in Syncs \ {a[1]} : status'[s] = status[s]
         /\ pc'[a] = "returned" => status'[a[1]] = "completed"
         /\ status'[a[1]] = "completed" =>
              status[a[1]] = "completed" \/ Served(repo)' # {}
<1>. USE DEF HealthInv, WholeInv
<1>0. a[1] \in Syncs /\ a = <<a[1], a[2]>>
  BY AttemptParts
<1>1. pc[a] \in Working
  BY ActivityFrame
<1>2. pc'[a] = "returned" => CommitsFlip(a)
  BY <1>1 DEF Activity, Begins, BuildsVersion, Stores, OpensFlip, Fails, Dies, Ends, Goes, TypeOK, Working
<1>3. CommitsFlip(a) => status'[a[1]] = "completed" /\ Served(repo)' # {}
  <2>. HAVE CommitsFlip(a)
  <2>1. status'[a[1]] = "completed"
    BY <1>0 DEF CommitsFlip, TypeOK
  <2>2. owner'[a[1]] = repo' /\ repo' # NoRepo /\ built'[a[1]] = "active" /\ active'[a[1]]
    BY <1>0 DEF CommitsFlip, Flips, Live, TypeOK
  <2>. QED BY <1>0, <2>1, <2>2 DEF Served, Versions
<1>4. status'[a[1]] = "completed" => status[a[1]] = "completed" \/ CommitsFlip(a)
  BY <1>0 DEF Activity, Begins, BuildsVersion, Stores, OpensFlip, Fails, Dies, TypeOK
<1>5. ~late[a] => wf[a[1]] = "running" /\ a[2] = try[a[1]]
  BY <1>1 DEF OnlyCurrentWorks
<1>. QED BY <1>0, <1>2, <1>3, <1>4, <1>5, ActivityFrame DEF Current

LEMMA OnlyCurrentKept == ASSUME HealthInv, [Next]_vars PROVE OnlyCurrentWorks'
<1>. USE DEF HealthInv, WholeInv
<1>1. CASE UNCHANGED <<wf, try, pc, late>>
  BY <1>1 DEF OnlyCurrentWorks
<1>2. ASSUME NEW s \in Syncs, CreatesSync(s) PROVE OnlyCurrentWorks'
  <2>1. \A a \in Attempts : a[1] = s => pc[a] \notin Working
    BY <1>2 DEF CreatesSync, OnlyCurrentWorks, UnstartedIsIdle, Unstarted, Working
  <2>. QED BY <1>2, <2>1, AttemptParts DEF CreatesSync, OnlyCurrentWorks, TypeOK
<1>3. ASSUME NEW s \in Syncs, Dispatches(s) \/ Workflow(s) PROVE OnlyCurrentWorks'
  <2>1. \A b \in Attempts : b[1] # s => pc'[b] = pc[b] /\ late'[b] = late[b]
    BY <1>3, SyncFrame
  <2>2. \A t \in Syncs \ {s} : wf'[t] = wf[t] /\ try'[t] = try[t]
    BY <1>3, SyncFrame
  <2>3. \A k \in 1 .. MaxAttempts :
          pc'[<<s, k>>] \in Working /\ ~late'[<<s, k>>] => wf'[s] = "running" /\ k = try'[s]
    BY <1>3, WorkflowStep
  <2>4. ASSUME NEW b \in Attempts, pc'[b] \in Working, ~late'[b]
        PROVE  wf'[b[1]] = "running" /\ b[2] = try'[b[1]]
    <3>1. b[1] \in Syncs /\ b[2] \in 1 .. MaxAttempts /\ b = <<b[1], b[2]>>
      BY AttemptParts
    <3>2. CASE b[1] = s
      BY <2>3, <2>4, <3>1, <3>2
    <3>3. CASE b[1] # s
      BY <2>1, <2>2, <2>4, <3>1, <3>3 DEF OnlyCurrentWorks
    <3>. QED BY <3>2, <3>3
  <2>. QED BY <2>4 DEF OnlyCurrentWorks
<1>4. ASSUME NEW a \in Attempts, Activity(a) PROVE OnlyCurrentWorks'
  <2>1. UNCHANGED <<wf, try, late>> /\ pc[a] \in Working /\ \A b \in Attempts \ {a} : pc'[b] = pc[b]
    BY <1>4, ActivityFrame
  <2>. QED BY <2>1 DEF OnlyCurrentWorks
<1>5. CASE Page
  BY <1>1, <1>5 DEF Page, Connects, Uninstalls, DeletesRepo
<1>. QED BY <1>1, <1>2, <1>3, <1>4, <1>5 DEF Next, vars

\* The row of a deleted sync has no status; otherwise the page leaves it alone.
LEMMA PageStep ==
  ASSUME HealthInv, Page
  PROVE  /\ UNCHANGED <<wf, try, pc, late>>
         /\ \A s \in Syncs : owner'[s] # NoRepo => owner'[s] = owner[s] /\ repo' = repo
         /\ \A s \in Syncs : status'[s] \in {status[s], "none"}
<1>. USE DEF HealthInv, WholeInv
<1>1. CASE Connects
  <2>1. repo = NoRepo => \A s \in Syncs : owner[s] = NoRepo
    BY DEF SyncsOfRepo
  <2>. QED BY <1>1, <2>1 DEF Connects
<1>2. CASE Uninstalls
  BY <1>2 DEF Uninstalls
<1>3. CASE DeletesRepo
  <2>1. \A s \in Syncs : owner'[s] = NoRepo
    BY <1>3 DEF DeletesRepo, SyncsOfRepo, Live, TypeOK
  <2>2. \A s \in Syncs : status'[s] \in {status[s], "none"}
    BY <1>3 DEF DeletesRepo
  <2>. QED BY <1>3, <2>1, <2>2 DEF DeletesRepo
<1>. QED BY <1>1, <1>2, <1>3 DEF Page

LEMMA SettledKept ==
  ASSUME HealthInv, [Next]_vars
  PROVE  ReturnedIsCompleted' /\ FailedIsMarked'
<1>. USE DEF HealthInv, WholeInv
<1>. DEFINE Returned(s) == wf[s] = "running" /\ try[s] \in 1 .. MaxAttempts /\ pc[Current(s)] = "returned"
            Good(s) == /\ NoneLate(s) /\ owner[s] # NoRepo /\ (wf[s] = "completed" \/ Returned(s))
                          => status[s] = "completed"
                       /\ NoneLate(s) /\ wf[s] = "failed" => status[s] \notin {"pending", "running"}
<1>0. \A s \in Syncs : Good(s)
  BY DEF ReturnedIsCompleted, FailedIsMarked
<1>. SUFFICES \A s \in Syncs : Good(s)'
  BY DEF ReturnedIsCompleted, FailedIsMarked
<1>1. CASE UNCHANGED vars
  BY <1>0, <1>1 DEF vars, NoneLate, Current
<1>2. ASSUME NEW s \in Syncs, CreatesSync(s), NEW t \in Syncs PROVE Good(t)'
  <2>1. CASE t = s
    BY <1>2, <2>1 DEF CreatesSync, TypeOK
  <2>2. CASE t # s
    <3>1. UNCHANGED <<try, pc, late>> /\ owner'[t] = owner[t] /\ status'[t] = status[t] /\ wf'[t] = wf[t]
      BY <1>2, <2>2 DEF CreatesSync, TypeOK
    <3>. QED BY <1>0, <3>1 DEF NoneLate, Current
  <2>. QED BY <2>1, <2>2
<1>3. ASSUME NEW s \in Syncs, Dispatches(s) \/ Workflow(s), NEW t \in Syncs PROVE Good(t)'
  <2>1. CASE t # s
    <3>1. wf'[t] = wf[t] /\ try'[t] = try[t] /\ status'[t] = status[t] /\ owner' = owner
      BY <1>3, <2>1, SyncFrame
    <3>2. \A k \in 1 .. MaxAttempts : pc'[<<t, k>>] = pc[<<t, k>>] /\ late'[<<t, k>>] = late[<<t, k>>]
      BY <1>3, <2>1, SyncFrame, AttemptParts
    <3>. QED BY <1>0, <3>1, <3>2 DEF NoneLate, Current
  <2>2. CASE t = s
    <3>1. /\ NoneLate(s)' => NoneLate(s)
          /\ wf'[s] = "running" => pc'[<<s, try'[s]>>] = "begun"
          /\ wf'[s] = "completed" => Completes(s)
          /\ wf'[s] = "failed" => Marks(s)
      BY <1>3, WorkflowStep
    <3>2. ~Returned(s)'
      BY <3>1 DEF Current
    <3>3. NoneLate(s)' /\ owner'[s] # NoRepo /\ wf'[s] = "completed" => status'[s] = "completed"
      <4>1. Completes(s) => Returned(s) /\ UNCHANGED <<owner, status>>
        BY DEF Completes, RunningHasTry
      <4>. QED BY <1>0, <3>1, <4>1
    <3>4. wf'[s] = "failed" => status'[s] \notin {"pending", "running"}
      BY <3>1 DEF Marks, Marked, TypeOK
    <3>. QED BY <2>2, <3>2, <3>3, <3>4
  <2>. QED BY <2>1, <2>2
<1>4. ASSUME NEW a \in Attempts, Activity(a), NEW t \in Syncs PROVE Good(t)'
  <2>1. /\ ~late[a] => wf[a[1]] = "running" /\ a[2] = try[a[1]] /\ a = Current(a[1])
        /\ UNCHANGED <<owner, wf, try, late>>
        /\ \A b \in Attempts \ {a} : pc'[b] = pc[b]
        /\ \A s \in Syncs \ {a[1]} : status'[s] = status[s]
        /\ pc'[a] = "returned" => status'[a[1]] = "completed"
    BY <1>4, ActivityStep
  <2>2. CASE t # a[1]
    <3>1. \A k \in 1 .. MaxAttempts : pc'[<<t, k>>] = pc[<<t, k>>]
      BY <2>1, <2>2, AttemptParts
    <3>. QED BY <1>0, <2>1, <2>2, <3>1 DEF NoneLate, Current
  <2>3. CASE t = a[1]
    <3>1. NoneLate(t) => ~late[a]
      BY <2>3, AttemptParts DEF NoneLate
    <3>2. NoneLate(t)' <=> NoneLate(t)
      BY <2>1 DEF NoneLate
    <3>3. NoneLate(t) => wf'[t] = "running" /\ Current(t)' = a
      BY <2>1, <2>3, <3>1 DEF Current
    <3>. QED BY <2>1, <2>3, <3>2, <3>3
  <2>. QED BY <2>2, <2>3
<1>5. ASSUME Page, NEW t \in Syncs PROVE Good(t)'
  <2>1. /\ UNCHANGED <<wf, try, pc, late>>
        /\ owner'[t] # NoRepo => owner'[t] = owner[t] /\ repo' = repo
        /\ status'[t] \in {status[t], "none"}
    BY <1>5, PageStep
  <2>2. owner'[t] # NoRepo => status'[t] = status[t]
    <3>1. DeletesRepo => owner'[t] = NoRepo
      BY DEF DeletesRepo, SyncsOfRepo, Live, TypeOK
    <3>. QED BY <1>5, <3>1 DEF Page, Connects, Uninstalls
  <2>. QED BY <1>0, <2>1, <2>2 DEF NoneLate, Current
<1>. QED BY <1>1, <1>2, <1>3, <1>4, <1>5 DEF Next

LEMMA CompletedKept == ASSUME HealthInv, [Next]_vars PROVE CompletedIsServed'
<1>. USE DEF HealthInv, WholeInv
<1>1. SUFFICES ASSUME NEW s \in Syncs, owner'[s] # NoRepo, status'[s] = "completed"
               PROVE  Served(repo)' # {}
  BY DEF CompletedIsServed
<1>2. CASE owner[s] # NoRepo /\ status[s] = "completed" /\ repo' = repo
  BY <1>2, ServedKept DEF CompletedIsServed
<1>3. CASE UNCHANGED vars
  BY <1>1, <1>2, <1>3 DEF vars
<1>4. ASSUME NEW t \in Syncs, CreatesSync(t) PROVE Served(repo)' # {}
  <2>1. s # t
    BY <1>1, <1>4 DEF CreatesSync, TypeOK
  <2>. QED BY <1>1, <1>2, <1>4, <2>1 DEF CreatesSync, TypeOK
<1>5. ASSUME NEW t \in Syncs, Dispatches(t) \/ Workflow(t) PROVE Served(repo)' # {}
  <2>1. status[s] = "completed"
    BY <1>1, <1>5 DEF Dispatches, Workflow, Completes, Retries, TimesOut, Marks, Marked,
                      MarkGivesUp, TypeOK
  <2>. QED BY <1>1, <1>2, <1>5, <2>1, SyncFrame
<1>6. ASSUME NEW a \in Attempts, Activity(a) PROVE Served(repo)' # {}
  <2>1. /\ UNCHANGED <<repo, owner>>
        /\ \A t \in Syncs \ {a[1]} : status'[t] = status[t]
        /\ status'[a[1]] = "completed" => status[a[1]] = "completed" \/ Served(repo)' # {}
    BY <1>6, ActivityStep
  <2>. QED BY <1>1, <1>2, <2>1
<1>7. CASE Page
  <2>1. owner[s] # NoRepo /\ repo' = repo /\ status[s] = "completed"
    BY <1>1, <1>7, PageStep
  <2>. QED BY <1>2, <2>1
<1>. QED BY <1>3, <1>4, <1>5, <1>6, <1>7 DEF Next

LEMMA HealthInvariant == Spec => []HealthInv
<1>1. HealthInv /\ [Next]_vars => HealthInv'
  BY WholeInvNext, RunningKept, OnlyCurrentKept, SettledKept, CompletedKept DEF HealthInv, WholeInv
<1>. QED BY <1>1, HealthInvInit, PTL DEF Spec

LEMMA LeastOf ==
  ASSUME NEW T \in SUBSET Nat, T # {}
  PROVE  \E x \in T : \A y \in T : x <= y
<1>. DEFINE R == OpToRel(<, Nat)
<1>1. \E x \in T : \A y \in T : ~(<<y, x>> \in R)
  <2>1. IsWellFoundedOn(R, Nat)
    BY NatLessThanWellFounded
  <2>. HIDE DEF R
  <2>. QED BY <2>1, WFMin
<1>2. \A x, y \in Nat : <<y, x>> \in R <=> y < x
  BY DEF OpToRel
<1>. HIDE DEF R
<1>3. T \subseteq Nat
  OBVIOUS
<1>4. PICK x \in T : \A y \in T : ~(<<y, x>> \in R)
  BY <1>1
<1>5. \A y \in T : ~(y < x)
  BY <1>2, <1>3, <1>4
<1>6. \A y \in T : x <= y
  BY <1>3, <1>5
<1>. QED BY <1>6

LEMMA LatestExists ==
  ASSUME NEW r, LatestSync(r) # 0
  PROVE  LatestSync(r) \in Syncs /\ r # NoRepo /\ owner[LatestSync(r)] = r
<1>1. SyncsOf(r) # {} /\ SyncsOf(r) \subseteq 1 .. MaxSyncs /\ MaxSyncs \in Nat
  BY IndexAssumption DEF LatestSync, SyncsOf, Syncs
<1>. DEFINE Behind == { MaxSyncs - s : s \in SyncsOf(r) }
<1>2. PICK n \in Behind : \A m \in Behind : n <= m
  <2>1. Behind \in SUBSET Nat /\ Behind # {}
    BY <1>1
  <2>. HIDE DEF Behind
  <2>. QED BY <2>1, LeastOf
<1>3. PICK s \in SyncsOf(r) : n = MaxSyncs - s
  BY <1>2
<1>4. \A t \in SyncsOf(r) : t <= s
  BY <1>1, <1>2, <1>3
<1>5. LatestSync(r) \in SyncsOf(r)
  BY <1>1, <1>3, <1>4 DEF LatestSync
<1>. QED BY <1>5 DEF SyncsOf

\* When the workflow of the latest sync has ended with a result or with the row
\* marked, the trust signal of the settings page has settled, unless an attempt of
\* that sync outlived its timeout (buildRepositoryHealth, markSyncRequestFailed), for
\* any number of syncs, attempts and reconnections.  A workflow that ended because
\* its marking failed as well ("unmarked") promises nothing.
THEOREM HealthAlwaysSettles == Spec => []HealthIsSettled
<1>1. HealthInv => HealthIsSettled
  <2>. SUFFICES ASSUME HealthInv, LatestSync(repo) # 0, NoneLate(LatestSync(repo))
                PROVE  /\ wf[LatestSync(repo)] \in {"completed", "failed"} => Health(repo) # "syncing"
                       /\ wf[LatestSync(repo)] = "completed" => Health(repo) = "indexed"
    BY DEF HealthIsSettled, NoneLate
  <2>1. PICK s \in Syncs : s = LatestSync(repo) /\ owner[s] = repo /\ repo # NoRepo
    BY LatestExists
  <2>2. /\ wf[s] = "completed" => status[s] = "completed" /\ Served(repo) # {}
        /\ wf[s] = "failed" => status[s] \notin {"pending", "running"}
    BY <2>1 DEF HealthInv, ReturnedIsCompleted, FailedIsMarked, CompletedIsServed
  <2>. QED BY <2>1, <2>2 DEF Health
<1>. QED BY <1>1, HealthInvariant, PTL

-----------------------------------------------------------------------------
(* WorkspaceAccess *)

Belongs(r, u, w) == \E i \in DOMAIN r : r[i].user = u /\ r[i].ws = w

\* Every row is somebody's with an account, and live rows of a pair are one.
RowsOK(r, acc) ==
  /\ \A i \in DOMAIN r : acc[r[i].user] # "none"
  /\ \A i, j \in DOMAIN r : r[i].user = r[j].user /\ r[i].ws = r[j].ws /\ r[i].live /\ r[j].live => i = j

SessionsOK(ss, r) ==
  \A s \in Sessions :
    ss[s] = NoSession \/ (ss[s].user \in Users /\ (ss[s].active # NoWs => Belongs(r, ss[s].user, ss[s].active)))

Signing == {"hash", "access", "join", "member", "session"}
Asking == {"pin", "find", "live", "deleted", "insert", "revive", "write"}
Upserting == {"live", "deleted", "insert", "revive"}

\* A request of somebody with a session: where it is, and what it has found out.
RequestOK(t, r, acc) ==
  /\ t.by \in Users /\ t.sid \in Sessions
  /\ t.ws # NoWs => Belongs(r, t.by, t.ws)
  /\ t.pc = "pin" => t.ws # NoWs
  /\ t.op \in Ops \/ (t.pc = "pin" /\ t.op = "refused")
  /\ t.pc \in Upserting => t.op = "add"
  /\ t.pc = "write" => t.op \in MemberOps \union {"switch"}
  /\ t.pc = "write" /\ t.op = "switch" => Belongs(r, t.by, t.goal)

\* A membership operation: by an administrator, for somebody else, on rows that are no owner's.
MemberOK(t, r, acc) ==
  /\ t.target \in Users /\ t.ws \in Workspaces /\ t.role \in {"OWNER", "ADMIN"} /\ t.grant # "OWNER"
  /\ t.pc \in Upserting \union {"write"} => t.by # t.target
  /\ t.op = "add" /\ t.pc \in Upserting \union {"write"} =>
       /\ acc[t.target] # "none"
       /\ \A i \in DOMAIN r : r[i].user = t.target /\ r[i].ws = t.ws => r[i].role # "OWNER"
  /\ t.pc \in {"revive", "write"} =>
       t.row \in DOMAIN r /\ r[t.row].user = t.target /\ r[t.row].ws = t.ws /\ r[t.row].role # "OWNER"

\* A sign-in.
SignInOK(t, r, acc) ==
  /\ t.by \in Users /\ t.sid \in Sessions /\ t.sid # "none"
  /\ IF t.pc = "hash" THEN t.ws = NoWs ELSE acc[t.by] # "none"
  /\ t.pc \in {"join", "member"} => Home[t.by] # NoWs
  /\ t.pc = "member" => t.ws = Home[t.by]
  /\ t.pc = "session" /\ t.ws # NoWs => Belongs(r, t.by, t.ws)

TaskOK(t, r, acc) ==
  /\ t.pc = "idle" => t = NoTask
  /\ t.pc \in Asking => RequestOK(t, r, acc) /\ (t.op \in MemberOps => MemberOK(t, r, acc))
  /\ t.pc \in Signing => SignInOK(t, r, acc)

\* The session a task runs in is that of its user, and one that signs in has none yet.
Held(t, ss) ==
  /\ t.pc \in Asking => ss[t.sid] = NoSession \/ ss[t.sid].user = t.by
  /\ t.pc \in Signing => ss[t.sid] = NoSession

\* Nothing else runs in the session a sign-in is going to create.
Alone == \A p, q \in Requests : p # q /\ task[q].pc \in Signing => task[p].sid # task[q].sid

AccessInv ==
  /\ AccessTypeOK /\ RowsOK(rows, account) /\ SessionsOK(session, rows) /\ Alone
  /\ \A q \in Requests : TaskOK(task[q], rows, account) /\ Held(task[q], session)

\* What a step may do to the rows: they keep their pair, an owner's stays as it is, and nobody becomes one.
Grows(r, n) ==
  /\ DOMAIN r \subseteq DOMAIN n
  /\ \A i \in DOMAIN r : n[i].user = r[i].user /\ n[i].ws = r[i].ws
  /\ \A i \in DOMAIN r : r[i].role # "OWNER" => n[i].role # "OWNER"
  /\ \A i \in DOMAIN r : r[i].role = "OWNER" => n[i] = r[i]
  /\ \A i \in DOMAIN n \ DOMAIN r : n[i].role # "OWNER"

AccountsGrow(a, b) == \A u \in Users : a[u] # "none" => b[u] # "none"

LEMMA GrowsSame == ASSUME NEW r PROVE Grows(r, r)
BY DEF Grows

LEMMA StaysBelonging ==
  ASSUME NEW r, NEW n, Grows(r, n), NEW u, NEW w, Belongs(r, u, w)
  PROVE  Belongs(n, u, w)
<1>1. PICK i \in DOMAIN r : r[i].user = u /\ r[i].ws = w
  BY DEF Belongs
<1>2. i \in DOMAIN n /\ n[i].user = u /\ n[i].ws = w
  BY <1>1 DEF Grows
<1>. QED BY <1>2 DEF Belongs

LEMMA TaskStaysOK ==
  ASSUME NEW t \in TaskType, NEW r, NEW n, NEW a, NEW b, Grows(r, n), AccountsGrow(a, b), TaskOK(t, r, a)
  PROVE  TaskOK(t, n, b)
<1>1. \A u, w : Belongs(r, u, w) => Belongs(n, u, w)
  BY StaysBelonging
<1>2. ASSUME t.pc \in Asking PROVE RequestOK(t, n, b)
  BY <1>1, <1>2 DEF TaskOK, RequestOK
<1>3. ASSUME t.pc \in Asking, t.op \in MemberOps PROVE MemberOK(t, n, b)
  <2>1. MemberOK(t, r, a)
    BY <1>3 DEF TaskOK
  <2>2. ASSUME t.op = "add", t.pc \in Upserting \union {"write"}
        PROVE  /\ b[t.target] # "none"
               /\ \A i \in DOMAIN n : n[i].user = t.target /\ n[i].ws = t.ws => n[i].role # "OWNER"
    <3>1. t.target \in Users /\ a[t.target] # "none"
      BY <2>1, <2>2 DEF MemberOK
    <3>2. b[t.target] # "none"
      BY <3>1 DEF AccountsGrow
    <3>3. ASSUME NEW i \in DOMAIN n, n[i].user = t.target, n[i].ws = t.ws PROVE n[i].role # "OWNER"
      <4>1. CASE i \in DOMAIN r
        <5>1. r[i].user = t.target /\ r[i].ws = t.ws
          BY <3>3, <4>1 DEF Grows
        <5>2. r[i].role # "OWNER"
          BY <2>1, <2>2, <4>1, <5>1 DEF MemberOK
        <5>. QED BY <4>1, <5>2 DEF Grows
      <4>2. CASE i \notin DOMAIN r
        BY <4>2 DEF Grows
      <4>. QED BY <4>1, <4>2
    <3>. QED BY <3>2, <3>3
  <2>3. ASSUME t.pc \in {"revive", "write"}
        PROVE  t.row \in DOMAIN n /\ n[t.row].user = t.target /\ n[t.row].ws = t.ws /\ n[t.row].role # "OWNER"
    <3>1. t.row \in DOMAIN r /\ r[t.row].user = t.target /\ r[t.row].ws = t.ws /\ r[t.row].role # "OWNER"
      BY <2>1, <2>3 DEF MemberOK
    <3>. QED BY <3>1 DEF Grows
  <2>. QED BY <2>1, <2>2, <2>3 DEF MemberOK
<1>4. ASSUME t.pc \in Signing PROVE SignInOK(t, n, b)
  BY <1>1, <1>4 DEF TaskOK, SignInOK, AccountsGrow
<1>. QED BY <1>2, <1>3, <1>4 DEF TaskOK

LEMMA NoTaskFacts ==
  /\ NoTask \in TaskType /\ NoTask.pc = "idle" /\ NoTask.sid = "none"
  /\ \A r, a, ss : TaskOK(NoTask, r, a) /\ Held(NoTask, ss)
<1>1. NoTask \in TaskType /\ NoTask.pc = "idle" /\ NoTask.sid = "none"
  BY DEF NoTask, TaskType, Pcs, Roles
<1>. QED BY <1>1 DEF TaskOK, Held, Asking, Signing

\* A step of one task keeps the invariant if rows and accounts grow and nobody else's session is disturbed.
LEMMA StepKeeps ==
  ASSUME AccessInv, NEW q \in Requests, NEW n \in TaskType, task' = [task EXCEPT ![q] = n],
         account' \in [Users -> {"none", "password", "google"}], AccountsGrow(account, account'),
         rows' \in Seq(Row), Grows(rows, rows'), RowsOK(rows', account'),
         session' \in [Sessions -> [user : Users \union {NoOne}, active : Workspaces \union {NoWs}]],
         SessionsOK(session', rows'),
         \A p \in Requests : p # q => Held(task[p], session'),
         TaskOK(n, rows', account'), Held(n, session'),
         \A p \in Requests : p # q /\ (n.pc \in Signing \/ task[p].pc \in Signing) => task[p].sid # n.sid
  PROVE  AccessInv'
<1>. USE DEF AccessInv
<1>1. task \in [Requests -> TaskType]
  BY DEF AccessTypeOK
<1>2. task' \in [Requests -> TaskType] /\ task'[q] = n /\ \A p \in Requests : p # q => task'[p] = task[p]
  BY <1>1
<1>3. AccessTypeOK'
  BY <1>2 DEF AccessTypeOK
<1>4. ASSUME NEW p \in Requests PROVE TaskOK(task'[p], rows', account') /\ Held(task'[p], session')
  <2>1. CASE p = q
    BY <2>1, <1>2
  <2>2. CASE p # q
    <3>1. PICK t \in TaskType : t = task[p] /\ TaskOK(t, rows, account) /\ Held(t, session')
      BY <1>1, <2>2
    <3>2. TaskOK(t, rows', account')
      BY <3>1, TaskStaysOK
    <3>. QED BY <1>2, <2>2, <3>1, <3>2
  <2>. QED BY <2>1, <2>2
<1>5. Alone'
  BY <1>2 DEF Alone
<1>. QED BY <1>3, <1>4, <1>5

LEMMA AccessFacts ==
  ASSUME AccessInv
  PROVE  /\ account \in [Users -> {"none", "password", "google"}] /\ rows \in Seq(Row)
         /\ session \in [Sessions -> [user : Users \union {NoOne}, active : Workspaces \union {NoWs}]]
         /\ task \in [Requests -> TaskType]
         /\ RowsOK(rows, account) /\ SessionsOK(session, rows)
         /\ \A q \in Requests : TaskOK(task[q], rows, account) /\ Held(task[q], session)
         /\ \A p, q \in Requests : p # q /\ task[q].pc \in Signing => task[p].sid # task[q].sid
BY DEF AccessInv, AccessTypeOK, Alone

LEMMA RowFacts ==
  ASSUME NEW r \in Seq(Row), NEW i \in DOMAIN r
  PROVE  r[i] \in Row /\ r[i].user \in Users /\ r[i].ws \in Workspaces /\ r[i].role \in Roles /\ i \in Nat
<1>1. r[i] \in Row /\ i \in Nat
  OBVIOUS
<1>. QED BY <1>1 DEF Row

LEMMA SessionsStayOK ==
  ASSUME NEW ss, NEW r, NEW n, Grows(r, n), SessionsOK(ss, r)
  PROVE  SessionsOK(ss, n)
<1>1. \A u, w : Belongs(r, u, w) => Belongs(n, u, w)
  BY StaysBelonging
<1>. QED BY <1>1 DEF SessionsOK

\* No row of the pair is live.
NoneLive(r, u, w) == \A i \in DOMAIN r : ~(r[i].user = u /\ r[i].ws = w /\ r[i].live)

\* A row is added to those of a pair of which none is live.
LEMMA RowAdded ==
  ASSUME NEW r \in Seq(Row), NEW a, NEW b, NEW x \in Row,
         RowsOK(r, a), AccountsGrow(a, b), b[x.user] # "none", x.role # "OWNER",
         NoneLive(r, x.user, x.ws), NEW n, n = Append(r, x)
  PROVE  /\ n \in Seq(Row) /\ Grows(r, n) /\ RowsOK(n, b) /\ Belongs(n, x.user, x.ws)
         /\ \A i \in DOMAIN r : i \in DOMAIN n /\ n[i] = r[i]
         /\ \A i \in DOMAIN n : i \in DOMAIN r \/ n[i] = x
<1>3. n \in Seq(Row) /\ Len(r) \in Nat /\ DOMAIN r = 1..Len(r)
  OBVIOUS
<1>4. DOMAIN n = 1..(Len(r) + 1) /\ n[Len(r) + 1] = x /\ \A i \in 1..Len(r) : n[i] = r[i]
  BY <1>3
<1>5. \A i \in DOMAIN r : i \in DOMAIN n /\ n[i] = r[i]
  BY <1>3, <1>4
<1>6. \A i \in DOMAIN n : i \in DOMAIN r \/ (i = Len(r) + 1 /\ n[i] = x)
  BY <1>3, <1>4
<1>7. Grows(r, n)
  <2>1. DOMAIN r \subseteq DOMAIN n
    BY <1>5
  <2>2. \A i \in DOMAIN n \ DOMAIN r : n[i].role # "OWNER"
    BY <1>6
  <2>. QED BY <1>5, <2>1, <2>2 DEF Grows
<1>8. Belongs(n, x.user, x.ws)
  <2>1. Len(r) + 1 \in DOMAIN n
    BY <1>3, <1>4
  <2>. QED BY <1>4, <2>1 DEF Belongs
<1>9. \A i \in DOMAIN n : b[n[i].user] # "none"
  <2>. SUFFICES ASSUME NEW i \in DOMAIN n PROVE b[n[i].user] # "none"
    OBVIOUS
  <2>1. CASE i \in DOMAIN r
    BY <2>1, <1>5, RowFacts DEF RowsOK, AccountsGrow
  <2>2. CASE i \notin DOMAIN r
    BY <2>2, <1>6
  <2>. QED BY <2>1, <2>2
<1>10. \A i, j \in DOMAIN n : n[i].user = n[j].user /\ n[i].ws = n[j].ws /\ n[i].live /\ n[j].live => i = j
  <2>. SUFFICES ASSUME NEW i \in DOMAIN n, NEW j \in DOMAIN n,
                       n[i].user = n[j].user, n[i].ws = n[j].ws, n[i].live, n[j].live
                PROVE  i = j
    OBVIOUS
  <2>1. CASE i \in DOMAIN r /\ j \in DOMAIN r
    <3>1. n[i] = r[i] /\ n[j] = r[j]
      BY <2>1, <1>5
    <3>. QED BY <2>1, <3>1 DEF RowsOK
  <2>2. CASE i \in DOMAIN r /\ j \notin DOMAIN r
    <3>1. n[i] = r[i] /\ n[j] = x
      BY <2>2, <1>5, <1>6
    <3>. QED BY <2>2, <3>1 DEF NoneLive
  <2>3. CASE i \notin DOMAIN r /\ j \in DOMAIN r
    <3>1. n[j] = r[j] /\ n[i] = x
      BY <2>3, <1>5, <1>6
    <3>. QED BY <2>3, <3>1 DEF NoneLive
  <2>4. CASE i \notin DOMAIN r /\ j \notin DOMAIN r
    BY <2>4, <1>6
  <2>. QED BY <2>1, <2>2, <2>3, <2>4
<1>11. RowsOK(n, b)
  BY <1>9, <1>10 DEF RowsOK
<1>. QED BY <1>3, <1>5, <1>6, <1>7, <1>8, <1>11

\* A row that is no owner's is written: it becomes live only when no other of its pair is.
LEMMA RowWritten ==
  ASSUME NEW r \in Seq(Row), NEW a, NEW k \in DOMAIN r, NEW x \in Row, RowsOK(r, a),
         x.user = r[k].user, x.ws = r[k].ws, r[k].role # "OWNER", x.role # "OWNER",
         x.live => r[k].live \/ NoneLive(r, x.user, x.ws),
         NEW n, n = [r EXCEPT ![k] = x]
  PROVE  /\ n \in Seq(Row) /\ Grows(r, n) /\ RowsOK(n, a)
         /\ DOMAIN n = DOMAIN r /\ n[k] = x /\ \A i \in DOMAIN r : i # k => n[i] = r[i]
<1>1. DOMAIN n = DOMAIN r /\ n[k] = x /\ \A i \in DOMAIN r : i # k => n[i] = r[i]
  OBVIOUS
<1>2. n \in Seq(Row)
  OBVIOUS
<1>3. Grows(r, n)
  BY <1>1 DEF Grows
<1>4. \A i \in DOMAIN n : a[n[i].user] # "none"
  BY <1>1 DEF RowsOK
<1>5. \A i, j \in DOMAIN n : n[i].user = n[j].user /\ n[i].ws = n[j].ws /\ n[i].live /\ n[j].live => i = j
  <2>. SUFFICES ASSUME NEW i \in DOMAIN n, NEW j \in DOMAIN n,
                       n[i].user = n[j].user, n[i].ws = n[j].ws, n[i].live, n[j].live
                PROVE  i = j
    OBVIOUS
  <2>1. CASE i # k /\ j # k
    <3>1. n[i] = r[i] /\ n[j] = r[j] /\ i \in DOMAIN r /\ j \in DOMAIN r
      BY <2>1, <1>1
    <3>. QED BY <3>1 DEF RowsOK, NoneLive
  <2>2. CASE i = k /\ j # k
    <3>1. n[i] = x /\ n[j] = r[j] /\ j \in DOMAIN r
      BY <2>2, <1>1
    <3>. QED BY <2>2, <3>1 DEF RowsOK, NoneLive
  <2>3. CASE i # k /\ j = k
    <3>1. n[j] = x /\ n[i] = r[i] /\ i \in DOMAIN r
      BY <2>3, <1>1
    <3>. QED BY <2>3, <3>1 DEF RowsOK, NoneLive
  <2>. QED BY <2>1, <2>2, <2>3
<1>6. RowsOK(n, a)
  BY <1>4, <1>5 DEF RowsOK
<1>. QED BY <1>1, <1>2, <1>3, <1>6

\* A step that only moves its task.
LEMMA TaskMoves ==
  ASSUME AccessInv, NEW q \in Requests, NEW n \in TaskType, task' = [task EXCEPT ![q] = n],
         account' = account, rows' = rows, session' = session,
         TaskOK(n, rows, account), Held(n, session),
         \A p \in Requests : p # q /\ (n.pc \in Signing \/ task[p].pc \in Signing) => task[p].sid # n.sid
  PROVE  AccessInv'
BY StepKeeps, AccessFacts, GrowsSame DEF AccountsGrow

\* A task that goes on in its session, or ends, meets no sign-in.
LEMMA StaysApart ==
  ASSUME AccessInv, NEW q \in Requests, NEW n \in TaskType,
         \/ n = NoTask
         \/ n.sid = task[q].sid /\ (n.pc \in Signing => task[q].pc \in Signing)
  PROVE  \A p \in Requests : p # q /\ (n.pc \in Signing \/ task[p].pc \in Signing) => task[p].sid # n.sid
<1>. SUFFICES ASSUME NEW p \in Requests, p # q, n.pc \in Signing \/ task[p].pc \in Signing
              PROVE  task[p].sid # n.sid
  OBVIOUS
<1>1. CASE n = NoTask
  <2>1. task[p].pc \in Signing /\ n.sid = "none"
    BY <1>1, NoTaskFacts DEF Signing
  <2>2. task[p].sid # "none"
    BY <2>1, AccessFacts DEF TaskOK, SignInOK
  <2>. QED BY <2>1, <2>2
<1>2. CASE n.sid = task[q].sid /\ (n.pc \in Signing => task[q].pc \in Signing)
  BY <1>2, AccessFacts
<1>. QED BY <1>1, <1>2

\* Everything but where it is, and the row.
Alike(n, t) ==
  /\ n.op = t.op /\ n.by = t.by /\ n.sid = t.sid /\ n.ws = t.ws /\ n.role = t.role
  /\ n.target = t.target /\ n.grant = t.grant /\ n.goal = t.goal

LEMMA ProceedsMoves ==
  ASSUME AccessInv, NEW q \in Requests, NEW to \in Pcs, Proceeds(q, to)
  PROVE  \E n \in TaskType : task' = [task EXCEPT ![q] = n] /\ n.pc = to /\ n.row = task[q].row /\ Alike(n, task[q])
<1>1. PICK t \in TaskType : t = task[q]
  BY AccessFacts
<1>. DEFINE n == [t EXCEPT !.pc = to]
<1>2. task' = [task EXCEPT ![q] = n]
  BY <1>1 DEF Proceeds
<1>3. n \in TaskType /\ n.pc = to /\ n.row = t.row
  BY DEF TaskType
<1>4. Alike(n, t)
  BY DEF TaskType, Alike
<1>. QED BY <1>1, <1>2, <1>3, <1>4

\* A task ends and nothing else happens.
LEMMA FinishesStep ==
  ASSUME AccessInv, NEW q \in Requests, Finishes(q), account' = account, rows' = rows, session' = session
  PROVE  AccessInv'
<1>1. task' = [task EXCEPT ![q] = NoTask]
  BY DEF Finishes
<1>. QED BY <1>1, NoTaskFacts, StaysApart, TaskMoves

LEMMA AddStep == ASSUME AccessInv, NEW q \in Requests, AddFinds(q) PROVE AccessInv'
<1>. USE AccessFacts
<1>1. account' = account /\ rows' = rows /\ session' = session
  BY DEF AddFinds
<1>2. CASE Finishes(q)
  BY <1>1, <1>2, FinishesStep
<1>3. CASE ~Finishes(q)
  <2>1. PICK t \in TaskType : t = task[q] /\ TaskOK(t, rows, account) /\ Held(t, session)
    OBVIOUS
  <2>2. t.pc = "find" /\ t.op = "add" /\ account[t.target] # "none" /\ Of(t.target, t.ws) = {} /\ Proceeds(q, "live")
    BY <1>3, <2>1 DEF AddFinds
  <2>3. PICK n \in TaskType : task' = [task EXCEPT ![q] = n] /\ n.pc = "live" /\ Alike(n, t)
    BY <2>1, <2>2, ProceedsMoves DEF Pcs
  <2>4. RequestOK(t, rows, account) /\ MemberOK(t, rows, account)
    BY <2>1, <2>2 DEF TaskOK, Asking, MemberOps
  <2>5. \A i \in DOMAIN rows : ~(rows[i].user = t.target /\ rows[i].ws = t.ws)
    BY <2>2 DEF Of
  <2>6. t.by # t.target
    <3>1. t.ws # NoWs
      BY <2>4, AccessAssumption DEF MemberOK
    <3>2. Belongs(rows, t.by, t.ws)
      BY <2>4, <3>1 DEF RequestOK
    <3>. QED BY <2>5, <3>2 DEF Belongs
  <2>7. TaskOK(n, rows, account)
    <3>1. RequestOK(n, rows, account)
      BY <2>2, <2>3, <2>4 DEF RequestOK, Alike, Ops, MemberOps, Upserting
    <3>2. MemberOK(n, rows, account)
      BY <2>2, <2>3, <2>4, <2>5, <2>6 DEF MemberOK, Alike, Upserting
    <3>. QED BY <2>3, <3>1, <3>2 DEF TaskOK, Asking, Signing
  <2>8. Held(n, session)
    BY <2>1, <2>2, <2>3 DEF Held, Alike, Asking, Signing
  <2>9. \A p \in Requests : p # q /\ (n.pc \in Signing \/ task[p].pc \in Signing) => task[p].sid # n.sid
    BY <2>1, <2>3, StaysApart DEF Alike, Signing
  <2>. QED BY <1>1, <2>3, <2>7, <2>8, <2>9, TaskMoves
<1>. QED BY <1>2, <1>3

LEMMA UpsertFindsStep == ASSUME AccessInv, NEW q \in Requests, UpsertFinds(q) PROVE AccessInv'
<1>. USE AccessFacts
<1>1. account' = account /\ rows' = rows /\ session' = session
  BY DEF UpsertFinds
<1>2. PICK t \in TaskType : t = task[q] /\ TaskOK(t, rows, account) /\ Held(t, session)
  OBVIOUS
<1>3. t.pc \in {"live", "deleted"}
  BY <1>2 DEF UpsertFinds
<1>4. RequestOK(t, rows, account) /\ t.op = "add" /\ MemberOK(t, rows, account)
  BY <1>2, <1>3 DEF TaskOK, Asking, RequestOK, Upserting, MemberOps
<1>5. \E n \in TaskType :
        /\ task' = [task EXCEPT ![q] = n] /\ Alike(n, t)
        /\ \/ n.pc \in {"deleted", "insert"}
           \/ n.pc \in {"write", "revive"} /\ n.row \in Of(t.target, t.ws)
  <2>. DEFINE first == t.pc = "live"
              found == IF first THEN LiveOf(t.target, t.ws) ELSE DeletedOf(t.target, t.ws)
  <2>1. CASE found = {}
    <3>1. Proceeds(q, IF first THEN "deleted" ELSE "insert")
      BY <1>2, <2>1 DEF UpsertFinds
    <3>2. PICK to \in {"deleted", "insert"} : Proceeds(q, to)
      BY <3>1
    <3>3. to \in Pcs
      BY DEF Pcs
    <3>. QED BY <1>2, <3>2, <3>3, ProceedsMoves
  <2>2. CASE found # {}
    <3>1. PICK i \in found : task' = [task EXCEPT ![q].row = i, ![q].pc = IF first THEN "write" ELSE "revive"]
      BY <1>2, <2>2 DEF UpsertFinds
    <3>2. i \in Of(t.target, t.ws) /\ i \in Nat
      BY DEF LiveOf, DeletedOf, Of
    <3>3. PICK to \in Pcs : to \in {"write", "revive"} /\ to = IF first THEN "write" ELSE "revive"
      BY DEF Pcs
    <3>. DEFINE n == [t EXCEPT !.row = i, !.pc = to]
    <3>4. task' = [task EXCEPT ![q] = n]
      BY <1>2, <3>1, <3>3
    <3>5. n \in TaskType /\ n.pc = to /\ n.row = i
      BY <3>2 DEF TaskType
    <3>6. Alike(n, t)
      BY DEF TaskType, Alike
    <3>. QED BY <3>2, <3>3, <3>4, <3>5, <3>6
  <2>. QED BY <2>1, <2>2
<1>6. PICK n \in TaskType :
        /\ task' = [task EXCEPT ![q] = n] /\ Alike(n, t)
        /\ \/ n.pc \in {"deleted", "insert"}
           \/ n.pc \in {"write", "revive"} /\ n.row \in Of(t.target, t.ws)
  BY <1>5
<1>7. RequestOK(n, rows, account)
  BY <1>4, <1>6 DEF RequestOK, Alike, Ops, MemberOps, Upserting
<1>8. MemberOK(n, rows, account)
  <2>1. t.by # t.target /\ account[t.target] # "none"
        /\ \A i \in DOMAIN rows : rows[i].user = t.target /\ rows[i].ws = t.ws => rows[i].role # "OWNER"
    BY <1>3, <1>4 DEF MemberOK, Upserting
  <2>2. n.pc \in {"revive", "write"} =>
          n.row \in DOMAIN rows /\ rows[n.row].user = t.target /\ rows[n.row].ws = t.ws /\ rows[n.row].role # "OWNER"
    BY <1>6, <2>1 DEF Of
  <2>3. t.target \in Users /\ t.ws \in Workspaces /\ t.role \in {"OWNER", "ADMIN"} /\ t.grant # "OWNER"
    BY <1>4 DEF MemberOK
  <2>. QED BY <1>6, <2>1, <2>2, <2>3 DEF MemberOK, Alike
<1>9. TaskOK(n, rows, account) /\ Held(n, session)
  BY <1>2, <1>3, <1>6, <1>7, <1>8 DEF TaskOK, Held, Alike, Asking, Signing
<1>10. \A p \in Requests : p # q /\ (n.pc \in Signing \/ task[p].pc \in Signing) => task[p].sid # n.sid
  BY <1>2, <1>6, StaysApart DEF Alike, Signing
<1>. QED BY <1>1, <1>6, <1>9, <1>10, TaskMoves

\* A step that ends its task and writes the rows.
LEMMA RowsStep ==
  ASSUME AccessInv, NEW q \in Requests, Finishes(q), account' = account, session' = session,
         rows' \in Seq(Row), Grows(rows, rows'), RowsOK(rows', account)
  PROVE  AccessInv'
<1>. USE AccessFacts
<1>1. task' = [task EXCEPT ![q] = NoTask]
  BY DEF Finishes
<1>2. SessionsOK(session', rows')
  BY SessionsStayOK
<1>3. \A p \in Requests : p # q /\ (NoTask.pc \in Signing \/ task[p].pc \in Signing) => task[p].sid # NoTask.sid
  BY NoTaskFacts, StaysApart
<1>4. AccountsGrow(account, account')
  BY DEF AccountsGrow
<1>. QED BY <1>1, <1>2, <1>3, <1>4, NoTaskFacts, StepKeeps

\* What is known of a membership operation that may write.
LEMMA Writer ==
  ASSUME AccessInv, NEW q \in Requests, task[q].op \in MemberOps, task[q].pc \in Upserting \union {"write"}
  PROVE  /\ RequestOK(task[q], rows, account) /\ MemberOK(task[q], rows, account)
         /\ task[q].target \in Users /\ task[q].ws \in Workspaces /\ task[q].grant \in Roles /\ task[q].grant # "OWNER"
         /\ task[q].role \in {"OWNER", "ADMIN"} /\ task[q].by # task[q].target
         /\ task[q].pc \in {"revive", "write"} =>
              /\ task[q].row \in DOMAIN rows /\ rows[task[q].row].user = task[q].target
              /\ rows[task[q].row].ws = task[q].ws /\ rows[task[q].row].role # "OWNER"
<1>1. task[q] \in TaskType /\ TaskOK(task[q], rows, account)
  BY AccessFacts
<1>2. RequestOK(task[q], rows, account) /\ MemberOK(task[q], rows, account)
  BY <1>1 DEF TaskOK, Asking, Upserting
<1>3. task[q].grant \in Roles
  BY <1>1 DEF TaskType
<1>. QED BY <1>2, <1>3 DEF MemberOK

LEMMA RevivingIsAdding ==
  ASSUME AccessInv, NEW q \in Requests, task[q].pc \in Upserting
  PROVE  task[q].op = "add" /\ task[q].op \in MemberOps
<1>1. task[q] \in TaskType /\ TaskOK(task[q], rows, account)
  BY AccessFacts
<1>. QED BY <1>1 DEF TaskOK, RequestOK, Asking, Upserting, MemberOps

\* The rows a membership operation leaves: the one it writes keeps its pair.
LEMMA RevivesRows ==
  ASSUME AccessInv, NEW q \in Requests, UpsertRevives(q)
  PROVE  /\ rows' \in Seq(Row) /\ Grows(rows, rows') /\ RowsOK(rows', account)
         /\ DOMAIN rows' = DOMAIN rows /\ \A i \in DOMAIN rows : i # task[q].row => rows'[i] = rows[i]
<1>. USE AccessFacts
<1>1. PICK t \in TaskType : t = task[q]
  OBVIOUS
<1>2. t.pc = "revive" /\ task[q].pc \in Upserting
  BY <1>1 DEF UpsertRevives, Upserting
<1>3. /\ t.grant \in Roles /\ t.grant # "OWNER" /\ t.row \in DOMAIN rows
      /\ rows[t.row].user = t.target /\ rows[t.row].ws = t.ws /\ rows[t.row].role # "OWNER"
  BY <1>1, <1>2, RevivingIsAdding, Writer
<1>4. CASE rows' = rows
  BY <1>4, GrowsSame
<1>5. CASE rows' # rows
  <2>1. /\ rows[t.row].live \/ IndexAllows(t.target, t.ws)
        /\ rows' = [rows EXCEPT ![t.row].live = TRUE, ![t.row].role = t.grant]
    BY <1>1, <1>5 DEF UpsertRevives
  <2>2. PICK y \in Row : y = rows[t.row]
    BY <1>3, RowFacts
  <2>3. \E x \in Row : rows' = [rows EXCEPT ![t.row] = x] /\ x.user = y.user /\ x.ws = y.ws /\ x.role = t.grant
    <3>. DEFINE x == [y EXCEPT !.live = TRUE, !.role = t.grant]
    <3>1. rows' = [rows EXCEPT ![t.row] = x]
      BY <2>1, <2>2
    <3>2. x \in Row /\ x.user = y.user /\ x.ws = y.ws /\ x.role = t.grant
      BY <1>3 DEF Row
    <3>. QED BY <3>1, <3>2
  <2>4. PICK x \in Row : rows' = [rows EXCEPT ![t.row] = x] /\ x.user = y.user /\ x.ws = y.ws /\ x.role = t.grant
    BY <2>3
  <2>5. rows[t.row].live \/ NoneLive(rows, x.user, x.ws)
    BY <1>3, <2>1, <2>2, <2>4 DEF IndexAllows, LiveOf, Of, NoneLive
  <2>6. x.user = rows[t.row].user /\ x.ws = rows[t.row].ws /\ rows[t.row].role # "OWNER" /\ x.role # "OWNER"
    BY <1>3, <2>2, <2>4
  <2>7. x.live => rows[t.row].live \/ NoneLive(rows, x.user, x.ws)
    BY <2>5
  <2>8. /\ rows' \in Seq(Row) /\ Grows(rows, rows') /\ RowsOK(rows', account)
        /\ DOMAIN rows' = DOMAIN rows /\ rows'[t.row] = x /\ \A i \in DOMAIN rows : i # t.row => rows'[i] = rows[i]
    <3>1. rows \in Seq(Row) /\ RowsOK(rows, account) /\ t.row \in DOMAIN rows
      BY <1>3
    <3>. DEFINE k == t.row
    <3>2. k \in DOMAIN rows /\ rows[k].role # "OWNER" /\ x.user = rows[k].user /\ x.ws = rows[k].ws
          /\ (x.live => rows[k].live \/ NoneLive(rows, x.user, x.ws)) /\ rows' = [rows EXCEPT ![k] = x]
      BY <2>4, <2>6, <2>7, <3>1
    <3>. HIDE DEF k
    <3>5. /\ Grows(rows, rows')
          /\ RowsOK(rows', account)
          /\ rows' \in Seq(Row)
      <4>1. Grows(rows, rows')
        BY <2>6, <3>1, <3>2, RowWritten
      <4>2. RowsOK(rows', account)
        BY <2>6, <3>1, <3>2, RowWritten
      <4>3. rows' \in Seq(Row)
        BY <2>6, <3>1, <3>2, RowWritten
      <4>. QED BY <4>1, <4>2, <4>3
    <3>3. DOMAIN rows' = DOMAIN rows /\ rows'[t.row] = x
      BY <2>4, <2>6, <2>7, <3>1, RowWritten
    <3>4. \A i \in DOMAIN rows : i # t.row => rows'[i] = rows[i]
      BY <2>4, <2>6, <2>7, <3>1, RowWritten
    <3>. QED BY <3>3, <3>4, <3>5
  <2>. QED BY <1>1, <2>8
<1>. QED BY <1>1, <1>4, <1>5

LEMMA RevivesStep == ASSUME AccessInv, NEW q \in Requests, UpsertRevives(q) PROVE AccessInv'
BY RevivesRows, RowsStep DEF UpsertRevives

LEMMA InsertsRows ==
  ASSUME AccessInv, NEW q \in Requests, UpsertInserts(q)
  PROVE  /\ rows' \in Seq(Row) /\ Grows(rows, rows') /\ RowsOK(rows', account)
         /\ \A i \in DOMAIN rows : i \in DOMAIN rows' /\ rows'[i] = rows[i]
         /\ \A i \in DOMAIN rows' : i \in DOMAIN rows \/
              (rows'[i].user = task[q].target /\ rows'[i].ws = task[q].ws /\ rows'[i].role = task[q].grant)
<1>. USE AccessFacts
<1>1. PICK t \in TaskType : t = task[q]
  OBVIOUS
<1>2. t.pc = "insert" /\ task[q].pc \in Upserting
  BY <1>1 DEF UpsertInserts, Upserting
<1>3. /\ t.target \in Users /\ t.ws \in Workspaces /\ t.grant \in Roles /\ t.grant # "OWNER" /\ t.op = "add"
      /\ MemberOK(t, rows, account)
  BY <1>1, <1>2, RevivingIsAdding, Writer
<1>4. account[t.target] # "none"
  BY <1>1, <1>2, <1>3 DEF MemberOK
<1>5. CASE rows' = rows
  <2>1. Grows(rows, rows') /\ rows' \in Seq(Row) /\ RowsOK(rows', account)
    BY <1>5, GrowsSame
  <2>2. \A i \in DOMAIN rows : i \in DOMAIN rows' /\ rows'[i] = rows[i]
    BY <1>5
  <2>3. \A i \in DOMAIN rows' : i \in DOMAIN rows
    BY <1>5
  <2>. QED BY <2>1, <2>2, <2>3
<1>6. CASE rows' # rows
  <2>1. IndexAllows(t.target, t.ws) /\ rows' = Inserted(t.target, t.ws, t.grant)
    BY <1>1, <1>6 DEF UpsertInserts
  <2>2. NoneLive(rows, t.target, t.ws)
    BY <2>1 DEF IndexAllows, LiveOf, Of, NoneLive
  <2>3. PICK u \in Users, w \in Workspaces, g \in Roles : u = t.target /\ w = t.ws /\ g = t.grant
    BY <1>3
  <2>4. rows' = Append(rows, [user |-> u, ws |-> w, role |-> g, live |-> TRUE])
    BY <2>1, <2>3 DEF Inserted
  <2>8. PICK x \in Row : x.user = u /\ x.ws = w /\ x.role = g /\ rows' = Append(rows, x)
    BY <2>4 DEF Row
  <2>5. AccountsGrow(account, account) /\ account[x.user] # "none" /\ x.role # "OWNER"
    BY <1>3, <1>4, <2>3, <2>8 DEF AccountsGrow
  <2>6. NoneLive(rows, x.user, x.ws)
    BY <2>2, <2>3, <2>8
  <2>7. /\ rows' \in Seq(Row) /\ Grows(rows, rows') /\ RowsOK(rows', account)
        /\ \A i \in DOMAIN rows : i \in DOMAIN rows' /\ rows'[i] = rows[i]
        /\ \A i \in DOMAIN rows' : i \in DOMAIN rows \/ rows'[i] = x
    <3>1. rows \in Seq(Row) /\ RowsOK(rows, account)
      OBVIOUS
    <3>2. rows' \in Seq(Row) /\ Grows(rows, rows') /\ RowsOK(rows', account)
      BY <2>5, <2>6, <2>8, <3>1, RowAdded
    <3>3. \A i \in DOMAIN rows : i \in DOMAIN rows' /\ rows'[i] = rows[i]
      BY <2>5, <2>6, <2>8, <3>1, RowAdded
    <3>4. \A i \in DOMAIN rows' : i \in DOMAIN rows \/ rows'[i] = x
      BY <2>5, <2>6, <2>8, <3>1, RowAdded
    <3>. QED BY <3>2, <3>3, <3>4
  <2>. QED BY <1>1, <2>3, <2>7, <2>8
<1>. QED BY <1>5, <1>6

LEMMA InsertsStep == ASSUME AccessInv, NEW q \in Requests, UpsertInserts(q) PROVE AccessInv'
BY InsertsRows, RowsStep DEF UpsertInserts

LEMMA WritesRows ==
  ASSUME AccessInv, NEW q \in Requests, MemberWrites(q)
  PROVE  /\ rows' \in Seq(Row) /\ Grows(rows, rows') /\ RowsOK(rows', account)
         /\ DOMAIN rows' = DOMAIN rows /\ \A i \in DOMAIN rows : i # task[q].row => rows'[i] = rows[i]
<1>. USE AccessFacts
<1>1. PICK t \in TaskType : t = task[q]
  OBVIOUS
<1>2. t.pc = "write" /\ t.op \in MemberOps
  BY <1>1 DEF MemberWrites
<1>3. /\ t.grant \in Roles /\ t.grant # "OWNER" /\ t.row \in DOMAIN rows
      /\ rows[t.row].user = t.target /\ rows[t.row].ws = t.ws /\ rows[t.row].role # "OWNER"
  BY <1>1, <1>2, Writer DEF Upserting
<1>4. PICK y \in Row : y = rows[t.row]
  BY <1>3, RowFacts
<1>5. \E x \in Row : /\ rows' = [rows EXCEPT ![t.row] = x]
                     /\ x.user = y.user /\ x.ws = y.ws /\ x.role # "OWNER" /\ (x.live => y.live)
  <2>1. CASE t.op = "remove"
    <3>. DEFINE x == [y EXCEPT !.live = FALSE]
    <3>1. rows' = [rows EXCEPT ![t.row] = x]
      BY <1>1, <1>4, <2>1 DEF MemberWrites
    <3>2. x \in Row /\ x.user = y.user /\ x.ws = y.ws /\ x.role = y.role /\ ~x.live
      BY DEF Row
    <3>. QED BY <1>3, <1>4, <3>1, <3>2
  <2>2. CASE t.op # "remove"
    <3>. DEFINE x == [y EXCEPT !.role = t.grant]
    <3>1. rows' = [rows EXCEPT ![t.row] = x]
      BY <1>1, <1>4, <2>2 DEF MemberWrites
    <3>2. x \in Row /\ x.user = y.user /\ x.ws = y.ws /\ x.role = t.grant /\ (x.live <=> y.live)
      BY <1>3 DEF Row
    <3>. QED BY <1>3, <3>1, <3>2
  <2>. QED BY <2>1, <2>2
<1>6. PICK x \in Row : /\ rows' = [rows EXCEPT ![t.row] = x]
                      /\ x.user = y.user /\ x.ws = y.ws /\ x.role # "OWNER" /\ (x.live => y.live)
  BY <1>5
<1>. QED BY <1>1, <1>3, <1>4, <1>6, RowWritten

LEMMA WritesStep == ASSUME AccessInv, NEW q \in Requests, MemberWrites(q) PROVE AccessInv'
BY WritesRows, RowsStep DEF MemberWrites

LEMMA MemberFindsStep == ASSUME AccessInv, NEW q \in Requests, MemberFinds(q) PROVE AccessInv'
<1>. USE AccessFacts
<1>1. account' = account /\ rows' = rows /\ session' = session
  BY DEF MemberFinds
<1>2. CASE Finishes(q)
  BY <1>1, <1>2, FinishesStep
<1>3. CASE ~Finishes(q)
  <2>1. PICK t \in TaskType : t = task[q] /\ TaskOK(t, rows, account) /\ Held(t, session)
    OBVIOUS
  <2>2. t.pc = "find" /\ t.op \in {"role", "remove"}
    BY <2>1 DEF MemberFinds
  <2>3. PICK i \in FindUnique(t.target, t.ws) :
          /\ i # 0 /\ CanManage(t.role, rows[i].role, t.target = t.by)
          /\ task' = [task EXCEPT ![q].row = i, ![q].pc = "write"]
    BY <1>3, <2>1 DEF MemberFinds
  <2>4. i \in DOMAIN rows /\ rows[i].user = t.target /\ rows[i].ws = t.ws /\ i \in Nat
    BY <2>3 DEF FindUnique, Of
  <2>5. t.target # t.by /\ rows[i].role # "OWNER"
    BY <2>3 DEF CanManage
  <2>. DEFINE n == [t EXCEPT !.row = i, !.pc = "write"]
  <2>6. task' = [task EXCEPT ![q] = n]
    BY <2>1, <2>3
  <2>7. n \in TaskType /\ n.pc = "write" /\ n.row = i /\ Alike(n, t)
    BY <2>4 DEF TaskType, Pcs, Alike
  <2>. HIDE DEF n
  <2>8. RequestOK(t, rows, account) /\ MemberOK(t, rows, account)
    BY <2>1, <2>2 DEF TaskOK, Asking, MemberOps
  <2>9. RequestOK(n, rows, account)
    BY <2>2, <2>7, <2>8 DEF RequestOK, Alike, Ops, MemberOps, Upserting
  <2>10. MemberOK(n, rows, account)
    BY <2>2, <2>4, <2>5, <2>7, <2>8 DEF MemberOK, Alike
  <2>11. TaskOK(n, rows, account) /\ Held(n, session)
    BY <2>1, <2>2, <2>7, <2>9, <2>10 DEF TaskOK, Held, Alike, Asking, Signing
  <2>12. \A p \in Requests : p # q /\ (n.pc \in Signing \/ task[p].pc \in Signing) => task[p].sid # n.sid
    BY <2>1, <2>7, StaysApart DEF Alike, Signing
  <2>. QED BY <1>1, <2>6, <2>7, <2>11, <2>12, TaskMoves
<1>. QED BY <1>2, <1>3

LEMMA SwitchFindsStep == ASSUME AccessInv, NEW q \in Requests, SwitchFinds(q) PROVE AccessInv'
<1>. USE AccessFacts
<1>1. account' = account /\ rows' = rows /\ session' = session
  BY DEF SwitchFinds
<1>2. CASE Finishes(q)
  BY <1>1, <1>2, FinishesStep
<1>3. CASE ~Finishes(q)
  <2>1. PICK t \in TaskType : t = task[q] /\ TaskOK(t, rows, account) /\ Held(t, session)
    OBVIOUS
  <2>2. t.pc = "find" /\ t.op = "switch" /\ Of(t.by, t.goal) # {} /\ Proceeds(q, "write")
    BY <1>3, <2>1 DEF SwitchFinds
  <2>3. PICK n \in TaskType : task' = [task EXCEPT ![q] = n] /\ n.pc = "write" /\ Alike(n, t)
    BY <2>1, <2>2, ProceedsMoves DEF Pcs
  <2>4. Belongs(rows, t.by, t.goal)
    BY <2>2 DEF Of, Belongs
  <2>5. RequestOK(t, rows, account)
    BY <2>1, <2>2 DEF TaskOK, Asking
  <2>6. RequestOK(n, rows, account) /\ n.op \notin MemberOps
    BY <2>2, <2>3, <2>4, <2>5 DEF RequestOK, Alike, Ops, MemberOps, Upserting
  <2>7. TaskOK(n, rows, account) /\ Held(n, session)
    BY <2>1, <2>2, <2>3, <2>6 DEF TaskOK, Held, Alike, Asking, Signing
  <2>8. \A p \in Requests : p # q /\ (n.pc \in Signing \/ task[p].pc \in Signing) => task[p].sid # n.sid
    BY <2>1, <2>3, StaysApart DEF Alike, Signing
  <2>. QED BY <1>1, <2>3, <2>7, <2>8, TaskMoves
<1>. QED BY <1>2, <1>3

SessionRow == [user : Users \union {NoOne}, active : Workspaces \union {NoWs}]
SessionOK(v, r) == v = NoSession \/ (v.user \in Users /\ (v.active # NoWs => Belongs(r, v.user, v.active)))

\* A step that writes one session.
LEMMA SessionStep ==
  ASSUME AccessInv, NEW q \in Requests, NEW n \in TaskType, task' = [task EXCEPT ![q] = n],
         account' = account, rows' = rows, NEW s \in Sessions, NEW v \in SessionRow, SessionOK(v, rows),
         session' = [session EXCEPT ![s] = v],
         \A p \in Requests : p # q => Held(task[p], session'),
         TaskOK(n, rows, account), Held(n, session'),
         n = NoTask \/ (n.sid = task[q].sid /\ (n.pc \in Signing => task[q].pc \in Signing))
  PROVE  AccessInv'
<1>. USE AccessFacts
<1>1. session' \in [Sessions -> [user : Users \union {NoOne}, active : Workspaces \union {NoWs}]]
  BY DEF SessionRow
<1>2. SessionsOK(session', rows)
  BY DEF SessionsOK, SessionOK
<1>3. AccountsGrow(account, account)
  BY DEF AccountsGrow
<1>4. \A p \in Requests : p # q /\ (n.pc \in Signing \/ task[p].pc \in Signing) => task[p].sid # n.sid
  BY StaysApart
<1>. QED BY <1>1, <1>2, <1>3, <1>4, GrowsSame, StepKeeps

\* A session stays its user's, or is removed.
LEMMA StaysHeld ==
  ASSUME AccessInv, NEW s \in Sessions, session[s] # NoSession, NEW v \in SessionRow,
         v = NoSession \/ v.user = session[s].user, session' = [session EXCEPT ![s] = v], NEW p \in Requests
  PROVE  Held(task[p], session')
<1>1. PICK t \in TaskType : t = task[p] /\ TaskOK(t, rows, account) /\ Held(t, session)
  BY AccessFacts
<1>2. t.pc \in Asking \union Signing => t.sid \in Sessions
  BY <1>1 DEF TaskOK, RequestOK, SignInOK
<1>3. session'[s] = v /\ \A x \in Sessions : x # s => session'[x] = session[x]
  BY AccessFacts
<1>4. ASSUME t.pc \in Asking PROVE session'[t.sid] = NoSession \/ session'[t.sid].user = t.by
  BY <1>1, <1>2, <1>3, <1>4 DEF Held
<1>5. ASSUME t.pc \in Signing PROVE session'[t.sid] = NoSession
  BY <1>1, <1>2, <1>3, <1>5 DEF Held
<1>. QED BY <1>1, <1>4, <1>5 DEF Held

\* Another workspace becomes the active one of a session.
LEMMA ActiveWritten ==
  ASSUME AccessInv, NEW s \in Sessions, session[s] # NoSession, NEW w \in Workspaces \union {NoWs},
         w # NoWs => Belongs(rows, session[s].user, w), session' = [session EXCEPT ![s].active = w]
  PROVE  \E v \in SessionRow : /\ session' = [session EXCEPT ![s] = v] /\ SessionOK(v, rows)
                               /\ v.user = session[s].user
<1>1. PICK y \in SessionRow : y = session[s] /\ y.user \in Users
  BY AccessFacts DEF SessionRow, SessionsOK
<1>. DEFINE v == [y EXCEPT !.active = w]
<1>2. session' = [session EXCEPT ![s] = v]
  BY <1>1
<1>3. v \in SessionRow /\ v.user = y.user /\ v.active = w
  BY DEF SessionRow
<1>. HIDE DEF v
<1>4. SessionOK(v, rows)
  BY <1>1, <1>3 DEF SessionOK
<1>. QED BY <1>1, <1>2, <1>3, <1>4

LEMMA FallsBackStep == ASSUME AccessInv, NEW q \in Requests, FallsBack(q) PROVE AccessInv'
<1>. USE AccessFacts
<1>1. account' = account /\ rows' = rows
  BY DEF FallsBack
<1>2. PICK t \in TaskType : t = task[q] /\ TaskOK(t, rows, account) /\ Held(t, session)
  OBVIOUS
<1>3. t.pc = "pin"
  BY <1>2 DEF FallsBack
<1>4. RequestOK(t, rows, account) /\ t.by \in Users /\ t.sid \in Sessions /\ t.ws # NoWs /\ Belongs(rows, t.by, t.ws)
  BY <1>2, <1>3 DEF TaskOK, Asking, RequestOK
<1>5. CASE session[t.sid] = NoSession
  BY <1>1, <1>2, <1>5, FinishesStep DEF FallsBack
<1>6. CASE session[t.sid] # NoSession
  <2>1. session[t.sid].user = t.by
    BY <1>2, <1>3, <1>6 DEF Held, Asking
  <2>2. session' = [session EXCEPT ![t.sid].active = t.ws]
    BY <1>2, <1>6 DEF FallsBack
  <2>3. t.ws \in Workspaces \union {NoWs}
    BY <1>2 DEF TaskType
  <2>4. PICK v \in SessionRow : session' = [session EXCEPT ![t.sid] = v] /\ SessionOK(v, rows) /\ v.user = session[t.sid].user
    BY <1>4, <1>6, <2>1, <2>2, <2>3, ActiveWritten
  <2>5. \A p \in Requests : Held(task[p], session')
    BY <1>4, <1>6, <2>4, StaysHeld
  <2>6. CASE t.op = "refused"
    <3>1. task' = [task EXCEPT ![q] = NoTask]
      BY <1>2, <2>6 DEF FallsBack, Finishes
    <3>. QED BY <1>1, <1>4, <2>4, <2>5, <3>1, NoTaskFacts, SessionStep
  <2>7. CASE t.op # "refused"
    <3>1. Proceeds(q, "find")
      BY <1>2, <1>6, <2>7 DEF FallsBack
    <3>2. PICK n \in TaskType : task' = [task EXCEPT ![q] = n] /\ n.pc = "find" /\ Alike(n, t)
      BY <1>2, <3>1, ProceedsMoves DEF Pcs
    <3>3. RequestOK(n, rows, account)
      BY <1>3, <1>4, <2>7, <3>2 DEF RequestOK, Alike, Upserting
    <3>4. n.op \in MemberOps => MemberOK(n, rows, account)
      BY <1>2, <1>3, <3>2 DEF TaskOK, Asking, MemberOK, Alike, Upserting
    <3>5. TaskOK(n, rows, account)
      BY <3>2, <3>3, <3>4 DEF TaskOK, Asking, Signing
    <3>6. Held(n, session')
      BY <1>2, <1>3, <2>5, <3>2 DEF Held, Alike, Asking, Signing
    <3>7. n.sid = task[q].sid /\ n.pc \notin Signing
      BY <1>2, <3>2 DEF Alike, Signing
    <3>. QED BY <1>1, <1>4, <2>4, <2>5, <3>2, <3>5, <3>6, <3>7, SessionStep
  <2>. QED BY <2>6, <2>7
<1>. QED BY <1>5, <1>6

LEMMA SwitchWritesStep == ASSUME AccessInv, NEW q \in Requests, SwitchWrites(q) PROVE AccessInv'
<1>. USE AccessFacts
<1>1. account' = account /\ rows' = rows /\ Finishes(q)
  BY DEF SwitchWrites
<1>2. PICK t \in TaskType : t = task[q] /\ TaskOK(t, rows, account) /\ Held(t, session)
  OBVIOUS
<1>3. t.pc = "write" /\ t.op = "switch"
  BY <1>2 DEF SwitchWrites
<1>4. t.by \in Users /\ t.sid \in Sessions /\ Belongs(rows, t.by, t.goal)
  BY <1>2, <1>3 DEF TaskOK, Asking, RequestOK
<1>5. CASE session[t.sid] = NoSession
  BY <1>1, <1>2, <1>5, FinishesStep DEF SwitchWrites
<1>6. CASE session[t.sid] # NoSession
  <2>1. session[t.sid].user = t.by
    BY <1>2, <1>3, <1>6 DEF Held, Asking
  <2>2. session' = [session EXCEPT ![t.sid].active = t.goal]
    BY <1>2, <1>6 DEF SwitchWrites
  <2>3. t.goal \in Workspaces \union {NoWs}
    BY <1>2 DEF TaskType
  <2>4. PICK v \in SessionRow : session' = [session EXCEPT ![t.sid] = v] /\ SessionOK(v, rows) /\ v.user = session[t.sid].user
    BY <1>4, <1>6, <2>1, <2>2, <2>3, ActiveWritten
  <2>5. \A p \in Requests : Held(task[p], session')
    BY <1>4, <1>6, <2>4, StaysHeld
  <2>6. task' = [task EXCEPT ![q] = NoTask]
    BY <1>1 DEF Finishes
  <2>. QED BY <1>1, <1>4, <2>4, <2>5, <2>6, NoTaskFacts, SessionStep
<1>. QED BY <1>5, <1>6

LEMMA LogsOutStep == ASSUME AccessInv, NEW q \in Requests, LogsOut(q) PROVE AccessInv'
<1>. USE AccessFacts
<1>1. account' = account /\ rows' = rows /\ Finishes(q)
  BY DEF LogsOut
<1>2. PICK t \in TaskType : t = task[q] /\ TaskOK(t, rows, account) /\ Held(t, session)
  OBVIOUS
<1>3. t.pc = "find" /\ session' = [session EXCEPT ![t.sid] = NoSession]
  BY <1>2 DEF LogsOut
<1>4. t.sid \in Sessions
  BY <1>2, <1>3 DEF TaskOK, Asking, RequestOK
<1>5. CASE session[t.sid] = NoSession
  <2>1. session' = session
    BY <1>3, <1>5
  <2>. QED BY <1>1, <2>1, FinishesStep
<1>6. CASE session[t.sid] # NoSession
  <2>1. NoSession \in SessionRow /\ SessionOK(NoSession, rows)
    BY DEF NoSession, SessionRow, SessionOK
  <2>2. \A p \in Requests : Held(task[p], session')
    BY <1>3, <1>4, <1>6, <2>1, StaysHeld
  <2>3. task' = [task EXCEPT ![q] = NoTask]
    BY <1>1 DEF Finishes
  <2>. QED BY <1>1, <1>3, <1>4, <2>1, <2>2, <2>3, NoTaskFacts, SessionStep
<1>. QED BY <1>5, <1>6

LEMMA CreatesSessionStep == ASSUME AccessInv, NEW q \in Requests, CreatesSession(q) PROVE AccessInv'
<1>. USE AccessFacts
<1>1. account' = account /\ rows' = rows /\ Finishes(q)
  BY DEF CreatesSession
<1>2. PICK t \in TaskType : t = task[q] /\ TaskOK(t, rows, account) /\ Held(t, session)
  OBVIOUS
<1>3. t.pc = "session" /\ t.by \in Users /\ t.sid \in Sessions /\ (t.ws # NoWs => Belongs(rows, t.by, t.ws))
  BY <1>2 DEF CreatesSession, TaskOK, Signing, SignInOK
<1>4. t.ws \in Workspaces \union {NoWs}
  BY <1>2 DEF TaskType
<1>5. PICK v \in SessionRow : v.user = t.by /\ v.active = t.ws /\ session' = [session EXCEPT ![t.sid] = v]
  <2>. DEFINE v == [user |-> t.by, active |-> t.ws]
  <2>1. v \in SessionRow /\ v.user = t.by /\ v.active = t.ws
    BY <1>3, <1>4 DEF SessionRow
  <2>2. session' = [session EXCEPT ![t.sid] = v]
    BY <1>2 DEF CreatesSession
  <2>. QED BY <2>1, <2>2
<1>6. SessionOK(v, rows)
  BY <1>3, <1>5 DEF SessionOK
<1>7. ASSUME NEW p \in Requests, p # q PROVE Held(task[p], session')
  <2>1. PICK o \in TaskType : o = task[p] /\ TaskOK(o, rows, account) /\ Held(o, session)
    OBVIOUS
  <2>2. o.sid # t.sid
    BY <1>2, <1>3, <1>7, <2>1 DEF Signing
  <2>3. o.pc \in Asking \union Signing => o.sid \in Sessions
    BY <2>1 DEF TaskOK, RequestOK, SignInOK
  <2>4. o.pc \in Asking \union Signing => session'[o.sid] = session[o.sid]
    BY <1>5, <2>2, <2>3
  <2>. QED BY <2>1, <2>4 DEF Held
<1>8. task' = [task EXCEPT ![q] = NoTask]
  BY <1>1 DEF Finishes
<1>. QED BY <1>1, <1>3, <1>5, <1>6, <1>7, <1>8, NoTaskFacts, SessionStep

LEMMA OldestOf ==
  ASSUME NEW T \in SUBSET Nat, T # {}
  PROVE  Oldest(T) \in T
BY LeastOf DEF Oldest

\* What the context of a session says.
LEMMA ContextFacts ==
  ASSUME AccessInv, NEW s \in Sessions
  PROVE  \/ Context(s).ws = NoWs /\ Context(s).role = "none"
         \/ /\ Context(s).ws \in Workspaces /\ Context(s).role \in Roles
            /\ Belongs(rows, session[s].user, Context(s).ws)
<1>. DEFINE access == Access(session[s].user)
            pinned == {i \in access : rows[i].ws = session[s].active}
            pool == IF pinned # {} THEN pinned ELSE access
            pick == Oldest(pool)
<1>1. CASE access = {}
  BY <1>1 DEF Context
<1>2. CASE access # {}
  <2>1. Context(s) = [ws |-> rows[pick].ws, role |-> rows[pick].role]
    BY <1>2 DEF Context
  <2>2. pool \in SUBSET Nat /\ pool # {} /\ pool \subseteq access
    <3>1. rows \in Seq(Row)
      BY AccessFacts
    <3>2. DOMAIN rows \subseteq Nat
      BY <3>1
    <3>. QED BY <1>2, <3>2 DEF Access
  <2>3. pick \in access
    <3>. HIDE DEF pool
    <3>. QED BY <2>2, OldestOf
  <2>. HIDE DEF pick
  <2>4. pick \in DOMAIN rows /\ rows[pick].user = session[s].user
    BY <2>3 DEF Access
  <2>5. rows[pick].ws \in Workspaces /\ rows[pick].role \in Roles
    BY <2>4, AccessFacts, RowFacts
  <2>6. Belongs(rows, session[s].user, rows[pick].ws)
    BY <2>4 DEF Belongs
  <2>. QED BY <2>1, <2>5, <2>6
<1>. QED BY <1>1, <1>2

\* What the role gate admits: a membership operation is an administrator's.
LEMMA Gate ==
  ASSUME NEW c \in Roles \union {"none"}, NEW i \in Inputs, HasRequiredRole(c, Needs(i.op)),
         i.op \in {"add", "role"} => CanAssign(c, i.grant)
  PROVE  /\ i.op \in Ops /\ i.target \in Users \union {NoOne} /\ i.grant \in Roles /\ i.goal \in Workspaces \union {NoWs}
         /\ i.op \in MemberOps => i.target \in Users /\ c \in {"OWNER", "ADMIN"} /\ i.grant # "OWNER"
<1>1. /\ i.op \in Ops /\ i.target \in Users \union {NoOne} /\ i.grant \in Roles /\ i.goal \in Workspaces \union {NoWs}
      /\ (i.target # NoOne <=> i.op \in MemberOps) /\ (i.op \notin {"add", "role"} => i.grant = "MEMBER")
  BY DEF Inputs
<1>2. ASSUME i.op \in MemberOps PROVE c \in {"OWNER", "ADMIN"}
  <2>1. Rank[c] >= Rank["ADMIN"]
    BY <1>2 DEF HasRequiredRole, Needs, MemberOps
  <2>2. Rank["ADMIN"] = 2 /\ Rank["MEMBER"] = 1 /\ Rank["none"] = 0
    BY DEF Rank
  <2>3. c # "MEMBER" /\ c # "none"
    BY <2>1, <2>2
  <2>. QED BY <2>3 DEF Roles
<1>3. ASSUME i.op \in MemberOps PROVE i.grant # "OWNER"
  BY <1>1, <1>3 DEF CanAssign
<1>. QED BY <1>1, <1>2, <1>3

LEMMA AsksStep == ASSUME AccessInv, NEW q \in Requests, Asks(q) PROVE AccessInv'
<1>. USE AccessFacts
<1>1. account' = account /\ rows' = rows /\ session' = session
  BY DEF Asks
<1>2. PICK s \in Sessions : task[q].pc = "idle" /\ session[s] # NoSession /\
        LET c == Context(s)
            pins == c.ws \notin {NoWs, session[s].active}
            admitted == {i \in Inputs : /\ HasRequiredRole(c.role, Needs(i.op))
                                        /\ i.op \in {"add", "role"} => CanAssign(c.role, i.grant)}
        IN \E i \in admitted \union (IF pins THEN {Refused} ELSE {}) :
           /\ task' = [task EXCEPT ![q] =
                [NoTask EXCEPT !.pc = IF pins THEN "pin" ELSE "find", !.op = i.op,
                   !.sid = s, !.by = session[s].user, !.ws = c.ws,
                   !.role = IF i.op \in MemberOps THEN c.role ELSE "none",
                   !.target = i.target, !.grant = i.grant, !.goal = i.goal]]
           /\ UNCHANGED <<account, rows, session>>
  BY DEF Asks
<1>. DEFINE c == Context(s)
            pins == c.ws \notin {NoWs, session[s].active}
            admitted == {i \in Inputs : /\ HasRequiredRole(c.role, Needs(i.op))
                                        /\ i.op \in {"add", "role"} => CanAssign(c.role, i.grant)}
<1>3. PICK i \in admitted \union (IF pins THEN {Refused} ELSE {}) :
        task' = [task EXCEPT ![q] =
          [NoTask EXCEPT !.pc = IF pins THEN "pin" ELSE "find", !.op = i.op,
             !.sid = s, !.by = session[s].user, !.ws = c.ws,
             !.role = IF i.op \in MemberOps THEN c.role ELSE "none",
             !.target = i.target, !.grant = i.grant, !.goal = i.goal]]
  BY <1>2
<1>4. PICK u \in Users : u = session[s].user
  BY <1>2 DEF SessionsOK
<1>5. PICK w \in Workspaces \union {NoWs}, role \in Roles \union {"none"} :
        w = c.ws /\ role = c.role /\ (w # NoWs => Belongs(rows, u, w)) /\ (role # "none" => w # NoWs)
  BY <1>4, ContextFacts, AccessAssumption
<1>. HIDE DEF c
<1>6. PICK to \in {"pin", "find"} : to = (IF pins THEN "pin" ELSE "find") /\ (to = "pin" => w # NoWs)
  BY <1>5
<1>7. /\ i.op \in Ops \/ (to = "pin" /\ i.op = "refused")
      /\ i.target \in Users \union {NoOne} /\ i.grant \in Roles /\ i.goal \in Workspaces \union {NoWs}
      /\ i.op \in MemberOps => i.target \in Users /\ role \in {"OWNER", "ADMIN"} /\ i.grant # "OWNER"
  <2>1. CASE i \in admitted
    <3>1. i \in Inputs /\ HasRequiredRole(role, Needs(i.op)) /\ (i.op \in {"add", "role"} => CanAssign(role, i.grant))
      BY <1>5, <2>1
    <3>. QED BY <3>1, Gate
  <2>2. CASE i \notin admitted
    <3>1. pins /\ i = Refused
      BY <1>3, <2>2
    <3>2. to = "pin"
      BY <1>6, <3>1
    <3>. QED BY <3>1, <3>2 DEF Refused, Roles, MemberOps
  <2>. QED BY <2>1, <2>2
<1>. HIDE DEF pins, admitted
<1>8. PICK o \in Ops \union {"refused"}, tg \in Users \union {NoOne}, g \in Roles, gl \in Workspaces \union {NoWs} :
        o = i.op /\ tg = i.target /\ g = i.grant /\ gl = i.goal
  BY <1>7
<1>9. PICK rl \in Roles \union {"none"} : rl = IF o \in MemberOps THEN role ELSE "none"
  OBVIOUS
<1>. DEFINE m == [NoTask EXCEPT !.pc = to, !.op = o, !.sid = s, !.by = u, !.ws = w]
            n == [m EXCEPT !.role = rl, !.target = tg, !.grant = g, !.goal = gl]
<1>10. task' = [task EXCEPT ![q] = n]
  BY <1>3, <1>4, <1>5, <1>6, <1>8, <1>9
<1>11. n \in TaskType
  <2>1. to \in Pcs /\ o \in Ops \union {"none", "refused", "register", "login", "google"} /\ NoTask \in TaskType
    BY NoTaskFacts DEF Pcs
  <2>2. m \in TaskType
    BY <2>1 DEF TaskType
  <2>. HIDE DEF m
  <2>. QED BY <2>2 DEF TaskType
<1>12. /\ n.pc = to /\ n.op = o /\ n.sid = s /\ n.by = u /\ n.ws = w /\ n.role = rl
       /\ n.target = tg /\ n.grant = g /\ n.goal = gl
  BY DEF NoTask
<1>. HIDE DEF n
<1>13. RequestOK(n, rows, account)
  BY <1>5, <1>6, <1>7, <1>8, <1>12 DEF RequestOK, Upserting
<1>14. n.op \in MemberOps => MemberOK(n, rows, account)
  <2>. SUFFICES ASSUME n.op \in MemberOps PROVE MemberOK(n, rows, account)
    OBVIOUS
  <2>1. tg \in Users /\ rl = role /\ role \in {"OWNER", "ADMIN"} /\ g # "OWNER" /\ w \in Workspaces
    BY <1>5, <1>7, <1>8, <1>9, <1>12
  <2>2. n.pc \notin Upserting \union {"write"} /\ n.pc \notin {"revive", "write"}
    BY <1>12 DEF Upserting
  <2>. QED BY <1>12, <2>1, <2>2 DEF MemberOK
<1>15. TaskOK(n, rows, account) /\ n.pc \notin Signing
  BY <1>12, <1>13, <1>14 DEF TaskOK, Asking, Signing
<1>16. Held(n, session)
  BY <1>4, <1>12, <1>15 DEF Held
<1>17. ASSUME NEW p \in Requests, p # q, task[p].pc \in Signing PROVE task[p].sid # n.sid
  <2>1. session[task[p].sid] = NoSession
    BY <1>17 DEF Held
  <2>. QED BY <1>2, <1>12, <2>1
<1>18. \A p \in Requests : p # q /\ (n.pc \in Signing \/ task[p].pc \in Signing) => task[p].sid # n.sid
  BY <1>15, <1>17
<1>. QED BY <1>1, <1>10, <1>11, <1>15, <1>16, <1>18, TaskMoves

\* What signing in starts.
Starts(q, n, op, u, w, to) ==
  /\ n \in TaskType /\ task' = [task EXCEPT ![q] = n]
  /\ n.pc = to /\ n.op = op /\ n.by = u /\ n.ws = w /\ n.sid \in Sessions /\ n.sid # "none"
  /\ Held(n, session)
  /\ \A p \in Requests : task[p].sid # n.sid

LEMMA SignsInStarts ==
  ASSUME AccessInv, NEW q \in Requests, NEW op \in {"register", "login", "google"}, NEW u \in Users,
         NEW w \in Workspaces \union {NoWs}, NEW to \in Signing, SignsIn(q, op, u, w, to)
  PROVE  session' = session /\ \E n : Starts(q, n, op, u, w, to)
<1>. USE AccessFacts
<1>1. session' = session /\ task[q].pc = "idle"
  BY DEF SignsIn
<1>2. PICK s \in Sessions :
        /\ session[s] = NoSession /\ \A p \in Requests : task[p].sid # s
        /\ task' = [task EXCEPT ![q] = [NoTask EXCEPT !.pc = to, !.op = op, !.sid = s, !.by = u, !.ws = w]]
  BY DEF SignsIn
<1>. DEFINE n == [NoTask EXCEPT !.pc = to, !.op = op, !.sid = s, !.by = u, !.ws = w]
<1>3. n \in TaskType
  <2>1. to \in Pcs /\ NoTask \in TaskType
    BY NoTaskFacts DEF Pcs, Signing
  <2>. QED BY <2>1 DEF TaskType
<1>4. n.pc = to /\ n.op = op /\ n.sid = s /\ n.by = u /\ n.ws = w
  BY DEF NoTask
<1>5. task' = [task EXCEPT ![q] = n]
  BY <1>2
<1>. HIDE DEF n
<1>6. s # "none"
  BY <1>1, <1>2 DEF TaskOK, NoTask
<1>7. Held(n, session)
  BY <1>2, <1>4 DEF Held, Asking, Signing
<1>. QED BY <1>1, <1>2, <1>3, <1>4, <1>5, <1>6, <1>7 DEF Starts

LEMMA RegistersStep == ASSUME AccessInv, NEW q \in Requests, Registers(q) PROVE AccessInv'
<1>. USE AccessFacts
<1>1. PICK u \in Users : account[u] = "none" /\ SignsIn(q, "register", u, NoWs, "hash") /\ account' = account /\ rows' = rows
  BY DEF Registers
<1>2. session' = session /\ \E n : Starts(q, n, "register", u, NoWs, "hash")
  BY <1>1, SignsInStarts DEF Signing
<1>3. PICK n : Starts(q, n, "register", u, NoWs, "hash")
  BY <1>2
<1>4. TaskOK(n, rows, account)
  BY <1>3 DEF Starts, TaskOK, SignInOK, Asking, Signing
<1>5. /\ n \in TaskType /\ task' = [task EXCEPT ![q] = n] /\ Held(n, session)
      /\ \A p \in Requests : p # q /\ (n.pc \in Signing \/ task[p].pc \in Signing) => task[p].sid # n.sid
  BY <1>3 DEF Starts
<1>. QED BY <1>1, <1>2, <1>4, <1>5, TaskMoves

LEMMA LogsInStep == ASSUME AccessInv, NEW q \in Requests, LogsIn(q) PROVE AccessInv'
<1>. USE AccessFacts
<1>1. PICK u \in Users : account[u] = "password" /\ SignsIn(q, "login", u, NoWs, "access") /\ account' = account /\ rows' = rows
  BY DEF LogsIn
<1>2. session' = session /\ \E n : Starts(q, n, "login", u, NoWs, "access")
  BY <1>1, SignsInStarts DEF Signing
<1>3. PICK n : Starts(q, n, "login", u, NoWs, "access")
  BY <1>2
<1>4. TaskOK(n, rows, account)
  BY <1>1, <1>3 DEF Starts, TaskOK, SignInOK, Asking, Signing
<1>5. /\ n \in TaskType /\ task' = [task EXCEPT ![q] = n] /\ Held(n, session)
      /\ \A p \in Requests : p # q /\ (n.pc \in Signing \/ task[p].pc \in Signing) => task[p].sid # n.sid
  BY <1>3 DEF Starts
<1>. QED BY <1>1, <1>2, <1>4, <1>5, TaskMoves

\* A member is added, or somebody added them first: what is true of the rows then.
Joined(n, b, u, w) ==
  /\ n \in Seq(Row) /\ Grows(rows, n) /\ RowsOK(n, b) /\ Belongs(n, u, w)
  /\ \A i \in DOMAIN n : (i \in DOMAIN rows /\ n[i] = rows[i]) \/ n[i].role = "MEMBER"

LEMMA MemberJoins ==
  ASSUME AccessInv, NEW b, AccountsGrow(account, b), NEW u \in Users, b[u] # "none", NEW w \in Workspaces,
         IndexAllows(u, w), NEW n, n = Inserted(u, w, "MEMBER")
  PROVE  Joined(n, b, u, w)
<1>1. rows \in Seq(Row) /\ RowsOK(rows, account)
  BY AccessFacts
<1>2. PICK x \in Row : x.user = u /\ x.ws = w /\ x.role = "MEMBER" /\ n = Append(rows, x)
  BY DEF Row, Roles, Inserted
<1>3. NoneLive(rows, x.user, x.ws) /\ b[x.user] # "none" /\ x.role # "OWNER"
  BY <1>2 DEF IndexAllows, LiveOf, Of, NoneLive
<1>4. n \in Seq(Row) /\ Grows(rows, n) /\ RowsOK(n, b)
  <2>1. n \in Seq(Row)
    BY <1>1, <1>2
  <2>2. Grows(rows, n)
    BY <1>1, <1>2, <1>3, RowAdded
  <2>3. RowsOK(n, b)
    BY <1>1, <1>2, <1>3, RowAdded
  <2>. QED BY <2>1, <2>2, <2>3
<1>5. Belongs(n, x.user, x.ws)
  BY <1>1, <1>2, <1>3, RowAdded
<1>6. \A i \in DOMAIN rows : i \in DOMAIN n /\ n[i] = rows[i]
  BY <1>1, <1>2, <1>3, RowAdded
<1>7. \A i \in DOMAIN n : i \in DOMAIN rows \/ n[i] = x
  BY <1>1, <1>2, <1>3, RowAdded
<1>. QED BY <1>2, <1>4, <1>5, <1>6, <1>7 DEF Joined

LEMMA RowsOKGrows ==
  ASSUME AccessInv, NEW b, AccountsGrow(account, b)
  PROVE  RowsOK(rows, b)
<1>1. rows \in Seq(Row) /\ RowsOK(rows, account)
  BY AccessFacts
<1>2. \A i \in DOMAIN rows : rows[i].user \in Users
  BY <1>1, RowFacts
<1>. QED BY <1>1, <1>2 DEF RowsOK, AccountsGrow

LEMMA RegisterCreatesStep == ASSUME AccessInv, NEW q \in Requests, RegisterCreates(q) PROVE AccessInv'
<1>. USE AccessFacts
<1>1. rows' = rows /\ session' = session
  BY DEF RegisterCreates
<1>2. PICK t \in TaskType : t = task[q] /\ TaskOK(t, rows, account) /\ Held(t, session)
  OBVIOUS
<1>3. t.pc = "hash" /\ t.by \in Users /\ t.sid \in Sessions /\ t.sid # "none" /\ t.ws = NoWs
  BY <1>2 DEF RegisterCreates, TaskOK, Signing, SignInOK
<1>4. CASE account[t.by] = "none"
  <2>1. account' = [account EXCEPT ![t.by] = "password"] /\ Proceeds(q, "session")
    BY <1>2, <1>4 DEF RegisterCreates
  <2>2. AccountsGrow(account, account') /\ account' \in [Users -> {"none", "password", "google"}]
        /\ account'[t.by] # "none"
    BY <1>3, <2>1 DEF AccountsGrow
  <2>3. PICK n \in TaskType : task' = [task EXCEPT ![q] = n] /\ n.pc = "session" /\ Alike(n, t)
    BY <1>2, <2>1, ProceedsMoves DEF Pcs
  <2>4. TaskOK(n, rows, account')
    BY <1>3, <2>2, <2>3 DEF TaskOK, SignInOK, Asking, Signing, Alike
  <2>5. Held(n, session)
    BY <1>2, <1>3, <2>3 DEF Held, Asking, Signing, Alike
  <2>6. \A p \in Requests : p # q /\ (n.pc \in Signing \/ task[p].pc \in Signing) => task[p].sid # n.sid
    BY <1>2, <1>3, <2>3, StaysApart DEF Alike, Signing
  <2>7. RowsOK(rows, account')
    BY <2>2, RowsOKGrows
  <2>. QED BY <1>1, <2>2, <2>3, <2>4, <2>5, <2>6, <2>7, GrowsSame, StepKeeps
<1>5. CASE account[t.by] # "none"
  BY <1>1, <1>2, <1>5, FinishesStep DEF RegisterCreates
<1>. QED BY <1>4, <1>5

\* A new account may join the workspace of its domain; otherwise the rows stay.
LEMMA GoogleRows ==
  ASSUME AccessInv, NEW q \in Requests, NEW u \in GoogleUsers,
         account' = [account EXCEPT ![u] = IF @ = "none" THEN "google" ELSE @],
         rows' = IF account[u] = "none" /\ Home[u] # NoWs THEN Inserted(u, Home[u], "MEMBER") ELSE rows
  PROVE  /\ AccountsGrow(account, account') /\ account' \in [Users -> {"none", "password", "google"}]
         /\ account'[u] # "none"
         /\ (account[u] = "none" /\ Home[u] # NoWs) => Joined(rows', account', u, Home[u])
         /\ ~(account[u] = "none" /\ Home[u] # NoWs) => rows' = rows
<1>. USE AccessFacts
<1>1. u \in Users
  BY AccessAssumption
<1>2. AccountsGrow(account, account') /\ account' \in [Users -> {"none", "password", "google"}] /\ account'[u] # "none"
  BY <1>1 DEF AccountsGrow
<1>3. ASSUME account[u] = "none", Home[u] # NoWs PROVE Joined(rows', account', u, Home[u])
  <2>1. PICK w \in Workspaces : w = Home[u]
    BY <1>1, <1>3, AccessAssumption
  <2>2. IndexAllows(u, w)
    BY <1>3 DEF IndexAllows, LiveOf, Of, RowsOK
  <2>3. rows' = Inserted(u, w, "MEMBER")
    BY <1>3, <2>1
  <2>. QED BY <1>1, <1>2, <2>1, <2>2, <2>3, MemberJoins
<1>. QED BY <1>2, <1>3

LEMMA GoogleStep == ASSUME AccessInv, NEW q \in Requests, GoogleCommits(q) PROVE AccessInv'
<1>. USE AccessFacts
<1>1. PICK u \in GoogleUsers :
        LET joins == account[u] = "none" /\ Home[u] # NoWs
        IN /\ account' = [account EXCEPT ![u] = IF @ = "none" THEN "google" ELSE @]
           /\ rows' = IF joins THEN Inserted(u, Home[u], "MEMBER") ELSE rows
           /\ SignsIn(q, "google", u, IF joins THEN Home[u] ELSE NoWs, IF joins THEN "session" ELSE "access")
  BY DEF GoogleCommits
<1>2. u \in Users /\ Home[u] \in Workspaces \union {NoWs}
  BY AccessAssumption
<1>3. /\ AccountsGrow(account, account') /\ account' \in [Users -> {"none", "password", "google"}]
      /\ account'[u] # "none"
      /\ (account[u] = "none" /\ Home[u] # NoWs) => Joined(rows', account', u, Home[u])
      /\ ~(account[u] = "none" /\ Home[u] # NoWs) => rows' = rows
  BY <1>1, GoogleRows
<1>4. PICK w \in Workspaces \union {NoWs}, to \in {"session", "access"} :
        /\ SignsIn(q, "google", u, w, to)
        /\ to = "session" => w = Home[u] /\ account[u] = "none" /\ Home[u] # NoWs
  <2>1. CASE account[u] = "none" /\ Home[u] # NoWs
    BY <1>1, <1>2, <2>1
  <2>2. CASE ~(account[u] = "none" /\ Home[u] # NoWs)
    BY <1>1, <1>2, <2>2
  <2>. QED BY <2>1, <2>2
<1>5. session' = session /\ \E n : Starts(q, n, "google", u, w, to)
  BY <1>2, <1>4, SignsInStarts DEF Signing
<1>6. PICK n : Starts(q, n, "google", u, w, to)
  BY <1>5
<1>7. rows' \in Seq(Row) /\ Grows(rows, rows') /\ RowsOK(rows', account')
  <2>1. CASE account[u] = "none" /\ Home[u] # NoWs
    BY <1>3, <2>1 DEF Joined
  <2>2. CASE ~(account[u] = "none" /\ Home[u] # NoWs)
    BY <1>3, <2>2, GrowsSame, RowsOKGrows
  <2>. QED BY <2>1, <2>2
<1>8. TaskOK(n, rows', account')
  <2>1. to = "session" => Belongs(rows', u, w)
    BY <1>3, <1>4 DEF Joined
  <2>. QED BY <1>2, <1>3, <1>6, <2>1 DEF Starts, TaskOK, SignInOK, Asking, Signing
<1>9. SessionsOK(session', rows')
  BY <1>5, <1>7, SessionsStayOK
<1>10. /\ n \in TaskType /\ task' = [task EXCEPT ![q] = n] /\ Held(n, session')
       /\ \A p \in Requests : p # q /\ (n.pc \in Signing \/ task[p].pc \in Signing) => task[p].sid # n.sid
  BY <1>5, <1>6 DEF Starts
<1>11. /\ session' \in [Sessions -> [user : Users \union {NoOne}, active : Workspaces \union {NoWs}]]
       /\ \A p \in Requests : p # q => Held(task[p], session')
  BY <1>5
<1>. QED BY <1>3, <1>7, <1>8, <1>9, <1>10, <1>11, StepKeeps

\* A sign-in goes on, whatever it found.
GoesOn(q, n, w, to) ==
  /\ n \in TaskType /\ task' = [task EXCEPT ![q] = n] /\ n.pc = to /\ n.ws = w /\ n.by = task[q].by
  /\ n.sid = task[q].sid /\ Held(n, session)
  /\ \A p \in Requests : p # q /\ (n.pc \in Signing \/ task[p].pc \in Signing) => task[p].sid # n.sid

LEMMA SigningMoves ==
  ASSUME AccessInv, NEW q \in Requests, task[q].pc \in Signing,
         NEW w \in Workspaces \union {NoWs}, NEW to \in Signing,
         task' = [task EXCEPT ![q].ws = w, ![q].pc = to]
  PROVE  \E n : GoesOn(q, n, w, to)
<1>1. PICK t \in TaskType : t = task[q] /\ Held(t, session)
  BY AccessFacts
<1>. DEFINE n == [t EXCEPT !.ws = w, !.pc = to]
<1>2. task' = [task EXCEPT ![q] = n]
  BY <1>1
<1>3. n \in TaskType /\ n.pc = to /\ n.ws = w /\ n.by = t.by /\ n.sid = t.sid
  <2>1. to \in Pcs
    BY DEF Pcs, Signing
  <2>. QED BY <2>1 DEF TaskType
<1>. HIDE DEF n
<1>4. Held(n, session)
  BY <1>1, <1>3 DEF Held, Asking, Signing
<1>5. \A p \in Requests : p # q /\ (n.pc \in Signing \/ task[p].pc \in Signing) => task[p].sid # n.sid
  BY <1>1, <1>3, StaysApart
<1>. QED BY <1>1, <1>2, <1>3, <1>4, <1>5 DEF GoesOn

LEMMA LoginResolvesStep == ASSUME AccessInv, NEW q \in Requests, LoginResolves(q) PROVE AccessInv'
<1>. USE AccessFacts
<1>1. account' = account /\ rows' = rows /\ session' = session
  BY DEF LoginResolves
<1>2. PICK t \in TaskType : t = task[q] /\ TaskOK(t, rows, account)
  OBVIOUS
<1>3. t.pc = "access" /\ t.by \in Users /\ t.sid \in Sessions /\ t.sid # "none" /\ account[t.by] # "none"
  BY <1>2 DEF LoginResolves, TaskOK, Signing, SignInOK
<1>4. PICK w \in Workspaces \union {NoWs} :
        w = (IF Access(t.by) = {} THEN NoWs ELSE rows[Oldest(Access(t.by))].ws) /\ (w # NoWs => Belongs(rows, t.by, w))
  <2>1. CASE Access(t.by) = {}
    BY <2>1
  <2>2. CASE Access(t.by) # {}
    <3>1. rows \in Seq(Row)
      OBVIOUS
    <3>2. Access(t.by) \in SUBSET Nat
      BY <3>1 DEF Access
    <3>3. PICK i \in Access(t.by) : i = Oldest(Access(t.by))
      BY <2>2, <3>2, OldestOf
    <3>4. i \in DOMAIN rows /\ rows[i].user = t.by
      BY <3>3 DEF Access
    <3>5. rows[i].ws \in Workspaces
      BY <3>1, <3>4, RowFacts
    <3>6. Belongs(rows, t.by, rows[i].ws)
      BY <3>4 DEF Belongs
    <3>. QED BY <2>2, <3>3, <3>5, <3>6
  <2>. QED BY <2>1, <2>2
<1>5. PICK to \in {"join", "session"} :
        /\ to = IF Access(t.by) = {} /\ t.op = "google" /\ Home[t.by] # NoWs THEN "join" ELSE "session"
        /\ to = "join" => Home[t.by] # NoWs
  OBVIOUS
<1>6. task' = [task EXCEPT ![q].ws = w, ![q].pc = to]
  BY <1>2, <1>4, <1>5 DEF LoginResolves
<1>7. to \in Signing /\ task[q].pc \in Signing
  BY <1>2, <1>3 DEF Signing
<1>8. PICK n : GoesOn(q, n, w, to)
  BY <1>6, <1>7, SigningMoves
<1>9. TaskOK(n, rows, account)
  BY <1>2, <1>3, <1>4, <1>5, <1>8 DEF GoesOn, TaskOK, SignInOK, Asking, Signing
<1>. QED BY <1>1, <1>8, <1>9, TaskMoves DEF GoesOn

LEMMA JoinFindsStep == ASSUME AccessInv, NEW q \in Requests, JoinFinds(q) PROVE AccessInv'
<1>. USE AccessFacts
<1>1. account' = account /\ rows' = rows /\ session' = session
  BY DEF JoinFinds
<1>2. PICK t \in TaskType : t = task[q] /\ TaskOK(t, rows, account)
  OBVIOUS
<1>3. /\ t.pc = "join" /\ t.by \in Users /\ t.sid \in Sessions /\ t.sid # "none" /\ account[t.by] # "none"
      /\ Home[t.by] # NoWs
  BY <1>2 DEF JoinFinds, TaskOK, Signing, SignInOK
<1>4. PICK w \in Workspaces : w = Home[t.by]
  BY <1>3, AccessAssumption
<1>5. PICK to \in {"member", "session"} : to = IF LiveOf(t.by, w) = {} THEN "member" ELSE "session"
  OBVIOUS
<1>6. task' = [task EXCEPT ![q].ws = w, ![q].pc = to]
  BY <1>2, <1>4, <1>5 DEF JoinFinds
<1>7. to \in Signing /\ task[q].pc \in Signing /\ w \in Workspaces \union {NoWs}
  BY <1>2, <1>3 DEF Signing
<1>8. PICK n : GoesOn(q, n, w, to)
  BY <1>6, <1>7, SigningMoves
<1>9. to = "session" => Belongs(rows, t.by, w)
  BY <1>5 DEF LiveOf, Of, Belongs
<1>10. TaskOK(n, rows, account)
  BY <1>2, <1>3, <1>4, <1>8, <1>9 DEF GoesOn, TaskOK, SignInOK, Asking, Signing
<1>. QED BY <1>1, <1>8, <1>10, TaskMoves DEF GoesOn

\* Joining the workspace of one's domain, after the account was made: somebody may have added the row first.
LEMMA JoinRows ==
  ASSUME AccessInv, NEW q \in Requests, JoinCreates(q)
  PROVE  task[q].by \in Users /\ task[q].ws = Home[task[q].by] /\ Joined(rows', account, task[q].by, Home[task[q].by])
<1>. USE AccessFacts
<1>1. PICK t \in TaskType : t = task[q] /\ TaskOK(t, rows, account)
  OBVIOUS
<1>2. t.by \in Users /\ account[t.by] # "none" /\ Home[t.by] # NoWs /\ t.ws = Home[t.by]
  BY <1>1 DEF JoinCreates, TaskOK, Signing, SignInOK
<1>3. PICK w \in Workspaces : w = Home[t.by]
  BY <1>2, AccessAssumption
<1>4. CASE IndexAllows(t.by, w)
  <2>1. rows' = Inserted(t.by, w, "MEMBER")
    BY <1>1, <1>3, <1>4 DEF JoinCreates
  <2>2. AccountsGrow(account, account)
    BY DEF AccountsGrow
  <2>3. Joined(rows', account, t.by, w)
    BY <1>2, <1>4, <2>1, <2>2, MemberJoins
  <2>. QED BY <1>1, <1>2, <1>3, <2>3
<1>5. CASE ~IndexAllows(t.by, w)
  <2>1. rows' = rows
    BY <1>1, <1>3, <1>5 DEF JoinCreates
  <2>2. Belongs(rows, t.by, w)
    BY <1>5 DEF IndexAllows, LiveOf, Of, Belongs
  <2>3. Joined(rows, account, t.by, w)
    BY <2>2, GrowsSame DEF Joined
  <2>. QED BY <1>1, <1>2, <1>3, <2>1, <2>3
<1>. QED BY <1>4, <1>5

LEMMA JoinCreatesStep == ASSUME AccessInv, NEW q \in Requests, JoinCreates(q) PROVE AccessInv'
<1>. USE AccessFacts
<1>1. account' = account /\ session' = session /\ (Proceeds(q, "session") \/ (Finishes(q) /\ rows' = rows))
  BY DEF JoinCreates
<1>2. PICK t \in TaskType : t = task[q] /\ TaskOK(t, rows, account) /\ Held(t, session)
  OBVIOUS
<1>3. t.pc = "member" /\ t.by \in Users /\ t.sid \in Sessions /\ t.sid # "none" /\ account[t.by] # "none"
  BY <1>2 DEF JoinCreates, TaskOK, Signing, SignInOK
<1>4. t.ws = Home[t.by] /\ rows' \in Seq(Row) /\ Grows(rows, rows') /\ RowsOK(rows', account) /\ Belongs(rows', t.by, t.ws)
  BY <1>2, JoinRows DEF Joined
<1>5. CASE Proceeds(q, "session")
  <2>1. PICK n \in TaskType : task' = [task EXCEPT ![q] = n] /\ n.pc = "session" /\ Alike(n, t)
    BY <1>2, <1>5, ProceedsMoves DEF Pcs
  <2>2. TaskOK(n, rows', account)
    BY <1>3, <1>4, <2>1 DEF TaskOK, SignInOK, Asking, Signing, Alike
  <2>3. Held(n, session)
    BY <1>2, <1>3, <2>1 DEF Held, Asking, Signing, Alike
  <2>4. \A p \in Requests : p # q /\ (n.pc \in Signing \/ task[p].pc \in Signing) => task[p].sid # n.sid
    BY <1>2, <1>3, <2>1, StaysApart DEF Alike, Signing
  <2>5. SessionsOK(session, rows') /\ AccountsGrow(account, account)
    BY <1>4, SessionsStayOK DEF AccountsGrow
  <2>. QED BY <1>1, <1>4, <2>1, <2>2, <2>3, <2>4, <2>5, StepKeeps
<1>6. CASE Finishes(q) /\ rows' = rows
  BY <1>1, <1>6, FinishesStep
<1>. QED BY <1>1, <1>5, <1>6

LEMMA AccessInvInit == ASSUME AccessInit PROVE AccessInv
<1>. USE AccessAssumption DEF AccessInit
<1>1. \A q \in Requests : TaskOK(task[q], rows, account) /\ Held(task[q], session) /\ task[q].pc = "idle"
  BY NoTaskFacts
<1>2. NoSession \in SessionRow
  BY DEF NoSession, SessionRow
<1>3. AccessTypeOK
  BY <1>2, NoTaskFacts DEF AccessTypeOK, SessionRow
<1>4. RowsOK(rows, account)
  <2>1. \A i \in DOMAIN rows : account[rows[i].user] # "none"
    BY RowFacts
  <2>. QED BY <2>1 DEF RowsOK
<1>5. SessionsOK(session, rows)
  BY DEF SessionsOK
<1>6. Alone
  BY <1>1 DEF Alone, Signing
<1>. QED BY <1>1, <1>3, <1>4, <1>5, <1>6 DEF AccessInv

LEMMA AccessInvNext == ASSUME AccessInv, [AccessNext]_accessVars PROVE AccessInv'
<1>1. CASE UNCHANGED accessVars
  <2>1. account' = account /\ rows' = rows /\ session' = session /\ task' = task
    BY <1>1 DEF accessVars
  <2>. QED BY <2>1 DEF AccessInv, AccessTypeOK, Alone
<1>2. ASSUME NEW q \in Requests, Step(q) PROVE AccessInv'
  BY <1>2, AsksStep, FallsBackStep, AddStep, UpsertFindsStep, RevivesStep, InsertsStep, MemberFindsStep,
     WritesStep, SwitchFindsStep, SwitchWritesStep, LogsOutStep, RegistersStep, RegisterCreatesStep, LogsInStep,
     GoogleStep, LoginResolvesStep, JoinFindsStep, JoinCreatesStep, CreatesSessionStep DEF Step
<1>. QED BY <1>1, <1>2 DEF AccessNext

LEMMA AccessInvariance == AccessSpec => []AccessInv
<1>. QED BY AccessInvInit, AccessInvNext, PTL DEF AccessSpec

\* Accounts, membership rows, sessions and requests keep their types.
THEOREM AccessTypeCorrect == AccessSpec => []AccessTypeOK
<1>1. AccessInv => AccessTypeOK
  BY DEF AccessInv
<1>. QED BY <1>1, AccessInvariance, PTL

\* A user has at most one live membership in a workspace, whatever
\* administrators, sign-ins and removals interleave: every write of a row is
\* made where the partial unique index allows it.
THEOREM OneLiveRowAlways == AccessSpec => []OneLiveRow
<1>1. ASSUME AccessInv PROVE OneLiveRow
  <2>. SUFFICES ASSUME NEW u \in Users, NEW w \in Workspaces PROVE Cardinality(LiveOf(u, w)) <= 1
    BY DEF OneLiveRow
  <2>1. RowsOK(rows, account)
    BY <1>1, AccessFacts
  <2>2. \A i, j \in LiveOf(u, w) : i = j
    BY <2>1 DEF LiveOf, Of, RowsOK
  <2>3. CASE LiveOf(u, w) = {}
    <3>1. Cardinality(LiveOf(u, w)) = 0
      BY <2>3, FS_EmptySet
    <3>. QED BY <3>1
  <2>4. CASE LiveOf(u, w) # {}
    <3>1. PICK i \in LiveOf(u, w) : TRUE
      BY <2>4
    <3>2. LiveOf(u, w) = {i}
      BY <2>2, <3>1
    <3>3. Cardinality({i}) = 1
      BY FS_Singleton
    <3>. QED BY <3>2, <3>3
  <2>. QED BY <2>3, <2>4
<1>. QED BY <1>1, AccessInvariance, PTL

\* No session points at a workspace its user never belonged to: what a request
\* read from the memberships is true of the rows, deleted ones included, however
\* long ago it was.
THEOREM ActiveAlwaysWasMember == AccessSpec => []ActiveWasMember
<1>1. ASSUME AccessInv PROVE ActiveWasMember
  <2>. SUFFICES ASSUME NEW s \in Sessions, session[s].active # NoWs
                PROVE  Of(session[s].user, session[s].active) # {}
    BY DEF ActiveWasMember
  <2>1. session[s] # NoSession
    BY DEF NoSession
  <2>2. Belongs(rows, session[s].user, session[s].active)
    BY <1>1, <2>1, AccessFacts DEF SessionsOK
  <2>. QED BY <2>2 DEF Belongs, Of
<1>. QED BY <1>1, AccessInvariance, PTL

LEMMA StepGrows == ASSUME AccessInv, [AccessNext]_accessVars PROVE Grows(rows, rows')
<1>1. CASE rows' = rows
  BY <1>1, GrowsSame
<1>2. CASE rows' # rows
  <2>1. PICK q \in Requests : Step(q)
    BY <1>2 DEF AccessNext, accessVars
  <2>2. UpsertRevives(q) \/ UpsertInserts(q) \/ MemberWrites(q) \/ GoogleCommits(q) \/ JoinCreates(q)
    BY <1>2, <2>1 DEF Step, Asks, FallsBack, AddFinds, UpsertFinds, MemberFinds, SwitchFinds, SwitchWrites, LogsOut,
                      Registers, RegisterCreates, LogsIn, LoginResolves, JoinFinds, CreatesSession
  <2>3. CASE UpsertRevives(q)
    BY <2>3, RevivesRows
  <2>4. CASE UpsertInserts(q)
    BY <2>4, InsertsRows
  <2>5. CASE MemberWrites(q)
    BY <2>5, WritesRows
  <2>6. CASE GoogleCommits(q)
    <3>1. PICK u \in GoogleUsers :
            /\ account' = [account EXCEPT ![u] = IF @ = "none" THEN "google" ELSE @]
            /\ rows' = IF account[u] = "none" /\ Home[u] # NoWs THEN Inserted(u, Home[u], "MEMBER") ELSE rows
      BY <2>6 DEF GoogleCommits
    <3>. QED BY <1>2, <3>1, GoogleRows DEF Joined
  <2>7. CASE JoinCreates(q)
    BY <2>7, JoinRows DEF Joined
  <2>. QED BY <2>2, <2>3, <2>4, <2>5, <2>6, <2>7
<1>. QED BY <1>1, <1>2

\* No request makes, changes or removes an owner, though the row was checked
\* before it is written: nothing that happens in between makes an owner of it.
THEOREM OwnersAlwaysStay == AccessSpec => OwnersStay
<1>1. ASSUME AccessInv, [AccessNext]_accessVars
      PROVE  [/\ \A i \in DOMAIN rows : rows[i].role = "OWNER" => rows'[i] = rows[i]
              /\ \A i \in DOMAIN rows' : rows'[i].role = "OWNER" => i \in DOMAIN rows /\ rows[i].role = "OWNER"]_accessVars
  <2>1. Grows(rows, rows')
    BY <1>1, StepGrows
  <2>. QED BY <2>1 DEF Grows
<1>. QED BY <1>1, AccessInvariance, PTL DEF AccessSpec, OwnersStay

\* A row some request raised: by somebody else's, an administrator's, which ends.
Raised(q, i) ==
  /\ task[q].pc # "idle" /\ task'[q] = NoTask /\ task[q].by # rows'[i].user
  /\ task[q].ws = rows'[i].ws /\ task[q].role \in {"OWNER", "ADMIN"}

LEMMA FinishesAt == ASSUME AccessInv, NEW q \in Requests, Finishes(q) PROVE task'[q] = NoTask
BY AccessFacts DEF Finishes

LEMMA RowRaised ==
  ASSUME AccessInv, NEW q \in Requests, UpsertRevives(q) \/ MemberWrites(q),
         NEW i \in DOMAIN rows', rows'[i].role = "ADMIN", i \in DOMAIN rows => rows[i].role # "ADMIN"
  PROVE  Raised(q, i)
<1>1. /\ Grows(rows, rows') /\ DOMAIN rows' = DOMAIN rows
      /\ \A k \in DOMAIN rows : k # task[q].row => rows'[k] = rows[k]
  BY RevivesRows, WritesRows
<1>2. i \in DOMAIN rows /\ i = task[q].row
  BY <1>1
<1>3. rows'[i].user = rows[i].user /\ rows'[i].ws = rows[i].ws
  BY <1>1, <1>2 DEF Grows
<1>4. task[q].pc \in {"revive", "write"} /\ Finishes(q)
  BY DEF UpsertRevives, MemberWrites
<1>5. task[q].op \in MemberOps /\ task[q].pc \in Upserting \union {"write"}
  BY RevivingIsAdding DEF UpsertRevives, MemberWrites, Upserting
<1>6. /\ task[q].role \in {"OWNER", "ADMIN"} /\ task[q].by # task[q].target
      /\ rows[i].user = task[q].target /\ rows[i].ws = task[q].ws
  BY <1>2, <1>4, <1>5, Writer
<1>7. task'[q] = NoTask
  BY <1>4, FinishesAt
<1>. QED BY <1>3, <1>4, <1>6, <1>7 DEF Raised

LEMMA RowInserted ==
  ASSUME AccessInv, NEW q \in Requests, UpsertInserts(q),
         NEW i \in DOMAIN rows', rows'[i].role = "ADMIN", i \in DOMAIN rows => rows[i].role # "ADMIN"
  PROVE  Raised(q, i)
<1>1. i \notin DOMAIN rows
  BY InsertsRows
<1>2. rows'[i].user = task[q].target /\ rows'[i].ws = task[q].ws
  BY <1>1, InsertsRows
<1>3. task[q].pc = "insert" /\ Finishes(q)
  BY DEF UpsertInserts
<1>4. task[q].op \in MemberOps /\ task[q].pc \in Upserting \union {"write"}
  BY <1>3, RevivingIsAdding DEF Upserting
<1>5. task[q].role \in {"OWNER", "ADMIN"} /\ task[q].by # task[q].target
  BY <1>4, Writer
<1>6. task'[q] = NoTask
  BY <1>3, FinishesAt
<1>. QED BY <1>2, <1>3, <1>5, <1>6 DEF Raised

LEMMA NobodyJoinsRaised ==
  ASSUME AccessInv, NEW q \in Requests, GoogleCommits(q) \/ JoinCreates(q), NEW i \in DOMAIN rows'
  PROVE  (i \in DOMAIN rows /\ rows'[i] = rows[i]) \/ rows'[i].role = "MEMBER"
<1>1. CASE GoogleCommits(q)
  <2>1. PICK u \in GoogleUsers :
          /\ account' = [account EXCEPT ![u] = IF @ = "none" THEN "google" ELSE @]
          /\ rows' = IF account[u] = "none" /\ Home[u] # NoWs THEN Inserted(u, Home[u], "MEMBER") ELSE rows
    BY <1>1 DEF GoogleCommits
  <2>2. CASE account[u] = "none" /\ Home[u] # NoWs
    <3>1. Joined(rows', account', u, Home[u])
      BY <2>1, <2>2, GoogleRows
    <3>. QED BY <3>1 DEF Joined
  <2>3. CASE ~(account[u] = "none" /\ Home[u] # NoWs)
    BY <2>1, <2>3
  <2>. QED BY <2>2, <2>3
<1>2. CASE JoinCreates(q)
  BY <1>2, JoinRows DEF Joined
<1>. QED BY <1>1, <1>2

\* Nobody's membership is raised to ADMIN but by a request of somebody else who
\* was an administrator of that workspace when it began: whoever registers or
\* signs in meanwhile, nobody raises themselves.
THEOREM RaisedAlwaysByAnother == AccessSpec => RaisedByAnother
<1>1. ASSUME AccessInv, [AccessNext]_accessVars
      PROVE  [\A i \in DOMAIN rows' :
                rows'[i].role = "ADMIN" /\ (i \in DOMAIN rows => rows[i].role # "ADMIN") =>
                  \E q \in Requests : /\ task[q].pc # "idle" /\ task'[q] = NoTask
                                      /\ task[q].by # rows'[i].user
                                      /\ task[q].ws = rows'[i].ws
                                      /\ task[q].role \in {"OWNER", "ADMIN"}]_accessVars
  <2>. SUFFICES ASSUME NEW i \in DOMAIN rows', rows'[i].role = "ADMIN", i \in DOMAIN rows => rows[i].role # "ADMIN"
                PROVE  \E q \in Requests : Raised(q, i)
    BY DEF Raised
  <2>1. rows' # rows
    OBVIOUS
  <2>2. PICK q \in Requests : Step(q)
    BY <1>1, <2>1 DEF AccessNext, accessVars
  <2>3. UpsertRevives(q) \/ UpsertInserts(q) \/ MemberWrites(q) \/ GoogleCommits(q) \/ JoinCreates(q)
    BY <2>1, <2>2 DEF Step, Asks, FallsBack, AddFinds, UpsertFinds, MemberFinds, SwitchFinds, SwitchWrites, LogsOut,
                      Registers, RegisterCreates, LogsIn, LoginResolves, JoinFinds, CreatesSession
  <2>4. CASE UpsertRevives(q) \/ MemberWrites(q)
    BY <1>1, <2>4, RowRaised
  <2>5. CASE UpsertInserts(q)
    BY <1>1, <2>5, RowInserted
  <2>6. CASE GoogleCommits(q) \/ JoinCreates(q)
    <3>1. (i \in DOMAIN rows /\ rows'[i] = rows[i]) \/ rows'[i].role = "MEMBER"
      BY <1>1, <2>6, NobodyJoinsRaised
    <3>. QED BY <3>1
  <2>. QED BY <2>3, <2>4, <2>5, <2>6
<1>. QED BY <1>1, AccessInvariance, PTL DEF AccessSpec, RaisedByAnother

=============================================================================
