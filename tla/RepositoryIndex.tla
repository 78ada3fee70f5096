--------------------------- MODULE RepositoryIndex ---------------------------
(***************************************************************************)
(* Indexing a GitHub repository: sync requests, the workflow and its       *)
(* activity attempts, and the snapshot versions that searches read.        *)
(*                                                                         *)
(* A sync request is a row; its workflow runs one activity, which Temporal *)
(* gives up after 15 minutes and tries again.  The worker is not told: an  *)
(* attempt that was given up may still be running, and goes on writing.    *)
(* Every attempt of a sync builds the same version row (syncRequestId is   *)
(* unique), inserts the chunks of the files it could fetch and then flips  *)
(* the version active in one transaction.  Several syncs of a repository   *)
(* may run at a time.  Disconnecting GitHub deletes the repository, and    *)
(* with it its sync requests and versions; connecting creates a new row.   *)
(*                                                                         *)
(* The transaction that flips reads and locks the active versions first    *)
(* and commits later; under READ COMMITTED it does not see what another    *)
(* one commits in between.  The age of a snapshot (ready or stale) and the *)
(* commit it is labelled with are left out.                                *)
(***************************************************************************)
EXTENDS Integers, FiniteSets

CONSTANTS
  Repos,        \* repository rows, one live at a time (workspaceId, fullName)
  NoRepo,       \* no repository row
  Files,        \* the files of the repository that are indexed, none of them empty
  MaxSyncs,     \* sync requests there can be
  MaxAttempts,  \* attempts of the indexing activity (maximumAttempts: 2)
  MaxLate       \* attempts that go on after they were given up

ASSUME IndexAssumption ==
  /\ NoRepo \notin Repos
  /\ MaxSyncs \in Nat
  /\ MaxAttempts \in Nat \ {0}
  /\ MaxLate \in Nat
  /\ IsFiniteSet(Files)

Syncs == 1 .. MaxSyncs                     \* in the order of requestedAt
Attempts == Syncs \X (1 .. MaxAttempts)    \* <<sync, number of the attempt>>

VARIABLES
  installed,  \* the workspace has a GitHub installation
  repo,       \* the live repository row, or none
  fresh,      \* repository rows not used yet
  owner,      \* sync request: its repository row, or none if it does not exist
  status,     \* sync request: status
  wf,         \* workflow of a sync: where it stands
  try,        \* and its current attempt
  built,      \* version row of a sync: status
  active,     \* version row: active
  chunks,     \* version row: the files it has chunks of
  fileCount,  \* version row: fileCount
  pc,         \* attempt: where it stands
  got,        \* attempt: the files it fetched
  left,       \* attempt: those it has not stored yet
  seen,       \* attempt: the versions its open flip has deactivated
  late        \* attempt: goes on after it was given up

hub == <<installed, repo, fresh>>
syncVars == <<owner, status>>
wfVars == <<wf, try>>
versionVars == <<built, active, chunks, fileCount>>
attVars == <<pc, got, left, seen, late>>
vars == <<hub, syncVars, wfVars, versionVars, attVars>>

Over == {"returned", "thrown", "refused", "dead"}
Working == {"begun", "running", "storing", "flipping"}

TypeOK ==
  /\ installed \in BOOLEAN
  /\ repo \in Repos \union {NoRepo} /\ fresh \subseteq Repos
  /\ owner \in [Syncs -> Repos \union {NoRepo}]
  /\ status \in [Syncs -> {"none", "pending", "running", "completed", "failed"}]
  /\ wf \in [Syncs -> {"none", "requested", "lost", "running", "marking", "unmarked",
                     "completed", "failed"}]
  /\ try \in [Syncs -> 0 .. MaxAttempts]
  /\ built \in [Syncs -> {"none", "building", "active", "failed"}]
  /\ active \in [Syncs -> BOOLEAN]
  /\ chunks \in [Syncs -> SUBSET Files]
  /\ fileCount \in [Syncs -> Nat]
  /\ pc \in [Attempts -> {"idle"} \union Working \union Over]
  /\ got \in [Attempts -> SUBSET Files]
  /\ left \in [Attempts -> SUBSET Files]
  /\ seen \in [Attempts -> SUBSET Syncs]
  /\ late \in [Attempts -> BOOLEAN]

Live(s) == owner[s] # NoRepo /\ owner[s] = repo
Versions(r) == {s \in Syncs : r # NoRepo /\ owner[s] = r /\ built[s] # "none"}
Served(r) == {s \in Versions(r) : active[s]}
SyncsOf(r) == {s \in Syncs : r # NoRepo /\ owner[s] = r}
LatestSync(r) == IF SyncsOf(r) = {} THEN 0 ELSE CHOOSE s \in SyncsOf(r) : \A t \in SyncsOf(r) : t <= s

-----------------------------------------------------------------------------
(* What readers see *)

Health(r) ==
  LET s == LatestSync(r) IN
  IF s # 0 /\ status[s] \in {"pending", "running"} THEN "syncing"
  ELSE IF s # 0 /\ status[s] = "failed" THEN "error"
  ELSE IF Served(r) # {} THEN "indexed"    \* ready, or stale by its age
  ELSE "needsSetup"

\* The versions that the agent's search reads: those with status "active".
AgentReads == {s \in Versions(repo) : built[s] = "active"}

-----------------------------------------------------------------------------
(* The settings page and GitHub's callback *)

Connects ==
  /\ installed' = TRUE
  /\ \/ /\ repo = NoRepo
        /\ \E r \in fresh : repo' = r /\ fresh' = fresh \ {r}
     \/ UNCHANGED <<repo, fresh>>   \* the row is there, or GitHub failed
  /\ UNCHANGED <<syncVars, wfVars, versionVars, attVars>>

\* The installation goes first and the repository after it.
Uninstalls ==
  /\ installed
  /\ installed' = FALSE
  /\ UNCHANGED <<repo, fresh, syncVars, wfVars, versionVars, attVars>>

\* The delete cascades to the versions, and waits for a flip that has updated one.
DeletesRepo ==
  /\ ~installed /\ repo # NoRepo
  /\ \A b \in Attempts : seen[b] = {}
  /\ repo' = NoRepo
  /\ owner' = [s \in Syncs |-> IF Live(s) THEN NoRepo ELSE owner[s]]
  /\ status' = [s \in Syncs |-> IF Live(s) THEN "none" ELSE status[s]]
  /\ built' = [s \in Syncs |-> IF Live(s) THEN "none" ELSE built[s]]
  /\ active' = [s \in Syncs |-> active[s] /\ ~Live(s)]
  /\ chunks' = [s \in Syncs |-> IF Live(s) THEN {} ELSE chunks[s]]
  /\ fileCount' = [s \in Syncs |-> IF Live(s) THEN 0 ELSE fileCount[s]]
  /\ UNCHANGED <<installed, fresh, wfVars, attVars>>

\* The repository has to be selected for it, which a member can do at any time.
CreatesSync(s) ==
  /\ repo # NoRepo
  /\ wf[s] = "none"
  /\ s > 1 => wf[s - 1] # "none"
  /\ owner' = [owner EXCEPT ![s] = repo]
  /\ status' = [status EXCEPT ![s] = "pending"]
  /\ wf' = [wf EXCEPT ![s] = "requested"]
  /\ UNCHANGED <<hub, try, versionVars, attVars>>

\* The workflow starts, or the dispatcher cannot reach Temporal and nobody tries again.
Dispatches(s) ==
  /\ wf[s] = "requested"
  /\ \/ /\ wf' = [wf EXCEPT ![s] = "running"]
        /\ try' = [try EXCEPT ![s] = 1]
        /\ pc' = [pc EXCEPT ![<<s, 1>>] = "begun"]
     \/ /\ wf' = [wf EXCEPT ![s] = "lost"]
        /\ UNCHANGED <<try, pc>>
  /\ UNCHANGED <<hub, syncVars, versionVars, got, left, seen, late>>

-----------------------------------------------------------------------------
(* The activity: runRepositoryIndexPipeline *)

\* The answer of an attempt; nobody hears it once the attempt was given up.
Ends(a, how) ==
  /\ pc' = [pc EXCEPT ![a] = IF late[a] THEN "dead" ELSE how]
  /\ got' = [got EXCEPT ![a] = {}]
  /\ left' = [left EXCEPT ![a] = {}]
  /\ seen' = [seen EXCEPT ![a] = {}]
  /\ late' = late

Goes(a, to) ==
  /\ pc' = [pc EXCEPT ![a] = to]
  /\ UNCHANGED <<got, left, seen, late>>

\* Before the try: a missing row makes the attempt throw.  The row can go between
\* the read and the update, which then throws just as the read would have.
Begins(a) ==
  /\ pc[a] = "begun"
  /\ \/ /\ ~Live(a[1]) /\ Ends(a, "thrown")
        /\ UNCHANGED status
     \/ /\ Live(a[1]) /\ ~installed /\ Ends(a, "refused")
        /\ status' = [status EXCEPT ![a[1]] = "failed"]
     \/ /\ Live(a[1]) /\ installed /\ Goes(a, "running")
        /\ status' = [status EXCEPT ![a[1]] = "running"]
  /\ UNCHANGED <<hub, owner, wfVars, versionVars>>

\* The contents an attempt can get: a file GitHub does not answer for is left out.
Fetched == SUBSET Files

\* The version row, and then the contents of the files.
BuildsVersion(a) ==
  /\ pc[a] = "running"
  /\ \/ /\ Live(a[1])
        /\ built' = [built EXCEPT ![a[1]] = "building"]
        /\ pc' = [pc EXCEPT ![a] = "storing"]
        /\ \E fetched \in Fetched :
             got' = [got EXCEPT ![a] = fetched] /\ left' = [left EXCEPT ![a] = fetched]
        /\ UNCHANGED <<seen, late>>
     \/ /\ ~Live(a[1]) /\ Ends(a, "thrown")
        /\ UNCHANGED built
  /\ UNCHANGED <<hub, syncVars, wfVars, active, chunks, fileCount>>

\* One INSERT for each batch; nothing removes what an earlier attempt inserted, and
\* what was inserted twice is there twice.
Stores(a) ==
  /\ pc[a] = "storing"
  /\ Live(a[1])
  /\ \E f \in left[a] :
       /\ chunks' = [chunks EXCEPT ![a[1]] = @ \union {f}]
       /\ left' = [left EXCEPT ![a] = @ \ {f}]
  /\ UNCHANGED <<hub, syncVars, wfVars, built, active, fileCount, pc, got, seen, late>>

\* Mutants: the flip does not wait for the inserts; it is not one transaction.
OpensFlip_Early(a) ==
  /\ pc[a] = "storing"
  /\ pc' = [pc EXCEPT ![a] = "flipping"]
  /\ seen' = [seen EXCEPT ![a] = Served(repo) \ {a[1]}]
  /\ UNCHANGED <<hub, syncVars, wfVars, versionVars, got, left, late>>
OpensFlip_Writes(a) ==
  /\ pc[a] = "storing"
  /\ left[a] = {}
  /\ pc' = [pc EXCEPT ![a] = "flipping"]
  /\ seen' = [seen EXCEPT ![a] = Served(repo) \ {a[1]}]
  /\ active' = [s \in Syncs |-> active[s] /\ s \notin Served(repo) \ {a[1]}]
  /\ UNCHANGED <<hub, syncVars, wfVars, built, chunks, fileCount, got, left, late>>
\* The flip's first statement: the versions to deactivate, as it sees them.
OpensFlip(a) ==
  /\ pc[a] = "storing"
  /\ left[a] = {}
  /\ pc' = [pc EXCEPT ![a] = "flipping"]
  /\ seen' = [seen EXCEPT ![a] = Served(repo) \ {a[1]}]
  /\ UNCHANGED <<hub, syncVars, wfVars, versionVars, got, left, late>>

\* The row is not one that another open flip has updated.
Unlocked(s) == \A b \in Attempts : pc[b] = "flipping" => s \notin seen[b]

Flips(a) ==
  /\ built' = [built EXCEPT ![a[1]] = "active"]
  /\ active' = [s \in Syncs |-> s = a[1] \/ (active[s] /\ s \notin seen[a])]
  /\ fileCount' = [fileCount EXCEPT ![a[1]] = Cardinality(got[a])]
  /\ chunks' = chunks

CommitsFlip(a) ==
  /\ pc[a] = "flipping"
  /\ Live(a[1]) /\ Unlocked(a[1])
  /\ Flips(a)
  /\ status' = [status EXCEPT ![a[1]] = "completed"]
  /\ Ends(a, "returned")
  /\ UNCHANGED <<hub, owner, wfVars>>

\* GitHub, the embedding service or the database fails, or a row is gone; a flip
\* that was open is rolled back.  The catch block marks both rows, unless that
\* fails as well.
Fails(a) ==
  /\ pc[a] \in Working
  /\ Ends(a, "thrown")
  /\ \/ /\ pc[a] \in {"storing", "flipping"}
        /\ Live(a[1]) /\ Unlocked(a[1])
        /\ built' = [built EXCEPT ![a[1]] = "failed"]
        /\ status' = [status EXCEPT ![a[1]] = "failed"]
     \/ UNCHANGED <<built, status>>
  /\ UNCHANGED <<hub, owner, wfVars, active, chunks, fileCount>>

\* The worker stops in the middle of an attempt.
Dies(a) ==
  /\ pc[a] \in Working
  /\ Ends(a, "dead")
  /\ UNCHANGED <<hub, syncVars, wfVars, versionVars>>

-----------------------------------------------------------------------------
(* The workflow: repositoryIndexWorkflow *)

Current(s) == <<s, try[s]>>

Completes(s) ==
  /\ wf[s] = "running"
  /\ pc[Current(s)] = "returned"
  /\ wf' = [wf EXCEPT ![s] = "completed"]
  /\ UNCHANGED <<hub, syncVars, try, versionVars, attVars>>

\* The next attempt, or the catch block when there is none; stopped is the pc of
\* the attempts so far.
TriesAgain(s, stopped) ==
  IF try[s] < MaxAttempts
  THEN /\ try' = [try EXCEPT ![s] = @ + 1]
       /\ pc' = [stopped EXCEPT ![<<s, try[s] + 1>>] = "begun"]
       /\ wf' = wf
  ELSE /\ wf' = [wf EXCEPT ![s] = "marking"]
       /\ pc' = stopped
       /\ try' = try

Retries(s) ==
  /\ wf[s] = "running"
  /\ \/ /\ pc[Current(s)] = "thrown"
        /\ TriesAgain(s, pc)
     \/ /\ pc[Current(s)] = "refused"          \* not retried
        /\ wf' = [wf EXCEPT ![s] = "marking"]
        /\ UNCHANGED <<try, pc>>
  /\ UNCHANGED <<hub, syncVars, versionVars, got, left, seen, late>>

\* startToCloseTimeout: the attempt died or its answer was lost, or it is slow.
TimesOut(s) ==
  /\ wf[s] = "running"
  /\ \/ /\ pc[Current(s)] \in Over
        /\ TriesAgain(s, [pc EXCEPT ![Current(s)] = "dead"])
        /\ late' = late
     \/ /\ pc[Current(s)] \in Working
        /\ Cardinality({a \in Attempts : late[a]}) < MaxLate
        /\ TriesAgain(s, pc)
        /\ late' = [late EXCEPT ![Current(s)] = TRUE]
  /\ UNCHANGED <<hub, syncVars, versionVars, got, left, seen>>

\* markSyncRequestFailed has written; when it was given up, nobody is left to hear.
Marked(s) ==
  /\ wf[s] \in {"marking", "unmarked"}
  /\ wf' = [wf EXCEPT ![s] = IF @ = "marking" THEN "failed" ELSE @]
  /\ UNCHANGED <<hub, owner, try, versionVars, attVars>>

\* Mutant: a sync that no attempt could begin is left alone.
Marks_OnlyRunning(s) ==
  /\ status' = IF status[s] = "running" THEN [status EXCEPT ![s] = "failed"] ELSE status
  /\ Marked(s)
\* The catch block: the row is failed unless it was settled.
Marks(s) ==
  /\ status' = IF status[s] \in {"pending", "running"}
               THEN [status EXCEPT ![s] = "failed"] ELSE status
  /\ Marked(s)

\* The marking activity fails or is not heard of, in all its attempts: the workflow
\* ends with its error, and leaves the row as it is.  An attempt may still write.
MarkGivesUp(s) ==
  /\ wf[s] = "marking"
  /\ wf' = [wf EXCEPT ![s] = "unmarked"]
  /\ UNCHANGED <<hub, syncVars, try, versionVars, attVars>>

-----------------------------------------------------------------------------
Init ==
  /\ installed = FALSE /\ repo = NoRepo /\ fresh = Repos
  /\ owner = [s \in Syncs |-> NoRepo]
  /\ status = [s \in Syncs |-> "none"]
  /\ wf = [s \in Syncs |-> "none"]
  /\ try = [s \in Syncs |-> 0]
  /\ built = [s \in Syncs |-> "none"]
  /\ active = [s \in Syncs |-> FALSE]
  /\ chunks = [s \in Syncs |-> {}]
  /\ fileCount = [s \in Syncs |-> 0]
  /\ pc = [a \in Attempts |-> "idle"]
  /\ got = [a \in Attempts |-> {}]
  /\ left = [a \in Attempts |-> {}]
  /\ seen = [a \in Attempts |-> {}]
  /\ late = [a \in Attempts |-> FALSE]

Page == Connects \/ Uninstalls \/ DeletesRepo
Workflow(s) == Completes(s) \/ Retries(s) \/ TimesOut(s) \/ Marks(s) \/ MarkGivesUp(s)
Activity(a) ==
  \/ Begins(a) \/ BuildsVersion(a) \/ Stores(a)
  \/ OpensFlip(a) \/ CommitsFlip(a) \/ Fails(a) \/ Dies(a)

Next ==
  \/ Page
  \/ \E s \in Syncs : CreatesSync(s) \/ Dispatches(s) \/ Workflow(s)
  \/ \E a \in Attempts : Activity(a)

Spec == Init /\ [][Next]_vars

-----------------------------------------------------------------------------
\* A version that is served, or that the agent's search reads, holds the chunks of
\* as many files as it says it has, whichever attempts wrote them and however they
\* ended: the flip comes after the last insert of the attempt that flips
\* (runRepositoryIndexPipeline).
ServedIsWhole ==
  \A s \in Served(repo) \union AgentReads :
    Cardinality(chunks[s]) >= fileCount[s]

\* Once a repository row has a snapshot to serve it always has one: failures,
\* retries, late attempts and flips that overlap never leave it without
\* (the flip deactivates and activates in one transaction).
StaysServed ==
  [][Served(repo) # {} /\ repo' = repo => Served(repo)' # {}]_vars

\* The trust signal of the settings page, which the pull request gate reads too:
\* when the workflow of the latest sync has ended, with a result or with the row
\* marked, the repository does not report "syncing", and after a result it reports
\* an index.  Two cases are excepted, and in both it may report "syncing" for good:
\* an attempt of that sync that outlived its timeout may write "running" again when
\* nobody is left to take it back, and a workflow whose marking activity failed in
\* all its attempts leaves the row pending or running.
HealthIsSettled ==
  LET s == LatestSync(repo) IN
  s # 0 /\ (\A k \in 1 .. MaxAttempts : ~late[<<s, k>>]) =>
    /\ wf[s] \in {"completed", "failed"} => Health(repo) # "syncing"
    /\ wf[s] = "completed" => Health(repo) = "indexed"

=============================================================================
