----------------------------- MODULE SessionEvidence -----------------------------
(***************************************************************************)
(* What the server makes of the SDK's requests (sessions/ingest.ts), and   *)
(* how one conversation gets the session shown beside it and attached to   *)
(* its analysis (session-thread-match-service.ts): the identity that       *)
(* messages and lookups write, the lookup, the operator's attachment, and  *)
(* the transaction both end in.                                            *)
(*                                                                         *)
(* Requests, lookups and attachments run concurrently; an action is one    *)
(* transaction, or what a task does between two awaits.  Times are         *)
(* abstracted: which sessions overlap the window, and which is nearer, is  *)
(* open at every lookup.  Nothing in the program writes an external user   *)
(* id or an email into an event's details, so those identities are absent. *)
(***************************************************************************)
EXTENDS Naturals, Sequences, FiniteSets

CONSTANTS
  Session,        \* session ids of one workspace
  Person,         \* whoever an email address belongs to
  Customer,       \* the author of the conversation; their Slack profile may name their email
  Nobody,         \* undefined
  Request,        \* requests that reach the endpoint
  Bodies,         \* what a request may carry: events, a replay chunk
  Lookup,         \* getConversationSessionContext, for the inbox or for an analysis
  Attachment,     \* attachSessionToConversation
  MaxEvents,      \* MAX_EVENTS_PER_SESSION
  MaxTries,       \* MAX_INGEST_TX_ATTEMPTS
  MaxMessages     \* bound: customer messages

ASSUME EvidenceAssumption ==
  /\ Customer \in Person /\ Nobody \notin Person
  /\ Nobody \notin Session
  /\ Lookup \cap Attachment = {}
  /\ Bodies \subseteq [load : 0..1, replay : BOOLEAN]
  /\ MaxEvents \in Nat \ {0} /\ MaxTries \in Nat \ {0} /\ MaxMessages \in Nat

VARIABLES
  rows,       \* SessionRecord, its events and its chunks
  requests,   \* progress of each accepted request
  email,      \* customerEmail
  source,     \* customerIdentitySource
  said,       \* whom each customer message names
  matches,    \* SupportConversationSessionMatch
  tasks,      \* progress of each lookup and attachment
  attached    \* attachments committed (auxiliary)

ingestVars == <<rows, requests>>
matchVars == <<email, source, said, matches, tasks, attached>>
evidenceVars == <<rows, requests, email, source, said, matches, tasks, attached>>

Task == Lookup \cup Attachment

NoRow == [exists |-> FALSE, user |-> Nobody, count |-> 0, stored |-> {}, replay |-> FALSE, chunks |-> 0]
NoRequest == [stage |-> "none", session |-> Nobody, user |-> Nobody, load |-> 0, replay |-> FALSE,
              seen |-> FALSE, try |-> 1]
NoTask == [stage |-> "none", email |-> Nobody, source |-> "none", profile |-> Nobody, upTo |-> 0,
           session |-> Nobody, how |-> "none", fuzzy |-> FALSE, who |-> Nobody,
           primaries |-> {}, made |-> FALSE, try |-> 1, since |-> 0]

EvidenceInit ==
  /\ rows = [s \in Session |-> NoRow]
  /\ requests = [r \in Request |-> NoRequest]
  /\ email = Nobody /\ source = "none" /\ said = << >>
  /\ matches = [s \in Session |-> [made |-> FALSE, how |-> "none", primary |-> FALSE]]
  /\ tasks = [t \in Task |-> NoTask]
  /\ attached = 0

(***************************************************************************)
(* Ingest: 202 first, the transaction afterwards.                          *)
(***************************************************************************)

\* handleSessionIngest: key, rate, size and schema are checked before.
Accepts(r) ==
  /\ requests[r].stage = "none"
  /\ \E s \in Session, user \in Person \cup {Nobody}, p \in Bodies :
       requests' = [requests EXCEPT ![r] = [NoRequest EXCEPT
         !.stage = "begun", !.session = s, !.user = user, !.load = p.load, !.replay = p.replay]]
  /\ rows' = rows
  /\ UNCHANGED matchVars

FindsRow(r) ==
  /\ requests[r].stage = "begun"
  /\ requests' = [requests EXCEPT ![r].stage = "found", ![r].seen = rows[requests[r].session].exists]
  /\ rows' = rows
  /\ UNCHANGED matchVars

IsFull(row, q) == row.count >= MaxEvents

\* The row as update or create leaves it: a user is overwritten by a user only.
Counted(row, q) ==
  [row EXCEPT !.exists = TRUE,
              !.user = IF q.user # Nobody THEN q.user ELSE @,
              !.count = @ + q.load,
              !.replay = @ \/ q.replay]

\* Events and chunk follow in the same transaction, unless the row is full.
Filled(row, q, r) ==
  IF IsFull(row, q) THEN row
  ELSE [row EXCEPT !.stored = IF q.load > 0 THEN @ \cup {r} ELSE @,
                   !.chunks = IF q.replay THEN @ + 1 ELSE @]

\* Mutant: the transaction is repeated with what it found before.
Again_Stale(q) == [q EXCEPT !.stage = "found", !.try = @ + 1]

\* runIngestWithRetry begins the transaction again.
Again(q) == [q EXCEPT !.stage = "begun", !.try = @ + 1]

\* P2002: somebody created the row in between.
Conflicts(q) == ~q.seen /\ rows[q.session].exists

WritesRow(r) ==
  LET q == requests[r] IN
  /\ q.stage = "found"
  /\ \/ /\ ~Conflicts(q)
        /\ rows' = [rows EXCEPT ![q.session] = Filled(Counted(@, q), q, r)]
        /\ requests' = [requests EXCEPT ![r].stage = "written"]
     \/ /\ Conflicts(q) /\ q.try < MaxTries
        /\ requests' = [requests EXCEPT ![r] = Again(@)]
        /\ rows' = rows
     \/ /\ Conflicts(q) /\ q.try = MaxTries
        /\ requests' = [requests EXCEPT ![r].stage = "refused"]
        /\ rows' = rows
  /\ UNCHANGED matchVars

\* The database fails or the server goes: nobody hears of it.
IsLost(r) ==
  /\ requests[r].stage \in {"begun", "found"}
  /\ requests' = [requests EXCEPT ![r].stage = "lost"]
  /\ rows' = rows
  /\ UNCHANGED matchVars

(***************************************************************************)
(* The conversation's identity.                                            *)
(***************************************************************************)

Priority == [manual |-> 5, messagePayload |-> 3, slackProfile |-> 2, messageRegex |-> 1, none |-> 0]
Weight == [manual |-> 5, conversationEmail |-> 3, slackProfileEmail |-> 2, messageRegexEmail |-> 1, none |-> 0]

\* The pipeline files a customer message: the address in its text is taken
\* whatever is known, and without one only the source changes.
Says(who) ==
  /\ Len(said) < MaxMessages
  /\ said' = Append(said, who)
  /\ email' = IF who # Nobody THEN who ELSE email
  /\ source' = IF who # Nobody THEN "messageRegex" ELSE "messagePayload"
  /\ UNCHANGED <<ingestVars, matches, tasks, attached>>

Named(t) == { said[i] : i \in 1..t.upTo } \ {Nobody}

\* regexEmails[0].
FirstNamed(t) ==
  IF Named(t) = {} THEN Nobody
  ELSE said[CHOOSE i \in 1..t.upTo : said[i] # Nobody /\ \A j \in 1..(i - 1) : said[j] = Nobody]

\* chooseBestEmailIdentity: the earlier in the list wins a tie.
Best(offers) ==
  LET real == { i \in DOMAIN offers : offers[i].email # Nobody } IN
  IF real = {} THEN [email |-> Nobody, source |-> "none"]
  ELSE offers[CHOOSE i \in real : \A j \in real :
         \/ Priority[offers[i].source] > Priority[offers[j].source]
         \/ offers[i].source = offers[j].source /\ i <= j]

\* normalizePersistedEmailIdentity: an address without a source counts as manual.
Persisted(t) == [email |-> t.email, source |-> IF t.source = "none" THEN "manual" ELSE t.source]

NextIdentity(t) ==
  Best(<< Persisted(t),
          [email |-> t.profile, source |-> "slackProfile"],
          [email |-> FirstNamed(t), source |-> "messageRegex"] >>)

(***************************************************************************)
(* A lookup.                                                               *)
(***************************************************************************)

ManualPrimaries == { s \in Session : matches[s].primary /\ matches[s].how = "manual" }

\* Mutant: the manual match is not looked for.
HasManual_Never == FALSE

HasManual == ManualPrimaries # {}

Done(t, s, how, fuzzy) ==
  tasks' = [tasks EXCEPT ![t] = [NoTask EXCEPT !.stage = "done", !.session = s, !.how = how, !.fuzzy = fuzzy,
                                               !.who = tasks[t].who, !.since = attached]]

\* loadManualSessionContext.
LooksUp(t) ==
  /\ tasks[t].stage = "none"
  /\ IF HasManual THEN \E s \in ManualPrimaries : Done(t, s, "manual", FALSE)
     ELSE tasks' = [tasks EXCEPT ![t].stage = "reads", ![t].since = attached]
  /\ UNCHANGED <<ingestVars, email, source, said, matches, attached>>

ReadsConversation(t) ==
  /\ tasks[t].stage = "reads"
  /\ tasks' = [tasks EXCEPT ![t].stage = "fetches", ![t].email = email, ![t].source = source, ![t].upTo = Len(said)]
  /\ UNCHANGED <<ingestVars, email, source, said, matches, attached>>

\* The Slack profile is asked for when the customer is known in Slack and
\* no stronger address is stored.
AsksSlack(t) == t.upTo > 0 /\ (t.source \notin {"manual", "messagePayload"} \/ t.email = Nobody)

\* resolveConversationIdentity after the answer: what was read before is
\* compared and overwritten.
ResolvesIdentity(t) ==
  /\ tasks[t].stage = "fetches"
  /\ \E profile \in IF AsksSlack(tasks[t]) THEN {Customer, Nobody} ELSE {Nobody} :
       LET next == NextIdentity([tasks[t] EXCEPT !.profile = profile])
           nextSource == IF next.email # Nobody THEN next.source ELSE tasks[t].source IN
       /\ IF next.email # tasks[t].email \/ nextSource # tasks[t].source
          THEN email' = next.email /\ source' = nextSource
          ELSE UNCHANGED <<email, source>>
       /\ tasks' = [tasks EXCEPT ![t].stage = IF next.email = Nobody THEN "clears" ELSE "finds",
                                 ![t].email = next.email, ![t].source = next.source,
                                 ![t].profile = IF next.source = "slackProfile" THEN next.email ELSE profile]
  /\ UNCHANGED <<ingestVars, said, matches, attached>>

\* users.info fails: the lookup throws, an analysis goes on without a session.
SlackFails(t) ==
  /\ tasks[t].stage = "fetches" /\ AsksSlack(tasks[t])
  /\ Done(t, Nobody, "none", FALSE)
  /\ UNCHANGED <<ingestVars, email, source, said, matches, attached>>

\* Mutant: any address of the conversation counts as the customer's own.
MatchSource_AnySource(t, who) ==
  IF who = Nobody THEN "none"
  ELSE IF who = t.email THEN "conversationEmail"
  ELSE IF who = t.profile THEN "slackProfileEmail"
  ELSE IF who \in Named(t) THEN "messageRegexEmail"
  ELSE "none"

\* resolveBaseMatch.
MatchSource(t, who) ==
  IF who = Nobody THEN "none"
  ELSE IF who = t.email /\ t.source \notin {"slackProfile", "messageRegex"} THEN "conversationEmail"
  ELSE IF who = t.profile THEN "slackProfileEmail"
  ELSE IF who \in Named(t) \/ (who = t.email /\ t.source = "messageRegex") THEN "messageRegexEmail"
  ELSE "none"

\* compareCandidates, with distances left open.
Ranked(candidates, how) == { s \in candidates : \A c \in candidates : Weight[how[s]] >= Weight[how[c]] }

\* findSessionCandidates; two of a kind may be a near tie.
FindsSessions(t) ==
  /\ tasks[t].stage = "finds"
  /\ \E near \in SUBSET { s \in Session : rows[s].exists } :
       LET how == [s \in near |-> MatchSource(tasks[t], rows[s].user)]
           candidates == { s \in near : how[s] # "none" }
           first == Ranked(candidates, how) IN
       \/ candidates = {} /\ tasks' = [tasks EXCEPT ![t].stage = "clears"]
       \/ \E s \in first, tie \in IF Cardinality(first) > 1 THEN BOOLEAN ELSE {FALSE} :
            tasks' = [tasks EXCEPT ![t] = [NoTask EXCEPT
              !.stage = "persists", !.session = s, !.how = how[s], !.who = rows[s].user,
              !.fuzzy = tie \/ how[s] = "messageRegexEmail", !.since = tasks[t].since]]
  /\ UNCHANGED <<ingestVars, email, source, said, matches, attached>>

\* clearPrimaryMatch.
Clears(t) ==
  /\ tasks[t].stage = "clears"
  /\ matches' = [s \in Session |-> [matches[s] EXCEPT !.primary = FALSE]]
  /\ Done(t, Nobody, "none", FALSE)
  /\ UNCHANGED <<ingestVars, email, source, said, attached>>

\* attachSessionToConversation, once both are found.
Attaches(t) ==
  /\ tasks[t].stage = "none"
  /\ \E s \in Session :
       /\ rows[s].exists
       /\ tasks' = [tasks EXCEPT ![t] = [NoTask EXCEPT !.stage = "persists", !.session = s, !.how = "manual"]]
  /\ UNCHANGED <<ingestVars, email, source, said, matches, attached>>

(***************************************************************************)
(* persistPrimarySessionMatch, tried twice.                                *)
(***************************************************************************)

\* updateMany: what it will demote is what it sees.
Demotes(t) ==
  /\ tasks[t].stage = "persists"
  /\ tasks' = [tasks EXCEPT ![t].stage = "demoted",
                            ![t].primaries = { s \in Session : matches[s].primary },
                            ![t].made = matches[tasks[t].session].made]
  /\ UNCHANGED <<ingestVars, email, source, said, matches, attached>>

\* Mutant: the partial unique index is missing.
TwoPrimaries_Never(t) == FALSE

\* SupportConvSessionMatch_one_primary_conversation_idx.
TwoPrimaries(t) == \E s \in Session \ (t.primaries \cup {t.session}) : matches[s].primary

\* The row of the pair was made by another transaction after this one looked.
MadeTwice(t) == ~t.made /\ matches[t.session].made

Promotes(t) ==
  /\ tasks[t].stage = "demoted"
  /\ ~TwoPrimaries(tasks[t])
  /\ matches' = [s \in Session |->
       IF s = tasks[t].session THEN [made |-> TRUE, how |-> tasks[t].how, primary |-> TRUE]
       ELSE [matches[s] EXCEPT !.primary = @ /\ s \notin tasks[t].primaries]]
  /\ Done(t, tasks[t].session, tasks[t].how, tasks[t].fuzzy)
  /\ attached' = attached + IF tasks[t].how = "manual" THEN 1 ELSE 0
  /\ UNCHANGED <<ingestVars, email, source, said>>

\* P2002 rolls the transaction back; a second one is thrown at the caller.
PromotionConflicts(t) ==
  /\ tasks[t].stage = "demoted"
  /\ TwoPrimaries(tasks[t]) \/ MadeTwice(tasks[t])
  /\ IF tasks[t].try = 1
     THEN tasks' = [tasks EXCEPT ![t].stage = "persists", ![t].primaries = {}, ![t].made = FALSE, ![t].try = 2]
     ELSE Done(t, Nobody, "none", FALSE)
  /\ UNCHANGED <<ingestVars, email, source, said, matches, attached>>

-----------------------------------------------------------------------------

EvidenceNext ==
  \/ \E r \in Request : Accepts(r) \/ FindsRow(r) \/ WritesRow(r) \/ IsLost(r)
  \/ \E who \in Person \cup {Nobody} : Says(who)
  \/ \E t \in Lookup : \/ LooksUp(t) \/ ReadsConversation(t) \/ ResolvesIdentity(t) \/ SlackFails(t)
                       \/ FindsSessions(t) \/ Clears(t)
  \/ \E t \in Attachment : Attaches(t)
  \/ \E t \in Task : Demotes(t) \/ Promotes(t) \/ PromotionConflicts(t)

EvidenceSpec == EvidenceInit /\ [][EvidenceNext]_evidenceVars

(***************************************************************************)
(* Properties                                                              *)
(***************************************************************************)

Sources == DOMAIN Priority
Hows == DOMAIN Weight
Identified == Person \cup {Nobody}
RowType == [exists : BOOLEAN, user : Identified, count : Nat, stored : SUBSET Request, replay : BOOLEAN, chunks : Nat]
RequestType ==
  [stage : {"none", "begun", "found", "written", "refused", "lost"}, session : Session \cup {Nobody},
   user : Identified, load : 0..1, replay : BOOLEAN, seen : BOOLEAN, try : 1..MaxTries]
MatchType == [made : BOOLEAN, how : Hows, primary : BOOLEAN]
TaskType ==
  [stage : {"none", "reads", "fetches", "finds", "clears", "persists", "demoted", "done"},
   email : Identified, source : Sources, profile : Identified, upTo : Nat,
   session : Session \cup {Nobody}, how : Hows, fuzzy : BOOLEAN, who : Identified,
   primaries : SUBSET Session, made : BOOLEAN, try : 1..2, since : Nat]
EvidenceTypeOK ==
  /\ rows \in [Session -> RowType]
  /\ requests \in [Request -> RequestType]
  /\ email \in Identified /\ source \in Sources
  /\ said \in Seq(Identified)
  /\ matches \in [Session -> MatchType]
  /\ tasks \in [Task -> TaskType]
  /\ attached \in Nat

\* "concurrent flushes from the same session converge": no request is
\* refused for a row that another one created.
FlushesConverge == \A r \in Request : requests[r].stage # "refused"

\* A conversation has one primary match at most.
OnePrimary == \A s, o \in Session : matches[s].primary /\ matches[o].primary => s = o

\* What an operator attached gives way to another attachment, or to a lookup
\* that had begun before the last attachment and ends in that very step.
ManualIsKept ==
  [][ManualPrimaries # {} =>
       \/ ManualPrimaries' # {}
       \/ \E t \in Lookup : /\ tasks[t].stage \in {"clears", "demoted"} /\ tasks'[t].stage = "done"
                            /\ tasks[t].since < attached]_evidenceVars

\* The session of somebody else than the customer is shown only if a message named
\* that person, and as certain, which attaches it to an analysis, only if a later
\* message named nobody: it makes the address look like one Slack sent
\* (support.activity.ts, the source; resolveBaseMatch).
OthersAreNamed ==
  \A t \in Lookup :
    /\ tasks[t].stage = "done" /\ tasks[t].session # Nobody
    /\ tasks[t].how # "manual" /\ tasks[t].who # Customer
    => \E i \in DOMAIN said :
         /\ said[i] = tasks[t].who
         /\ tasks[t].fuzzy \/ \E j \in DOMAIN said : i < j /\ said[j] = Nobody
=============================================================================
