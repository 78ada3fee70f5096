----------------------------- MODULE ThreadGrouping -----------------------------
(***************************************************************************)
(* The conversations of one Slack channel: which one an incoming message   *)
(* is filed under, and the corrections by which operators merge two of     *)
(* them, move one message, and take either back.                           *)
(*                                                                         *)
(* A conversation is named by the thread it was opened for: its row has a  *)
(* unique key built from the thread, and softUpsert revives an archived    *)
(* row before it creates one.                                              *)
(*                                                                         *)
(* The interleaving unit is one database statement where a later statement *)
(* uses what it read, and one transaction otherwise: the transactions run  *)
(* at READ COMMITTED.  Whether the window of a grouping anchor is open and *)
(* its conversation not DONE when a message is read is left open.          *)
(*                                                                         *)
(* Left out: breadcrumb events, audit, realtime notifications, the 24 hour *)
(* limit of an undo (an undo may always fail to be asked for), and a       *)
(* creation that meets a row which was created and archived since the      *)
(* statement before, which the partial unique index would let through.     *)
(***************************************************************************)
EXTENDS Naturals, FiniteSets

CONSTANTS
  Thread,    \* threads of the channel
  Message,   \* messages to come
  ThreadOf,  \* the thread of each message
  Root,      \* messages that are not replies: they start their thread
  Customer,  \* messages written by people, the others are integrations'
  AuthorOf,  \* the Slack user of each message
  Request,   \* idempotency keys of corrections
  Session,   \* web requests that may be correcting at a time
  MaxHops,   \* merges an alias is followed through, 5 in the code
  MaxFold,   \* bound on the conversations folded by one merge
  None

ASSUME MessageAssumption ==
  /\ ThreadOf \in [Message -> Thread]
  /\ Root \subseteq Message /\ Customer \subseteq Message
  /\ \A m, n \in Root : ThreadOf[m] = ThreadOf[n] => m = n
ASSUME BoundsAssumption == MaxHops \in Nat /\ MaxFold \in Nat

VARIABLES
  life,        \* row of each conversation: absent, live, or archived by a merge
  into,        \* its mergedIntoConversationId
  alias,       \* conversation the thread is aliased to
  anchored,    \* conversations with a grouping anchor of the message that opened them
  filed,       \* conversation of each MESSAGE_RECEIVED event
  delivery,    \* transaction that is filing the message
  correction,  \* SupportGroupingCorrection row of each key
  clock,       \* corrections created so far, stands for createdAt
  job          \* correction a web request is working on

ingressVars == <<filed, delivery>>
vars == <<life, into, alias, anchored, filed, delivery, correction, clock, job>>

Life == { "none", "live", "merged" }
ThreadOrNone == Thread \cup {None}

Idle == [step |-> "idle", to |-> None, saw |-> "none"]
Delivery ==
  [step : {"idle", "resolved", "found"}, to : ThreadOrNone, saw : Life]

\* kind "move" is REASSIGN_EVENT.  folds are the secondaries, which the MERGED
\* event lists and of which the row keeps one, the source.
Correction ==
  [kind : {"merge", "move"}, folds : SUBSET Thread, source : Thread,
   target : Thread, event : Message \cup {None}, undone : BOOLEAN, at : Nat]

ASSUME NoneAssumption == None \notin Thread \cup Message \cup Request \cup Correction

NoJob ==
  [step |-> "idle", request |-> None, folds |-> {}, source |-> None,
   target |-> None, event |-> None]
Job ==
  [step : {"idle", "merging", "aliased", "moving", "undoing"},
   request : Request \cup {None}, folds : SUBSET Thread, source : ThreadOrNone,
   target : ThreadOrNone, event : Message \cup {None}]

MergeJob(r, p, folds) ==
  [NoJob EXCEPT !.step = "merging", !.request = r, !.target = p, !.folds = folds]
MoveJob(r, m, from, to) ==
  [NoJob EXCEPT !.step = "moving", !.request = r, !.event = m, !.source = from, !.target = to]
UndoJob(r) == [NoJob EXCEPT !.step = "undoing", !.request = r]

Recorded(r) == correction[r] # None
Active(r) == Recorded(r) /\ ~correction[r].undone

Init ==
  /\ life = [t \in Thread |-> "none"]
  /\ into = [t \in Thread |-> None]
  /\ alias = [t \in Thread |-> None]
  /\ anchored = {}
  /\ filed = [m \in Message |-> None]
  /\ delivery = [m \in Message |-> Idle]
  /\ correction = [r \in Request |-> None]
  /\ clock = 0
  /\ job = [s \in Session |-> NoJob]

---------------------------------------------------------------------------
(* Ingress: processSupportIngress *)

\* Where mergedIntoConversationId leads from t in at most n hops.
Follow[t \in Thread, n \in 0..MaxHops] ==
  IF n = 0 \/ life[t] # "merged" \/ into[t] = None THEN t ELSE Follow[into[t], n - 1]

\* A thread reply goes where the alias of its thread leads, if a live
\* conversation is found there, and to its own thread otherwise.
ByAlias(m) ==
  { t \in Thread :
      LET a == alias[ThreadOf[m]]
          end == IF a = None THEN None ELSE Follow[a, MaxHops]
      IN t = IF end # None /\ life[end] # "merged" THEN end ELSE ThreadOf[m] }

\* A standalone message joins a live conversation with an anchor of its author,
\* or opens one of its own: when there is none, its window has closed or is at
\* the cap, or the conversation is DONE.
ByAnchor(m) ==
  { t \in anchored :
      life[t] = "live" /\ \E n \in Root : ThreadOf[n] = t /\ AuthorOf[n] = AuthorOf[m] }
  \cup {ThreadOf[m]}

Resolution(m) ==
  IF m \notin Customer THEN {ThreadOf[m]}
  ELSE IF m \in Root THEN ByAnchor(m) ELSE ByAlias(m)

\* The transaction reads where the message belongs.
IngestResolves(m) ==
  /\ filed[m] = None
  /\ delivery[m].step = "idle"
  /\ \E t \in Resolution(m) :
       delivery' = [delivery EXCEPT ![m] = [step |-> "resolved", to |-> t, saw |-> "none"]]
  /\ UNCHANGED <<life, into, alias, anchored, filed, correction, clock, job>>

\* softUpsert looks for a live row, then for an archived one.
IngestFinds(m) ==
  /\ delivery[m].step = "resolved"
  /\ delivery' = [delivery EXCEPT ![m].step = "found", ![m].saw = life[delivery[m].to]]
  /\ UNCHANGED <<life, into, alias, anchored, filed, correction, clock, job>>

\* A live row is updated by id, an archived one revived, a missing one created;
\* the create fails when another transaction was first.
RowWritten(m) ==
  LET t == delivery[m].to IN
  CASE delivery[m].saw = "live" -> UNCHANGED <<life, into>>
    [] delivery[m].saw = "merged" -> life' = [life EXCEPT ![t] = "live"] /\ UNCHANGED into
    [] OTHER -> /\ life[t] = "none"
                /\ life' = [life EXCEPT ![t] = "live"]
                /\ UNCHANGED into

\* A standalone customer message that was not grouped opens an anchor.
AnchorCreated(m) ==
  LET t == delivery[m].to IN
  anchored' = IF m \in Root \cap Customer /\ t = ThreadOf[m]
              THEN anchored \cup {t}
              ELSE anchored

\* Row, anchor, event and processedAt commit together.
IngestCommits(m) ==
  /\ delivery[m].step = "found"
  /\ RowWritten(m)
  /\ AnchorCreated(m)
  /\ filed' = [filed EXCEPT ![m] = delivery[m].to]
  /\ delivery' = [delivery EXCEPT ![m] = Idle]
  /\ UNCHANGED <<alias, correction, clock, job>>

\* A statement fails or the worker dies; the activity is tried again.
IngestFails(m) ==
  /\ delivery[m].step # "idle"
  /\ delivery' = [delivery EXCEPT ![m] = Idle]
  /\ UNCHANGED <<life, into, alias, anchored, filed, correction, clock, job>>

---------------------------------------------------------------------------
(* Replies *)

\* An operator replied in conversation c to message m, in a thread that is not
\* the conversation's own: an alias leads its answers back.  An alias that
\* exists is left as it is.
ReplyAliases(c, m) ==
  /\ filed[m] = c
  /\ ThreadOf[m] # c
  /\ alias[ThreadOf[m]] = None
  /\ alias' = [alias EXCEPT ![ThreadOf[m]] = c]
  /\ UNCHANGED <<life, into, anchored, ingressVars, correction, clock, job>>

---------------------------------------------------------------------------
(* Corrections *)

\* Web requests with one key ask for the same correction: they are one
\* submission sent twice.
SameKeySameWork(s, work) ==
  \A o \in Session \ {s} : job[o].request = work.request =>
    [job[o] EXCEPT !.step = work.step] = work

\* merge: fast path and pre-flight checks.
MergeChecks(s) ==
  /\ job[s].step = "idle"
  /\ \E r \in Request, p \in Thread, folds \in (SUBSET Thread) \ {{}} :
       /\ ~Recorded(r)
       /\ p \notin folds
       /\ Cardinality(folds) <= MaxFold
       /\ \A t \in folds \cup {p} : life[t] = "live"
       /\ SameKeySameWork(s, MergeJob(r, p, folds))
       /\ job' = [job EXCEPT ![s] = MergeJob(r, p, folds)]
  /\ UNCHANGED <<life, into, alias, anchored, ingressVars, correction, clock>>

\* Mutant: an alias that exists is left as it is, as replies do.
MergeAliases_KeepsExisting(s) ==
  /\ job[s].step = "merging"
  /\ alias' = [t \in Thread |-> IF t \in job[s].folds /\ alias[t] = None
                                THEN job[s].target ELSE alias[t]]
  /\ job' = [job EXCEPT ![s].step = "aliased"]
  /\ UNCHANGED <<life, into, anchored, ingressVars, correction, clock>>

\* Phase 1, a transaction of its own.
MergeAliases(s) ==
  /\ job[s].step = "merging"
  /\ alias' = [t \in Thread |-> IF t \in job[s].folds THEN job[s].target ELSE alias[t]]
  /\ job' = [job EXCEPT ![s].step = "aliased"]
  /\ UNCHANGED <<life, into, anchored, ingressVars, correction, clock>>

Records(r, row) ==
  /\ correction' = [correction EXCEPT ![r] = row]
  /\ clock' = clock + 1

\* Phase 2: the secondaries are archived whatever they are by now.  The row
\* names one of them as its source, the first the database returned.
MergeCommits(s) ==
  LET folds == job[s].folds
      p == job[s].target
      r == job[s].request
  IN
  /\ job[s].step = "aliased"
  /\ ~Recorded(r)
  /\ life' = [t \in Thread |-> IF t \in folds THEN "merged" ELSE life[t]]
  /\ into' = [t \in Thread |-> IF t \in folds THEN p ELSE into[t]]
  /\ \E source \in folds :
       Records(r, [kind |-> "merge", folds |-> folds, source |-> source, target |-> p,
                   event |-> None, undone |-> FALSE, at |-> clock + 1])
  /\ job' = [job EXCEPT ![s] = NoJob]
  /\ UNCHANGED <<alias, anchored, ingressVars>>

\* reassignEvent: fast path and checks; the source is read here.
MoveChecks(s) ==
  /\ job[s].step = "idle"
  /\ \E r \in Request, m \in Message, c \in Thread :
       /\ ~Recorded(r)
       /\ filed[m] \notin {None, c}
       /\ life[c] = "live"
       /\ SameKeySameWork(s, MoveJob(r, m, filed[m], c))
       /\ job' = [job EXCEPT ![s] = MoveJob(r, m, filed[m], c)]
  /\ UNCHANGED <<life, into, alias, anchored, ingressVars, correction, clock>>

\* reassignEvent: the transaction.
MoveCommits(s) ==
  LET w == job[s] IN
  /\ w.step = "moving"
  /\ ~Recorded(w.request)
  /\ filed' = [filed EXCEPT ![w.event] = w.target]
  /\ Records(w.request, [kind |-> "move", folds |-> {}, source |-> w.source,
                         target |-> w.target, event |-> w.event, undone |-> FALSE,
                         at |-> clock + 1])
  /\ job' = [job EXCEPT ![s] = NoJob]
  /\ UNCHANGED <<life, into, alias, anchored, delivery>>

\* Mutant: earlier corrections are looked for, not later ones.
Dependents_Earlier(r) ==
  LET y == correction[r] IN
  { q \in Request \ {r} :
      /\ Active(q)
      /\ correction[q].at < y.at
      /\ \/ {correction[q].source, correction[q].target} \cap {y.source, y.target} # {}
         \/ y.event # None /\ correction[q].event = y.event }

\* Corrections that keep r from being undone.
Dependents(r) ==
  LET y == correction[r] IN
  { q \in Request \ {r} :
      /\ Active(q)
      /\ correction[q].at > y.at
      /\ \/ {correction[q].source, correction[q].target} \cap {y.source, y.target} # {}
         \/ y.event # None /\ correction[q].event = y.event }

\* undoCorrection: the checks.
UndoChecks(s) ==
  /\ job[s].step = "idle"
  /\ \E r \in Request :
       /\ Active(r)
       /\ Dependents(r) = {}
       /\ job' = [job EXCEPT ![s] = UndoJob(r)]
  /\ UNCHANGED <<life, into, alias, anchored, ingressVars, correction, clock>>

\* The source of the merge comes back, its alias goes if it still leads to the
\* target.
Unmerge(y) ==
  /\ life' = [life EXCEPT ![y.source] = "live"]
  /\ into' = [into EXCEPT ![y.source] = None]
  /\ alias' = [alias EXCEPT ![y.source] = IF @ = y.target THEN None ELSE @]
  /\ UNCHANGED filed

\* The message goes back to where it was moved from.
Unmove(y) ==
  /\ filed' = [filed EXCEPT ![y.event] = y.source]
  /\ UNCHANGED <<life, into, alias>>

\* undoCorrection: the transaction.
UndoCommits(s) ==
  LET r == job[s].request
      y == correction[r]
  IN
  /\ job[s].step = "undoing"
  /\ IF y.kind = "merge" THEN Unmerge(y) ELSE Unmove(y)
  /\ correction' = [correction EXCEPT ![r].undone = TRUE]
  /\ job' = [job EXCEPT ![s] = NoJob]
  /\ UNCHANGED <<anchored, delivery, clock>>

\* The request fails or its process dies between two steps, or the key was
\* recorded by another request meanwhile and the transaction rolls back.
SessionEnds(s) ==
  /\ job[s].step # "idle"
  /\ job' = [job EXCEPT ![s] = NoJob]
  /\ UNCHANGED <<life, into, alias, anchored, ingressVars, correction, clock>>

---------------------------------------------------------------------------
Ingress(m) == IngestResolves(m) \/ IngestFinds(m) \/ IngestCommits(m) \/ IngestFails(m)
Corrects(s) ==
  \/ MergeChecks(s) \/ MergeAliases(s) \/ MergeCommits(s)
  \/ MoveChecks(s) \/ MoveCommits(s)
  \/ UndoChecks(s) \/ UndoCommits(s)
  \/ SessionEnds(s)

Next ==
  \/ \E m \in Message : Ingress(m)
  \/ \E m \in Message, c \in Thread : ReplyAliases(c, m)
  \/ \E s \in Session : Corrects(s)

Spec == Init /\ [][Next]_vars

---------------------------------------------------------------------------
(* Properties *)

\* Every row has the shape the schema gives it, and a message is delivered to
\* a thread.
TypeOK ==
  /\ life \in [Thread -> Life]
  /\ into \in [Thread -> ThreadOrNone]
  /\ alias \in [Thread -> ThreadOrNone]
  /\ anchored \subseteq Thread
  /\ filed \in [Message -> ThreadOrNone]
  /\ delivery \in [Message -> Delivery]
  /\ \A m \in Message : delivery[m].step # "idle" => delivery[m].to \in Thread
  /\ correction \in [Request -> Correction \cup {None}]
  /\ clock \in Nat
  /\ job \in [Session -> Job]

\* As long as corrections do not overlap, the thread of a merged conversation is
\* aliased to the conversation it was merged into, however merges that fail half
\* way, undos, replies and deliveries interleave: this is what merge's first
\* phase is for.
MergedIsRouted == \A t \in Thread : life[t] = "merged" => into[t] # None /\ alias[t] = into[t]

\* As long as corrections do not overlap, merged conversations lead to a live
\* one: they are not merged into each other in a circle, which the lookup of an
\* alias would run round without finding a conversation.  (Opposite merges that
\* overlap do close a circle: the second phase does not look whether the primary
\* is still live.)
MergesEndLive ==
  \A ring \in (SUBSET Thread) \ {{}} :
    \E t \in ring : life[t] # "merged" \/ into[t] \notin ring

Moves(m) == { r \in Request : Recorded(r) /\ correction[r].event = m }
Standing(m) == { r \in Moves(m) : Active(r) }
IsLast(r, moves) == r \in moves /\ \A q \in moves : correction[q].at <= correction[r].at
IsFirst(r, moves) == r \in moves /\ \A q \in moves : correction[r].at <= correction[q].at

\* A message is where the last move that was not undone put it, or where the
\* first one took it from: undoing moves in any permitted order leaves no
\* message in a conversation the operators have not chosen.  (Corrections do not
\* overlap: reassignEvent reads where it moves from before its transaction.)
FiledWhereMoved ==
  \A m \in Message, r \in Request :
    /\ IsLast(r, Standing(m)) => filed[m] = correction[r].target
    /\ Standing(m) = {} /\ IsFirst(r, Moves(m)) => filed[m] = correction[r].source

===============================================================================
