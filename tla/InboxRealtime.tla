---------------------------- MODULE InboxRealtime ----------------------------
(***************************************************************************)
(* How the inbox of one browser tab learns of changes: the invalidation    *)
(* events that follow a commit, the stream that brings them, and the ways  *)
(* the tab fetches the list again: on an event, every minute, when it is   *)
(* looked at again, and after a command of its own.                        *)
(*                                                                         *)
(* The content of the list is the number of changes it shows, or a guess   *)
(* while a command is optimistic.  A call to the server reads at one       *)
(* moment and is answered at another, so answers may overtake each other.  *)
(* Of the LISTEN connection the web process shares among its streams only  *)
(* its presence is modelled: while it is down, events are lost and no tab  *)
(* is told.  The conversation opened beside the list is left out, and so   *)
(* are keepalives, other workspaces and other tabs.                        *)
(***************************************************************************)
EXTENDS Naturals, Sequences

CONSTANTS
  Command,     \* the operator's commands, each given once
  MaxChanges,  \* bound on changes made by others
  MaxHides,    \* how often the tab is hidden
  MaxFaults    \* how many connections, calls and events are lost

NoList == [version |-> 0, kind |-> "none"]

\* Who may be waiting for the list: the mounted view, the stream's refresh, the
\* recovery poll, the poll of a tab that came back, and a command.
Fetcher == {"mount", "stream", "poll", "focus"} \cup Command

ASSUME CommandAssumption == Command \cap {"mount", "stream", "poll", "focus"} = {}
ASSUME TabBoundsAssumption == MaxChanges \in Nat /\ MaxHides \in Nat /\ MaxFaults \in Nat

VARIABLES
  db,        \* changes committed
  unsent,    \* of these, how many have not been announced yet
  source,    \* the EventSource of the tab, none exactly while the tab is hidden
  recovers,  \* reconnectAttemptRef is positive
  wire,      \* events on their way to the tab
  fetch,     \* calls of listConversations
  needs,     \* refreshStateRef.needsRefresh
  board,     \* listData
  loading,   \* isListLoading
  mutating,  \* isMutating
  timer,     \* pollRef is set
  command,   \* how far a command has got
  previous,  \* previousListData of a command
  hides, faults, changes, \* counters of the bounds
  missing    \* history: the tab was told of a change that the refresh in flight had
             \* not read, and no refresh has begun since

storeVars == <<db, unsent, changes>>
sourceVars == <<source, recovers, wire, hides>>
listVars == <<fetch, needs, board, loading, timer, missing>>
commandVars == <<command, previous, mutating>>
tabVars == <<storeVars, sourceVars, listVars, commandVars, faults>>

Idle == [stage |-> "idle", version |-> 0]
Sent == [stage |-> "sent", version |-> 0]
Lists == [version : Nat, kind : {"none", "read", "guess"}]
Calls == [stage : {"idle", "sent", "read"}, version : Nat]
EventType == [type : {"connected", "changed"}, version : Nat]

TabTypeOK ==
  /\ db \in Nat /\ unsent \in Nat /\ changes \in Nat /\ hides \in Nat /\ faults \in Nat
  /\ source \in {"none", "requested", "open", "deaf", "backoff"}
  /\ wire \in Seq(EventType)
  /\ fetch \in [Fetcher -> Calls]
  /\ board \in Lists
  /\ command \in [Command -> {"idle", "sent", "committed", "emitted", "refreshing", "over"}]
  /\ previous \in [Command -> Lists]
  /\ recovers \in BOOLEAN /\ needs \in BOOLEAN /\ loading \in BOOLEAN /\ mutating \in BOOLEAN
  /\ timer \in BOOLEAN /\ missing \in BOOLEAN

\* The inbox has just been mounted: the list and a stream have been asked for.
TabInit ==
  /\ db = 0 /\ unsent = 0 /\ changes = 0
  /\ source = "requested" /\ recovers = FALSE
  /\ wire = <<>> /\ hides = 0
  /\ fetch = [f \in Fetcher |-> IF f = "mount" THEN Sent ELSE Idle]
  /\ needs = FALSE /\ board = NoList /\ loading = TRUE /\ timer = FALSE /\ missing = FALSE
  /\ command = [c \in Command |-> "idle"] /\ previous = [c \in Command |-> NoList]
  /\ mutating = FALSE
  /\ faults = 0

Fault == faults < MaxFaults /\ faults' = faults + 1

-------------------------------------------------------------------------------
(* Commits and the events that follow them *)

\* A worker or another operator changes a conversation.
Changes ==
  /\ changes < MaxChanges
  /\ changes' = changes + 1 /\ db' = db + 1 /\ unsent' = unsent + 1
  /\ UNCHANGED <<sourceVars, listVars, commandVars, faults>>

\* emitConversationChanged: the process that listens hands the event to every
\* stream that is subscribed.
Announced == IF source = "open"
             THEN Append(wire, [type |-> "changed", version |-> db]) ELSE wire

\* The event follows the commit.
Emits ==
  /\ unsent > 0
  /\ unsent' = unsent - 1
  /\ wire' = Announced
  /\ UNCHANGED <<db, changes, source, recovers, hides, listVars, commandVars, faults>>

\* The process dies between the commit and the notification.
EmitIsLost ==
  /\ unsent > 0 /\ Fault
  /\ unsent' = unsent - 1
  /\ UNCHANGED <<db, changes, sourceVars, listVars, commandVars>>

\* The database drops the LISTEN connection; the stream is not told.
ListenerEnds ==
  /\ source = "open" /\ Fault
  /\ source' = "deaf"
  /\ UNCHANGED <<storeVars, recovers, wire, hides, listVars, commandVars>>

\* reconnectTimer of the process.
ListenerReturns ==
  /\ source = "deaf"
  /\ source' = "open"
  /\ UNCHANGED <<storeVars, recovers, wire, hides, listVars, commandVars, faults>>

-------------------------------------------------------------------------------
(* The stream *)

\* handleSupportStream: the process listens before the tab is subscribed, and
\* the first event is "connected".
StreamIsServed ==
  /\ source = "requested"
  /\ source' = "open"
  /\ wire' = <<[type |-> "connected", version |-> db]>>
  /\ UNCHANGED <<storeVars, recovers, hides, listVars, commandVars, faults>>

\* onerror: the request was refused, or the stream broke.
StreamErrs ==
  /\ source \in {"requested", "open", "deaf"} /\ Fault
  /\ source' = "backoff" /\ wire' = <<>>
  /\ recovers' = TRUE
  /\ UNCHANGED <<storeVars, hides, listVars, commandVars>>

\* The tab's reconnect timer: the effect opens an EventSource again.
Reconnects ==
  /\ source = "backoff"
  /\ source' = "requested"
  /\ UNCHANGED <<storeVars, recovers, wire, hides, listVars, commandVars, faults>>

-------------------------------------------------------------------------------
(* The list *)

\* useVisibilityAwarePolling polls only while nothing loads and no command runs.
Enabled == ~loading /\ ~mutating

\* Its effect clears or sets the timer when that changes; otherwise the timer is
\* what the handler left.
Polling(left) == timer' = IF Enabled' = Enabled THEN left ELSE Enabled'

\* refreshList shows that it loads while there is no list.
Asks(f) ==
  /\ fetch' = [fetch EXCEPT ![f] = Sent]
  /\ loading' = (loading \/ board = NoList)

\* Mutant: an event that comes while the list is fetched is forgotten.
RequestsRefresh_Forgets ==
  /\ IF fetch["stream"] = Idle THEN Asks("stream") ELSE UNCHANGED <<fetch, loading>>
  /\ UNCHANGED needs

\* requestInboxRefresh.
RequestsRefresh ==
  IF fetch["stream"] = Idle
  THEN Asks("stream") /\ UNCHANGED needs
  ELSE needs' = TRUE /\ UNCHANGED <<fetch, loading>>

\* onmessage: every change makes the tab ask, a connection only after a failure.
HearsEvent ==
  /\ wire # <<>>
  /\ wire' = Tail(wire)
  /\ IF Head(wire).type = "changed" \/ recovers
     THEN /\ RequestsRefresh
          /\ missing' = \/ missing /\ fetch["stream"] # Idle
                        \/ fetch["stream"].stage = "read"
                           /\ Head(wire).version > fetch["stream"].version
     ELSE UNCHANGED <<fetch, loading, needs, missing>>
  /\ recovers' = (recovers /\ Head(wire).type = "changed")
  /\ UNCHANGED <<storeVars, source, hides, board, commandVars, faults>>
  /\ Polling(timer)

\* The server reads the list.
ListIsRead(f) ==
  /\ fetch[f].stage = "sent"
  /\ fetch' = [fetch EXCEPT ![f] = [stage |-> "read", version |-> db]]
  /\ UNCHANGED <<storeVars, sourceVars, needs, board, loading,
                 timer, missing, commandVars, faults>>

\* Mutant: a poll that has come back does not schedule the next one.
Reschedules_Never(f) == FALSE

\* A poll and the refresh of a tab that came back both schedule the next poll.
Reschedules(f) == f \in {"poll", "focus"}

\* A command is over.
Over(c) ==
  /\ command' = [command EXCEPT ![c] = "over"]
  /\ previous' = [previous EXCEPT ![c] = NoList]
  /\ mutating' = FALSE

\* What follows a call of refreshList: the stream asks again if it was asked to,
\* a poll schedules the next one, a command is over.
Settles(f) ==
  LET again == f = "stream" /\ needs IN
  /\ fetch' = [fetch EXCEPT ![f] = IF again THEN Sent ELSE Idle]
  /\ needs' = (needs /\ f # "stream")
  /\ missing' = (missing /\ ~again)
  /\ loading' = (again /\ board' = NoList)
  /\ IF f \in Command THEN Over(f) ELSE UNCHANGED commandVars
  /\ Polling(timer \/ Reschedules(f))
  /\ UNCHANGED <<storeVars, sourceVars>>

\* The answer replaces the list, whatever it shows by now.
ListArrives(f) ==
  /\ fetch[f].stage = "read"
  /\ board' = [version |-> fetch[f].version, kind |-> "read"]
  /\ Settles(f)
  /\ UNCHANGED faults

ListFails(f) ==
  /\ fetch[f].stage = "sent" /\ Fault
  /\ UNCHANGED board
  /\ Settles(f)

\* The recovery poll; in a hidden tab it only sets its timer again.  One is in
\* flight at a time, which with a minute between them is the rule (bound).
Polls ==
  /\ timer /\ source # "none" /\ fetch["poll"] = Idle
  /\ Asks("poll")
  /\ UNCHANGED <<storeVars, sourceVars, needs, board, missing,
                 commandVars, faults>>
  /\ Polling(FALSE)

\* The stream is closed and its timer cleared; what it had to recover stays.
Hides ==
  /\ source # "none" /\ hides < MaxHides
  /\ hides' = hides + 1
  /\ source' = "none" /\ wire' = <<>>
  /\ UNCHANGED <<storeVars, recovers, listVars, commandVars, faults>>

\* The tab is looked at again: it opens a stream, and polls at once if that is enabled.
Shows ==
  /\ source = "none" /\ fetch["focus"] = Idle
  /\ source' = "requested"
  /\ IF Enabled THEN Asks("focus") ELSE UNCHANGED <<fetch, loading>>
  /\ UNCHANGED <<storeVars, recovers, wire, hides,
                 needs, board, missing, commandVars, faults>>
  /\ Polling(timer /\ ~Enabled)

-------------------------------------------------------------------------------
(* Commands of the operator *)

\* The list shows at once what the command is to bring about.
Commands(c) ==
  /\ command[c] = "idle" /\ board # NoList
  /\ command' = [command EXCEPT ![c] = "sent"]
  /\ previous' = [previous EXCEPT ![c] = board]
  /\ board' = [board EXCEPT !.kind = "guess"]
  /\ mutating' = TRUE
  /\ UNCHANGED <<storeVars, sourceVars, fetch, needs, loading, missing,
                 faults>>
  /\ Polling(timer)

CommandCommits(c) ==
  /\ command[c] = "sent"
  /\ command' = [command EXCEPT ![c] = "committed"]
  /\ db' = db + 1
  /\ UNCHANGED <<unsent, changes, sourceVars, listVars, previous, mutating, faults>>

CommandEmits(c) ==
  /\ command[c] = "committed"
  /\ command' = [command EXCEPT ![c] = "emitted"]
  /\ wire' = Announced
  /\ UNCHANGED <<storeVars, source, recovers, hides, listVars, previous, mutating, faults>>

CommandIsAnswered(c) ==
  /\ command[c] = "emitted"
  /\ command' = [command EXCEPT ![c] = "refreshing"]
  /\ Asks(c)
  /\ UNCHANGED <<storeVars, sourceVars, needs, board, missing, previous,
                 mutating, faults>>
  /\ Polling(timer)

\* The command was refused, the process died, or its answer is lost: the list is what it was when
\* the command was given, whatever has arrived since.
CommandFails(c) ==
  /\ \/ command[c] = "sent" /\ UNCHANGED faults
     \/ command[c] \in {"committed", "emitted"} /\ Fault
  /\ board' = previous[c]
  /\ Over(c)
  /\ UNCHANGED <<storeVars, sourceVars, fetch, needs, loading, missing>>
  /\ Polling(timer)

-------------------------------------------------------------------------------
TabNext ==
  \/ Changes \/ Emits \/ EmitIsLost \/ ListenerEnds \/ ListenerReturns
  \/ StreamIsServed \/ StreamErrs \/ Reconnects \/ HearsEvent
  \/ \E f \in Fetcher : ListIsRead(f) \/ ListArrives(f) \/ ListFails(f)
  \/ Polls \/ Hides \/ Shows
  \/ \E c \in Command : Commands(c) \/ CommandCommits(c) \/ CommandEmits(c)
                       \/ CommandIsAnswered(c) \/ CommandFails(c)

TabSpec == TabInit /\ [][TabNext]_tabVars

\* Calls are answered and timers fire; nothing is assumed of the operator, nor
\* that events are sent or heard.
Fairness ==
  /\ WF_tabVars(Polls)
  /\ \A f \in Fetcher : WF_tabVars(ListIsRead(f)) /\ WF_tabVars(ListArrives(f))
  /\ \A c \in Command : /\ WF_tabVars(CommandCommits(c) \/ CommandFails(c))
                        /\ WF_tabVars(CommandEmits(c)) /\ WF_tabVars(CommandIsAnswered(c))

TabFairSpec == TabSpec /\ Fairness

-------------------------------------------------------------------------------
(* What must hold *)

\* No event is lost by coalescing: when the stream tells the tab of a change that
\* the answer of the refresh in flight does not hold, or of a connection made
\* after a failure, another refresh is due (requestInboxRefresh: inFlight,
\* needsRefresh).
HeardIsAsked == missing => needs

\* "turns tiny invalidation events into the existing projection refresh calls":
\* events are missed before the stream is connected, while the shared connection
\* is down and when a process dies before it notifies, answers overtake each
\* other, and commands are rolled back to a list that has been replaced since.
\* A tab that stays in the foreground still ends up with the list as it is.
BoardCatchesUp == <>[](source # "none") => <>[](board = [version |-> db, kind |-> "read"])

===============================================================================
