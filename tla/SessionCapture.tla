----------------------------- MODULE SessionCapture -----------------------------
(***************************************************************************)
(* The browser SDK on one page after another of a tab, and the requests it *)
(* makes: TrustLoop (init, setUser, clearUser, startRecording,        *)
(* stopRecording, destroy), the capture handlers, the ring buffer, the     *)
(* session manager, the consent manager and the transport.  What the       *)
(* endpoint does with a request is SessionEvidence's subject.              *)
(*                                                                         *)
(* JavaScript runs a handler to its next await, so one action is one       *)
(* handler or one outcome of a fetch.  An event is the number of its       *)
(* capture.  How old an event is and how large a payload is decide what is *)
(* evicted and where it is split: any prefix.  The recorder's stream is    *)
(* left out but for the payloads it makes that hold no event.              *)
(***************************************************************************)
EXTENDS Naturals, FiniteSets

CONSTANTS
  User, NoUser,     \* identities given to the SDK; undefined
  MaxCalls,         \* bound: what the application, the user and the browser do
  MaxPayloads,      \* bound: payloads built
  MaxSessions,      \* bound: session ids generated
  MaxAttempts       \* MAX_RETRY_ATTEMPTS

ASSUME BoundsAssumption ==
  /\ NoUser \notin User
  /\ {MaxCalls, MaxPayloads, MaxSessions} \subseteq Nat
  /\ MaxAttempts \in Nat \ {0}

VARIABLES
  on,         \* initialized
  recording,  \* the consent manager's flag
  saved,      \* sessionStorage holds "1"
  user,       \* userId and userEmail
  warned,     \* identityWarningLogged
  session,    \* the session id, in order of generation
  buffer,     \* the ring buffer
  clock,      \* the last event captured
  online,     \* navigator.onLine
  sends,      \* progress of each payload built
  calls,      \* how often the world outside has acted (auxiliary)
  blanked     \* sessions in which setUser took the identity away (auxiliary)

identityVars == <<user, warned, session, blanked>>
bufferVars == <<buffer, clock>>
vars == <<on, recording, saved, user, warned, session, buffer, clock, online, sends, calls, blanked>>

Payloads == 1..MaxPayloads
Sessions == 0..MaxSessions
NoSend == [stage |-> "none", session |-> 0, user |-> NoUser, events |-> {}, chunk |-> {}, rest |-> {},
           attempt |-> 1, taken |-> 0]

Init ==
  /\ on = FALSE /\ recording = FALSE /\ saved \in BOOLEAN
  /\ user = NoUser /\ warned = FALSE /\ session = 0 /\ blanked = {}
  /\ buffer = {} /\ clock = 0
  /\ online \in BOOLEAN
  /\ sends = [n \in Payloads |-> NoSend]
  /\ calls = 0

(***************************************************************************)
(* The ring buffer.                                                        *)
(***************************************************************************)

\* What evict may leave of a buffer: the window moves past the oldest first.
Kept(b) == { { e \in b : e >= oldest } : oldest \in 1..(clock + 1) }

\* warnLog writes to console.warn, which captureConsoleErrors has replaced.
Warns(stillOn) ==
  IF stillOn
  THEN /\ clock' = clock + 1
       /\ buffer' = buffer \cup {clock + 1}
  ELSE UNCHANGED bufferVars

\* pushEvent: the event is stored and the window moves.
Pushes ==
  /\ on
  /\ \E kept \in Kept(buffer) : buffer' = kept \cup {clock + 1}
  /\ clock' = clock + 1
  /\ UNCHANGED <<on, recording, saved, identityVars, online, sends>>

\* A click or a navigation.
Interacts == Pushes

\* console.error, console.warn, an exception or an unhandled rejection.
Complains == Pushes

\* A failed request of the application.  Those to the endpoint are left out;
\* what the SDK writes to the console about them is not.
NetworkFails == Pushes

(***************************************************************************)
(* Sessions and identities.                                                *)
(***************************************************************************)

Rotates == session < MaxSessions /\ session' = session + 1

\* Mutant: only a first identity is taken for a change.
ChangesIdentity_OnlyFirst(next) == user = NoUser /\ next # NoUser

ChangesIdentity(next) == user # NoUser /\ next # NoUser /\ user # next

SetsUser(next) ==
  /\ on
  /\ IF ChangesIdentity(next) THEN Rotates ELSE session' = session
  /\ user' = next
  /\ warned' = FALSE
  /\ blanked' = IF user # NoUser /\ next = NoUser THEN blanked \cup {session} ELSE blanked
  /\ UNCHANGED <<on, recording, saved, bufferVars, online, sends>>

ClearsUser ==
  /\ on
  /\ IF user # NoUser THEN Rotates ELSE session' = session
  /\ user' = NoUser
  /\ warned' = FALSE
  /\ UNCHANGED <<on, recording, saved, bufferVars, online, sends, blanked>>

(***************************************************************************)
(* The transport.                                                          *)
(***************************************************************************)

Firsts(events) == { { e \in events : e <= last } : last \in events }

LastAttempt(s) == s.attempt = MaxAttempts

\* The endpoint has answered 202; whether the answer arrives is another question.
Taken(s) == [s EXCEPT !.taken = @ + 1]

\* splitPayload.
NextChunk(s) ==
  IF s.rest = {} THEN [s EXCEPT !.stage = "over"]
  ELSE [s EXCEPT !.stage = "ready", !.attempt = 1, !.taken = 0]

Free(n) == sends[n].stage = "none" /\ \A m \in Payloads : m < n => sends[m].stage # "none"

\* buildFlushPayload: the events are taken, perhaps none beside the
\* recorder's, before the session id is asked for, which rotates it after
\* thirty idle minutes.
Builds(n) ==
  /\ Free(n)
  /\ session' = session \/ Rotates

Payload(events, stage) ==
  [stage |-> stage, session |-> session', user |-> user, events |-> events,
   chunk |-> IF stage = "loose" THEN events ELSE {}, rest |-> IF stage = "loose" THEN {} ELSE events,
   attempt |-> 1, taken |-> 0]

\* Mutant: the buffer is not replaced.
Drains_Keeps(kept) == buffer' = kept

\* flush of the ring buffer.
Drains(kept) == buffer' = {}

\* performFlush, on the timer or when the page is hidden.
Flushes(n) ==
  /\ on /\ recording
  /\ \E kept \in Kept(buffer) :
       /\ Builds(n)
       /\ sends' = [sends EXCEPT ![n] = Payload(kept, IF online THEN "ready" ELSE "queued")]
       /\ IF ~warned /\ user = NoUser
          THEN clock' = clock + 1 /\ buffer' = {clock + 1} /\ warned' = TRUE
          ELSE Drains(kept) /\ UNCHANGED <<clock, warned>>
  /\ UNCHANGED <<on, recording, saved, user, blanked, online>>

TransportOnly == UNCHANGED <<on, recording, saved, identityVars>>

Connectivity ==
  /\ online' = ~online
  /\ sends' = [n \in Payloads |-> IF sends[n].stage = "queued" /\ online' THEN [sends[n] EXCEPT !.stage = "ready"]
                                  ELSE sends[n]]
  /\ TransportOnly
  /\ UNCHANGED bufferVars

\* Each chunk is compressed on its own, asynchronously.
ChunkIsReady(n) ==
  /\ sends[n].stage = "ready"
  /\ \E chunk \in IF sends[n].rest = {} THEN {{}} ELSE Firsts(sends[n].rest) :
       sends' = [sends EXCEPT ![n] = [sends[n] EXCEPT !.stage = "sending", !.chunk = chunk, !.rest = @ \ chunk]]
  /\ TransportOnly
  /\ UNCHANGED <<bufferVars, online>>

\* A 202 that arrives, or a refusal the SDK does not retry.
RequestEnds(n) ==
  /\ sends[n].stage = "sending"
  /\ \/ sends' = [sends EXCEPT ![n] = NextChunk(Taken(@))] /\ UNCHANGED bufferVars
     \/ sends' = [sends EXCEPT ![n] = NextChunk(@)] /\ Warns(on)
  /\ TransportOnly
  /\ online' = online

\* 429, a server error, or no answer to a request that may have been taken.
RequestFails(n) ==
  /\ sends[n].stage = "sending"
  /\ \E s \in {sends[n], Taken(sends[n])} :
       IF LastAttempt(s)
       THEN sends' = [sends EXCEPT ![n] = NextChunk(s)] /\ Warns(on)
       ELSE sends' = [sends EXCEPT ![n] = [s EXCEPT !.attempt = @ + 1]] /\ UNCHANGED bufferVars
  /\ TransportOnly
  /\ online' = online

\* A request nobody waits for any more.
LooseEnds(n) ==
  /\ sends[n].stage = "loose"
  /\ \E s \in {sends[n], Taken(sends[n])} : sends' = [sends EXCEPT ![n] = [s EXCEPT !.stage = "over"]]
  /\ TransportOnly
  /\ UNCHANGED <<bufferVars, online>>

(***************************************************************************)
(* The public API and the life of the page.                                *)
(***************************************************************************)

\* A second init warns and does nothing else: the warning is a capture.
Inits(next) ==
  /\ ~on
  /\ on' = TRUE
  /\ recording' = saved /\ saved' = saved
  /\ user' = next
  /\ Rotates
  /\ buffer' = {}
  /\ UNCHANGED <<warned, blanked, clock, online, sends>>

StartsRecording ==
  /\ on
  /\ recording' = TRUE
  /\ saved' = (saved \/ ~recording)
  /\ UNCHANGED <<on, identityVars, bufferVars, online, sends>>

\* The flush that follows finds the flag cleared and does nothing.
StopsRecording ==
  /\ on
  /\ recording' = FALSE
  /\ saved' = (saved /\ ~recording)
  /\ UNCHANGED <<on, identityVars, bufferVars, online, sends>>

\* What leaving the page, or destroy alone, makes of a payload under way.
Abandoned(s, leaves) ==
  CASE s.stage = "queued" -> [s EXCEPT !.stage = "over"]
    [] s.stage = "ready" /\ leaves -> [s EXCEPT !.stage = "over"]
    [] s.stage = "sending" /\ leaves -> [s EXCEPT !.stage = "loose"]
    [] OTHER -> s

\* performBeaconFlush, with what becomes of the others: the replay is taken
\* and left out.
Beacons(n, others) ==
  /\ \E kept \in Kept(buffer) :
       \/ /\ recording /\ Builds(n)
          /\ sends' = [others EXCEPT ![n] = Payload(kept, "loose")]
       \/ /\ ~recording \/ kept = {}
          /\ session' = session /\ sends' = others
  /\ buffer' = IF recording \/ ~on' THEN {} ELSE buffer

\* beforeunload of a page that stays after all.
UnloadIsCancelled(n) ==
  /\ on
  /\ on' = on
  /\ Beacons(n, sends)
  /\ UNCHANGED <<recording, saved, user, warned, blanked, clock, online>>

\* destroy flushes and tears down: requests on their way go on, the queue is
\* forgotten.
Destroys(n) ==
  /\ on
  /\ on' = FALSE /\ recording' = FALSE /\ saved' = FALSE /\ warned' = FALSE
  /\ Beacons(n, [m \in Payloads |-> Abandoned(sends[m], FALSE)])
  /\ UNCHANGED <<user, blanked, clock, online>>

\* The page goes and its state with it; requests that are out may arrive.
\* sessionStorage stays.
Unloads(n) ==
  /\ on
  /\ on' = FALSE /\ recording' = FALSE /\ warned' = FALSE /\ user' = NoUser
  /\ Beacons(n, [m \in Payloads |-> Abandoned(sends[m], TRUE)])
  /\ UNCHANGED <<saved, blanked, clock, online>>

-----------------------------------------------------------------------------

Outside ==
  \/ Interacts \/ Complains \/ NetworkFails \/ ClearsUser \/ StartsRecording \/ StopsRecording \/ Connectivity
  \/ \E next \in User \cup {NoUser} : SetsUser(next) \/ Inits(next)
  \/ \E n \in Payloads : UnloadIsCancelled(n) \/ Destroys(n) \/ Unloads(n)
Inside ==
  \/ \E n \in Payloads : Flushes(n) \/ ChunkIsReady(n) \/ RequestEnds(n) \/ RequestFails(n) \/ LooseEnds(n)

Next ==
  \/ Outside /\ calls < MaxCalls /\ calls' = calls + 1
  \/ Inside /\ calls' = calls

Spec == Init /\ [][Next]_vars

(***************************************************************************)
(* Properties                                                              *)
(***************************************************************************)

Stages == { "none", "queued", "ready", "sending", "loose", "over" }
TypeOK ==
  /\ on \in BOOLEAN /\ recording \in BOOLEAN /\ saved \in BOOLEAN /\ warned \in BOOLEAN /\ online \in BOOLEAN
  /\ user \in User \cup {NoUser}
  /\ session \in 0..MaxSessions /\ blanked \subseteq 0..MaxSessions
  /\ clock \in Nat /\ buffer \subseteq 1..clock
  /\ sends \in [Payloads ->
       [stage : Stages, session : 0..MaxSessions, user : User \cup {NoUser}, events : SUBSET (1..clock),
        chunk : SUBSET (1..clock), rest : SUBSET (1..clock), attempt : 1..MaxAttempts, taken : Nat]]
  /\ \A n \in Payloads : sends[n].chunk \cup sends[n].rest \subseteq sends[n].events
  /\ calls \in 0..MaxCalls

Sent(s) == { n \in Payloads : sends[n].stage # "none" /\ sends[n].session = s }

\* The payloads of a session name one user at most, unless setUser was
\* called without an identity while it lasted.
OneUserPerSession ==
  \A s \in Sessions \ blanked : \A m, n \in Sent(s) :
    {sends[m].user, sends[n].user} \subseteq User => sends[m].user = sends[n].user

\* An event is in one payload, in one chunk of it, and taken no more often
\* than a chunk is tried, whatever answers are lost and however the page ends.
CopiesBounded ==
  /\ \A m, n \in Payloads : m # n => sends[m].events \cap sends[n].events = {}
  /\ \A n \in Payloads : sends[n].events \cap buffer = {}
  /\ \A n \in Payloads : sends[n].taken <= MaxAttempts /\ sends[n].chunk \cap sends[n].rest = {}

=============================================================================
