--------------------------- MODULE Sessions_proofs ---------------------------
(***************************************************************************)
(* Proofs about the two halves of session capture.                         *)
(*                                                                         *)
(* SessionCapture, for any users and any numbers of calls, payloads,       *)
(* sessions and attempts.  A payload is followed from the buffer to its    *)
(* end (SendOK); while the SDK runs in a session nobody blanked, every     *)
(* payload of that session that names a user names the current one         *)
(* (NamesCurrent), and no payload has a session that is still to come      *)
(* (Placed).                                                               *)
(*                                                                         *)
(* SessionEvidence, for any requests, lookups, messages and people.  A     *)
(* match is founded on what its lookup saw, an operator's on a task that   *)
(* made it, and a lookup that is going to write has read a conversation    *)
(* without a decision (EvidenceInv); a request that met a conflict finds   *)
(* the row when it tries again (RetriesFind).                              *)
(***************************************************************************)
EXTENDS SessionCapture, SessionEvidence, TLAPS, WellFoundedInduction
USE DEF identityVars, bufferVars, Payloads

SendType(c) ==
  [stage : Stages, session : 0..MaxSessions, user : User \cup {NoUser}, events : SUBSET (1..c),
   chunk : SUBSET (1..c), rest : SUBSET (1..c), attempt : 1..MaxAttempts, taken : Nat]

\* One payload: what is being sent and what is left are parts of it, and it was taken less often
\* than it was tried.
SendOK(s) ==
  /\ s.stage = "none" => s = NoSend
  /\ s.chunk \cap s.rest = {} /\ s.chunk \cup s.rest \subseteq s.events
  /\ s.taken <= s.attempt
  /\ s.stage # "over" => s.taken < s.attempt

Placed == \A n \in Payloads : sends[n].stage # "none" => sends[n].session <= session

NamesCurrent ==
  on /\ session \notin blanked => \A n \in Sent(session) : sends[n].user \in User => sends[n].user = user

Apart ==
  /\ \A m, n \in Payloads : m # n => sends[m].events \cap sends[n].events = {}
  /\ \A n \in Payloads : sends[n].events \cap buffer = {}

Inv ==
  /\ TypeOK /\ Placed /\ NamesCurrent /\ OneUserPerSession /\ Apart
  /\ \A n \in Payloads : SendOK(sends[n])

LEMMA Bounds == MaxCalls \in Nat /\ MaxPayloads \in Nat /\ MaxSessions \in Nat /\ MaxAttempts \in Nat \ {0}
BY BoundsAssumption

LEMMA SendsTyped == TypeOK => clock \in Nat /\ session \in Nat /\ \A n \in Payloads : sends[n] \in SendType(clock)
BY Bounds DEF TypeOK, SendType

LEMMA InitInv == Init => Inv
<1>. SUFFICES ASSUME Init PROVE Inv
  OBVIOUS
<1>1. \A n \in Payloads : sends[n] = NoSend
  BY DEF Init
<1>2. NoSend \in SendType(0)
  BY Bounds DEF NoSend, SendType, Stages
<1>3. TypeOK
  <2>1. sends \in [Payloads -> SendType(0)]
    BY <1>2 DEF Init
  <2>2. \A n \in Payloads : sends[n].chunk \cup sends[n].rest \subseteq sends[n].events
    BY <1>1 DEF NoSend
  <2>3. clock = 0 /\ sends \in [Payloads -> SendType(clock)]
    BY <2>1 DEF Init
  <2>4. /\ on \in BOOLEAN /\ recording \in BOOLEAN /\ saved \in BOOLEAN /\ warned \in BOOLEAN /\ online \in BOOLEAN
        /\ user \in User \cup {NoUser} /\ buffer \subseteq 1..clock /\ blanked \subseteq 0..MaxSessions
    BY DEF Init
  <2>5. session \in 0..MaxSessions /\ calls \in 0..MaxCalls /\ clock \in Nat
    BY Bounds DEF Init
  <2>. QED BY <2>2, <2>3, <2>4, <2>5 DEF TypeOK, SendType
<1>4. SendOK(NoSend)
  BY DEF SendOK, NoSend
<1>5. \A s : Sent(s) = {}
  BY <1>1 DEF Sent, NoSend
<1>6. Placed /\ NamesCurrent /\ OneUserPerSession /\ Apart
  BY <1>1, <1>5 DEF Init, Placed, NamesCurrent, OneUserPerSession, Apart, NoSend
<1>. QED BY <1>1, <1>3, <1>4, <1>6 DEF Inv

-------------------------------------------------------------------------------
(* What any step does *)

\* A payload goes on, and a new one is made of the buffer.
Continues(n) ==
  /\ sends'[n].session = sends[n].session /\ sends'[n].user = sends[n].user
  /\ sends'[n].events = sends[n].events
  /\ sends'[n].stage = "none" <=> sends[n].stage = "none"

Fresh(n) ==
  /\ on /\ sends[n].stage = "none" /\ sends'[n].stage # "none"
  /\ sends'[n].session = session' /\ sends'[n].user = user
  /\ sends'[n].events \subseteq buffer /\ sends'[n].events \cap buffer' = {}

Follows(s, c) == s \in SendType(c) /\ SendOK(s)

BufferMoves ==
  \/ clock' = clock /\ buffer' \subseteq buffer
  \/ clock' = clock + 1 /\ buffer' \subseteq buffer \cup {clock + 1}

\* The session stays with its user, a new one begins, or the SDK stops.
IdentityMoves ==
  /\ blanked \subseteq blanked' /\ blanked' \subseteq blanked \cup {session}
  /\ session' = session \/ (session < MaxSessions /\ session' = session + 1)
  /\ user' \in User \cup {NoUser}
  /\ on' \in BOOLEAN
  /\ on' /\ session' = session => /\ on
                                  /\ user' = user \/ user = NoUser \/ (user' = NoUser /\ session \in blanked')

Rest ==
  /\ recording' \in BOOLEAN /\ saved' \in BOOLEAN /\ warned' \in BOOLEAN /\ online' \in BOOLEAN
  /\ calls' \in 0..MaxCalls

Moves ==
  /\ BufferMoves /\ IdentityMoves /\ Rest
  /\ DOMAIN sends' = Payloads /\ sends' = [n \in Payloads |-> sends'[n]]
  /\ \A n \in Payloads : Follows(sends'[n], clock')
  /\ \A n \in Payloads : Continues(n) \/ (Fresh(n) /\ user' = user) \/ (Fresh(n) /\ ~on')
  /\ \A m, n \in Payloads : Fresh(m) /\ Fresh(n) => m = n

LEMMA MovesKeep ==
  ASSUME Inv, Moves
  PROVE  Inv'
<1>0. /\ clock \in Nat /\ session \in Nat /\ session \in 0..MaxSessions /\ clock' \in Nat /\ buffer \subseteq 1..clock
      /\ session' \in 0..MaxSessions /\ session' \in Nat /\ session' >= session
      /\ blanked \subseteq 0..MaxSessions
  BY Bounds DEF Inv, TypeOK, Moves, BufferMoves, IdentityMoves
<1>1. TypeOK'
  <2>1. buffer' \subseteq 1..clock'
    BY <1>0 DEF Moves, BufferMoves
  <2>2. sends' \in [Payloads -> SendType(clock')]
    BY DEF Moves, Follows
  <2>3. \A n \in Payloads : sends'[n].chunk \cup sends'[n].rest \subseteq sends'[n].events
    BY DEF Moves, Follows, SendOK
  <2>4. blanked' \subseteq 0..MaxSessions /\ user' \in User \cup {NoUser} /\ on' \in BOOLEAN
    BY <1>0 DEF Moves, IdentityMoves
  <2>. QED BY <1>0, <2>1, <2>2, <2>3, <2>4 DEF TypeOK, Moves, Rest, SendType
<1>2. \A n \in Payloads : SendOK(sends'[n])
  BY DEF Moves, Follows
<1>3. \A n \in Payloads : sends[n] \in SendType(clock) /\ sends'[n] \in SendType(clock')
  BY SendsTyped DEF Inv, Moves, Follows
<1>4. Placed'
  <2>1. SUFFICES ASSUME NEW n \in Payloads, sends'[n].stage # "none"
                 PROVE  sends'[n].session <= session'
    BY DEF Placed
  <2>2. CASE Continues(n)
    <3>1. sends[n].session <= session /\ sends[n].session \in Nat
      BY <1>3, <2>1, <2>2, Bounds DEF Continues, Inv, Placed, SendType
    <3>. QED BY <1>0, <2>2, <3>1 DEF Continues
  <2>3. CASE Fresh(n)
    BY <1>0, <2>3 DEF Fresh
  <2>. QED BY <2>2, <2>3 DEF Moves
\* A payload that goes on in the current session, if there is one, names its user.
<1>5. ASSUME NEW n \in Payloads, sends'[n].stage # "none", sends'[n].session = session', Continues(n)
      PROVE  /\ session' = session /\ n \in Sent(session)
             /\ on /\ session \notin blanked /\ sends'[n].user \in User => sends'[n].user = user
  <2>1. sends[n].session <= session /\ sends[n].session \in Nat /\ sends[n].stage # "none"
    BY <1>3, <1>5, Bounds DEF Continues, Inv, Placed, SendType
  <2>2. session' = session /\ n \in Sent(session)
    BY <1>0, <1>5, <2>1 DEF Continues, Sent
  <2>. QED BY <1>5, <2>2 DEF Inv, NamesCurrent, Continues
<1>6. NamesCurrent'
  <2>1. SUFFICES ASSUME on', session' \notin blanked', NEW n \in Payloads, sends'[n].stage # "none",
                        sends'[n].session = session', sends'[n].user \in User
                 PROVE  sends'[n].user = user'
    BY DEF NamesCurrent, Sent
  <2>2. CASE Continues(n)
    <3>1. session' = session /\ (on /\ session \notin blanked => sends'[n].user = user)
      BY <1>5, <2>1, <2>2
    <3>2. on /\ session \notin blanked /\ (user' = user \/ user = NoUser)
      BY <2>1, <3>1 DEF Moves, IdentityMoves
    <3>3. sends'[n].user = user /\ user # NoUser
      BY <2>1, <3>1, <3>2, BoundsAssumption
    <3>. QED BY <3>2, <3>3
  <2>3. CASE ~Continues(n)
    BY <2>1, <2>3 DEF Moves, Fresh
  <2>. QED BY <2>2, <2>3
<1>7. OneUserPerSession'
  <2>1. SUFFICES ASSUME NEW s \in Sessions \ blanked', NEW m \in Payloads, NEW n \in Payloads,
                        sends'[m].stage # "none", sends'[m].session = s,
                        sends'[n].stage # "none", sends'[n].session = s,
                        sends'[m].user \in User, sends'[n].user \in User
                 PROVE  sends'[m].user = sends'[n].user
    BY DEF OneUserPerSession, Sent
  <2>2. s \notin blanked
    BY <2>1 DEF Moves, IdentityMoves
  <2>3. CASE Continues(m) /\ Continues(n)
    BY <2>1, <2>2, <2>3 DEF Continues, Inv, OneUserPerSession, Sent
  <2>4. ASSUME NEW k \in Payloads, NEW l \in Payloads, Fresh(k), Continues(l),
               sends'[k].session = s, sends'[l].session = s, sends'[l].stage # "none", sends'[l].user \in User
        PROVE  sends'[k].user = sends'[l].user
    <3>1. s = session' /\ on /\ sends'[k].user = user
      BY <2>4 DEF Fresh
    <3>. QED BY <1>5, <2>2, <2>4, <3>1
  <2>5. CASE Fresh(m) /\ Fresh(n)
    BY <2>5 DEF Moves
  <2>. QED BY <2>1, <2>3, <2>4, <2>5 DEF Moves
<1>8. Apart'
  <2>1. \A n \in Payloads : sends[n].events \subseteq 1..clock
    BY <1>3 DEF SendType
  <2>2. \A n \in Payloads : sends'[n].events \cap buffer' = {}
    <3>1. SUFFICES ASSUME NEW n \in Payloads, Continues(n)
                   PROVE  sends'[n].events \cap buffer' = {}
      BY DEF Moves, Fresh
    <3>2. sends'[n].events = sends[n].events /\ sends[n].events \cap buffer = {}
      BY <3>1 DEF Continues, Inv, Apart
    <3>3. clock + 1 \notin sends[n].events
      BY <1>0, <2>1
    <3>. QED BY <3>2, <3>3 DEF Moves, BufferMoves
  <2>3. \A m, n \in Payloads : m # n => sends'[m].events \cap sends'[n].events = {}
    <3>1. ASSUME NEW k \in Payloads, NEW l \in Payloads, Fresh(k), Continues(l)
          PROVE  sends'[k].events \cap sends'[l].events = {}
      BY <3>1 DEF Fresh, Continues, Inv, Apart
    <3>2. ASSUME NEW k \in Payloads, NEW l \in Payloads, k # l, Continues(k), Continues(l)
          PROVE  sends'[k].events \cap sends'[l].events = {}
      BY <3>2 DEF Continues, Inv, Apart
    <3>3. ASSUME NEW k \in Payloads, NEW l \in Payloads, k # l
          PROVE  sends'[k].events \cap sends'[l].events = {}
      BY <3>1, <3>2, <3>3 DEF Moves
    <3>. QED BY <3>3
  <2>. QED BY <2>2, <2>3 DEF Apart
<1>. QED BY <1>1, <1>2, <1>4, <1>6, <1>7, <1>8 DEF Inv

-------------------------------------------------------------------------------
(* Every action does no more *)

LEMMA Fits ==
  ASSUME Inv, NEW n \in Payloads
  PROVE  /\ sends[n] \in SendType(clock) /\ SendOK(sends[n])
         /\ \A c \in {clock, clock + 1} : Follows(sends[n], c)
<1>1. sends[n] \in SendType(clock) /\ clock \in Nat
  BY SendsTyped DEF Inv
<1>2. \A c \in {clock, clock + 1} : 1..clock \subseteq 1..c
  BY <1>1
<1>3. \A c \in {clock, clock + 1} : sends[n] \in SendType(c)
  BY <1>1, <1>2 DEF SendType
<1>. QED BY <1>1, <1>3 DEF Inv, Follows

\* Nothing happens to any payload.
LEMMA IdleMoves ==
  ASSUME Inv, sends' = sends, BufferMoves, IdentityMoves, Rest
  PROVE  Moves
<1>1. clock' \in {clock, clock + 1}
  BY DEF BufferMoves
<1>2. \A n \in Payloads : Follows(sends'[n], clock') /\ Continues(n) /\ ~Fresh(n)
  BY <1>1, Fits DEF Continues, Fresh
<1>3. DOMAIN sends = Payloads /\ sends = [n \in Payloads |-> sends[n]]
  BY DEF Inv, TypeOK
<1>. QED BY <1>2, <1>3 DEF Moves

\* Something happens to payloads that are under way.
LEMMA TransportMoves ==
  ASSUME Inv, NEW f, sends' = [n \in Payloads |-> f[n]], BufferMoves, IdentityMoves, Rest,
         \A n \in Payloads : /\ Follows(f[n], clock')
                             /\ f[n].session = sends[n].session /\ f[n].user = sends[n].user
                             /\ f[n].events = sends[n].events
                             /\ f[n].stage = "none" <=> sends[n].stage = "none"
  PROVE  Moves
<1>1. \A n \in Payloads : Follows(sends'[n], clock') /\ Continues(n) /\ ~Fresh(n)
  BY DEF Continues, Fresh
<1>. QED BY <1>1 DEF Moves

LEMMA Stays ==
  ASSUME Inv, calls' \in 0..MaxCalls
  PROVE  /\ UNCHANGED <<buffer, clock>> => BufferMoves
         /\ UNCHANGED <<on, user, session, blanked>> => IdentityMoves
         /\ UNCHANGED <<recording, saved, warned, online>> => Rest
BY DEF Inv, TypeOK, BufferMoves, IdentityMoves, Rest

LEMMA KeptIsPart == ASSUME NEW b, NEW kept \in Kept(b) PROVE kept \subseteq b
BY DEF Kept

LEMMA WarnsMoves ==
  ASSUME Inv, Warns(on)
  PROVE  BufferMoves
BY DEF Warns, BufferMoves

LEMMA PushesMoves ==
  ASSUME Inv, Pushes, calls' \in 0..MaxCalls
  PROVE  Moves
<1>1. BufferMoves
  BY KeptIsPart DEF Pushes, BufferMoves
<1>. QED BY <1>1, Stays, IdleMoves DEF Pushes

LEMMA UserMoves ==
  ASSUME Inv, calls' \in 0..MaxCalls,
         ClearsUser \/ \E next \in User \cup {NoUser} : SetsUser(next) \/ Inits(next)
  PROVE  Moves
<1>0. /\ on \in BOOLEAN /\ warned \in BOOLEAN /\ recording \in BOOLEAN /\ saved \in BOOLEAN /\ online \in BOOLEAN
      /\ user \in User \cup {NoUser} /\ session \in Nat /\ NoUser \notin User
  BY BoundsAssumption, SendsTyped DEF Inv, TypeOK
<1>1. CASE ClearsUser
  <2>1. IdentityMoves
    BY <1>0, <1>1 DEF ClearsUser, IdentityMoves, Rotates
  <2>. QED BY <1>0, <1>1, <2>1, Stays, IdleMoves DEF ClearsUser, Rest
<1>2. ASSUME NEW next \in User \cup {NoUser}, SetsUser(next)
      PROVE  Moves
  <2>1. IdentityMoves
    <3>1. /\ on' = on /\ on /\ user' = next
          /\ session' = session \/ (session < MaxSessions /\ session' = session + 1)
          /\ blanked \subseteq blanked' /\ blanked' \subseteq blanked \cup {session}
      BY <1>2 DEF SetsUser, Rotates
    <3>2. session' = session => next = user \/ user = NoUser \/ (next = NoUser /\ session \in blanked')
      BY <1>0, <1>2 DEF SetsUser, ChangesIdentity, Rotates
    <3>. QED BY <1>0, <3>1, <3>2 DEF IdentityMoves
  <2>. QED BY <1>0, <1>2, <2>1, Stays, IdleMoves DEF SetsUser, Rest
<1>3. ASSUME NEW next \in User \cup {NoUser}, Inits(next)
      PROVE  Moves
  <2>1. IdentityMoves
    BY <1>0, <1>3 DEF Inits, IdentityMoves, Rotates
  <2>2. BufferMoves
    BY <1>3 DEF Inits, BufferMoves
  <2>. QED BY <1>0, <1>3, <2>1, <2>2, IdleMoves DEF Inits, Rest
<1>. QED BY <1>1, <1>2, <1>3

LEMMA RecordingMoves ==
  ASSUME Inv, calls' \in 0..MaxCalls, StartsRecording \/ StopsRecording
  PROVE  Moves
<1>1. Rest
  BY DEF StartsRecording, StopsRecording, Inv, TypeOK, Rest
<1>. QED BY <1>1, Stays, IdleMoves DEF StartsRecording, StopsRecording

\* What becomes of a payload on its way, whoever decides it.
Onward(s, t) ==
  /\ t.session = s.session /\ t.user = s.user /\ t.events = s.events
  /\ t.stage = "none" <=> s.stage = "none"

LEMMA StageMoves ==
  ASSUME Inv, NEW n \in Payloads, NEW stage \in {"ready", "loose", "over"}, NEW c \in {clock, clock + 1},
         sends[n].stage \notin {"none", "over"}
  PROVE  /\ Follows([sends[n] EXCEPT !.stage = stage], c)
         /\ Onward(sends[n], [sends[n] EXCEPT !.stage = stage])
<1>1. sends[n] \in SendType(c) /\ SendOK(sends[n])
  BY Fits DEF Follows
<1>. QED BY <1>1 DEF Follows, SendOK, SendType, Stages, Onward

LEMMA TakenMoves ==
  ASSUME Inv, NEW n \in Payloads, NEW c \in {clock, clock + 1}, sends[n].stage \in {"sending", "loose"},
         NEW s \in {sends[n], Taken(sends[n])}
  PROVE  /\ s \in SendType(c) /\ Onward(sends[n], s) /\ s.stage = sends[n].stage /\ s.attempt = sends[n].attempt
         /\ s.chunk = sends[n].chunk /\ s.rest = sends[n].rest /\ s.taken <= s.attempt /\ SendOK(sends[n])
<1>1. sends[n] \in SendType(c) /\ SendOK(sends[n])
  BY Fits DEF Follows
<1>2. sends[n].taken \in Nat /\ sends[n].attempt \in Nat
  BY <1>1, Bounds DEF SendType
<1>. QED BY <1>1, <1>2 DEF SendOK, SendType, Onward, Taken

LEMMA NextChunkMoves ==
  ASSUME Inv, NEW n \in Payloads, NEW c \in {clock, clock + 1}, sends[n].stage = "sending",
         NEW s \in {sends[n], Taken(sends[n])}
  PROVE  Follows(NextChunk(s), c) /\ Onward(sends[n], NextChunk(s))
<1>1. /\ s \in SendType(c) /\ Onward(sends[n], s) /\ s.stage = "sending" /\ s.taken <= s.attempt
      /\ s.chunk = sends[n].chunk /\ s.rest = sends[n].rest /\ SendOK(sends[n])
  BY TakenMoves
<1>2. s.chunk \cap s.rest = {} /\ s.chunk \cup s.rest \subseteq s.events
  BY <1>1 DEF SendOK, Onward
<1>3. CASE s.rest = {}
  BY <1>1, <1>2, <1>3 DEF NextChunk, Follows, SendOK, SendType, Stages, Onward
<1>4. CASE s.rest # {}
  <2>1. 1 \in 1..MaxAttempts
    BY Bounds
  <2>2. NextChunk(s) = [s EXCEPT !.stage = "ready", !.attempt = 1, !.taken = 0]
    BY <1>4 DEF NextChunk
  <2>3. PICK t : t = [s EXCEPT !.stage = "ready", !.attempt = 1, !.taken = 0]
    OBVIOUS
  <2>4. t \in SendType(c) /\ Onward(sends[n], t)
    BY <1>1, <2>1, <2>3 DEF SendType, Stages, Onward
  <2>5. t.chunk = s.chunk /\ t.rest = s.rest /\ t.events = s.events /\ t.stage = "ready" /\ t.taken = 0 /\ t.attempt = 1
    BY <1>1, <2>3 DEF SendType
  <2>. QED BY <1>2, <2>2, <2>3, <2>4, <2>5 DEF Follows, SendOK
<1>. QED BY <1>3, <1>4

\* A step that concerns one payload on its way.
LEMMA OneMoves ==
  ASSUME Inv, NEW n \in Payloads, NEW t, sends' = [sends EXCEPT ![n] = t],
         Follows(t, clock'), Onward(sends[n], t), BufferMoves, IdentityMoves, Rest
  PROVE  Moves
<1>1. clock' \in {clock, clock + 1} /\ DOMAIN sends = Payloads
  BY DEF BufferMoves, Inv, TypeOK
<1>2. PICK f : f = [sends EXCEPT ![n] = t]
  OBVIOUS
<1>3. sends' = [m \in Payloads |-> f[m]]
  BY <1>1, <1>2
<1>4. \A m \in Payloads : Follows(f[m], clock') /\ Onward(sends[m], f[m])
  BY <1>1, <1>2, Fits DEF Onward
<1>. QED BY <1>3, <1>4, TransportMoves DEF Onward

LEMMA ChunkMoves ==
  ASSUME Inv, NEW n \in Payloads, ChunkIsReady(n), calls' \in 0..MaxCalls
  PROVE  Moves
<1>1. PICK chunk \in IF sends[n].rest = {} THEN {{}} ELSE Firsts(sends[n].rest) :
        sends' = [sends EXCEPT ![n] = [sends[n] EXCEPT !.stage = "sending", !.chunk = chunk, !.rest = @ \ chunk]]
  BY DEF ChunkIsReady
<1>2. PICK t : t = [sends[n] EXCEPT !.stage = "sending", !.chunk = chunk, !.rest = @ \ chunk]
  OBVIOUS
<1>3. sends' = [sends EXCEPT ![n] = t]
  BY <1>1, <1>2
<1>4. chunk \subseteq sends[n].rest
  BY <1>1 DEF Firsts
<1>5. sends[n].stage = "ready" /\ UNCHANGED <<buffer, clock, on, user, session, blanked, recording, saved, warned, online>>
  BY DEF ChunkIsReady, TransportOnly
<1>6. sends[n] \in SendType(clock) /\ SendOK(sends[n])
  BY Fits
<1>7. Follows(t, clock) /\ Onward(sends[n], t)
  BY <1>2, <1>4, <1>5, <1>6 DEF Follows, SendOK, SendType, Stages, Onward
<1>. QED BY <1>3, <1>5, <1>7, Stays, OneMoves

LEMMA RequestMoves ==
  ASSUME Inv, NEW n \in Payloads, RequestEnds(n) \/ RequestFails(n) \/ LooseEnds(n), calls' \in 0..MaxCalls
  PROVE  Moves
<1>1. /\ UNCHANGED <<on, user, session, blanked, recording, saved, warned, online>>
      /\ sends[n].stage \in {"sending", "loose"} /\ DOMAIN sends = Payloads
  BY DEF RequestEnds, RequestFails, LooseEnds, TransportOnly, Inv, TypeOK
<1>2. IdentityMoves /\ Rest
  BY <1>1, Stays
<1>3. BufferMoves /\ clock' \in {clock, clock + 1}
  BY Stays, WarnsMoves DEF RequestEnds, RequestFails, LooseEnds, BufferMoves
<1>4. CASE RequestEnds(n)
  <2>1. PICK s \in {sends[n], Taken(sends[n])} : sends' = [sends EXCEPT ![n] = NextChunk(s)]
    BY <1>1, <1>4 DEF RequestEnds
  <2>2. sends[n].stage = "sending"
    BY <1>4 DEF RequestEnds
  <2>. QED BY <1>2, <1>3, <2>1, <2>2, NextChunkMoves, OneMoves
<1>5. CASE RequestFails(n)
  <2>1. sends[n].stage = "sending"
    BY <1>5 DEF RequestFails
  <2>2. PICK s \in {sends[n], Taken(sends[n])} :
          \/ LastAttempt(s) /\ sends' = [sends EXCEPT ![n] = NextChunk(s)]
          \/ ~LastAttempt(s) /\ sends' = [sends EXCEPT ![n] = [s EXCEPT !.attempt = @ + 1]]
    BY <1>1, <1>5 DEF RequestFails
  <2>3. CASE LastAttempt(s)
    BY <1>2, <1>3, <2>1, <2>2, <2>3, NextChunkMoves, OneMoves
  <2>4. CASE ~LastAttempt(s)
    <3>1. PICK t : t = [s EXCEPT !.attempt = @ + 1]
      OBVIOUS
    <3>2. /\ s \in SendType(clock') /\ Onward(sends[n], s) /\ s.stage = "sending" /\ s.taken <= s.attempt
          /\ s.chunk = sends[n].chunk /\ s.rest = sends[n].rest /\ SendOK(sends[n])
      BY <1>3, <2>1, TakenMoves
    <3>3. s.attempt + 1 \in 1..MaxAttempts /\ s.taken < s.attempt + 1 /\ s.taken <= s.attempt + 1
      BY <2>4, <3>2, Bounds DEF SendType, LastAttempt
    <3>4. Follows(t, clock') /\ Onward(sends[n], t)
      BY <3>1, <3>2, <3>3 DEF Follows, SendOK, SendType, Onward
    <3>. QED BY <1>2, <1>3, <2>2, <2>4, <3>1, <3>4, OneMoves
  <2>. QED BY <2>3, <2>4
<1>6. CASE LooseEnds(n)
  <2>1. PICK s \in {sends[n], Taken(sends[n])} : sends' = [sends EXCEPT ![n] = [s EXCEPT !.stage = "over"]]
    BY <1>6 DEF LooseEnds
  <2>2. /\ s \in SendType(clock') /\ Onward(sends[n], s) /\ s.taken <= s.attempt /\ s.stage \in {"sending", "loose"}
        /\ s.chunk = sends[n].chunk /\ s.rest = sends[n].rest /\ SendOK(sends[n])
    BY <1>1, <1>3, TakenMoves
  <2>3. PICK t : t = [s EXCEPT !.stage = "over"]
    OBVIOUS
  <2>4. Follows(t, clock') /\ Onward(sends[n], t)
    BY <2>2, <2>3 DEF Follows, SendOK, SendType, Stages, Onward
  <2>. QED BY <1>2, <1>3, <2>1, <2>3, <2>4, OneMoves
<1>. QED BY <1>4, <1>5, <1>6

LEMMA ConnectivityMoves ==
  ASSUME Inv, Connectivity, calls' \in 0..MaxCalls
  PROVE  Moves
<1>1. /\ UNCHANGED <<on, user, session, blanked, recording, saved, warned, buffer, clock>> /\ online' = ~online
      /\ sends' = [n \in Payloads |-> IF sends[n].stage = "queued" /\ online' THEN [sends[n] EXCEPT !.stage = "ready"]
                                      ELSE sends[n]]
  BY DEF Connectivity, TransportOnly
<1>2. PICK f : f = [n \in Payloads |-> IF sends[n].stage = "queued" /\ online' THEN [sends[n] EXCEPT !.stage = "ready"]
                                       ELSE sends[n]]
  OBVIOUS
<1>3. ASSUME NEW n \in Payloads
      PROVE  Follows(f[n], clock') /\ Onward(sends[n], f[n])
  BY <1>1, <1>2, Fits, StageMoves DEF Onward
<1>4. Rest
  BY <1>1 DEF Inv, TypeOK, Rest
<1>5. sends' = [n \in Payloads |-> f[n]]
  BY <1>1, <1>2
<1>. QED BY <1>1, <1>3, <1>4, <1>5, Stays, TransportMoves DEF Onward

\* The new payload.
LEMMA BuildMoves ==
  ASSUME Inv, on, NEW n \in Payloads, Builds(n), NEW kept, kept \subseteq buffer,
         NEW stage \in {"ready", "queued", "loose"}
  PROVE  /\ sends[n].stage = "none"
         /\ session' = session \/ (session < MaxSessions /\ session' = session + 1)
         /\ \A c \in {clock, clock + 1} : Follows(Payload(kept, stage), c)
         /\ Payload(kept, stage).session = session' /\ Payload(kept, stage).user = user
         /\ Payload(kept, stage).events = kept /\ Payload(kept, stage).stage = stage
<1>1. /\ sends[n].stage = "none"
      /\ session' = session \/ (session < MaxSessions /\ session' = session + 1)
  BY DEF Builds, Free, Rotates
<1>2. session' \in 0..MaxSessions /\ user \in User \cup {NoUser} /\ clock \in Nat /\ kept \subseteq 1..clock
  BY <1>1, Bounds DEF Inv, TypeOK
<1>3. \A c \in {clock, clock + 1} : kept \subseteq 1..c /\ {} \subseteq 1..c
  BY <1>2
<1>4. 1 \in 1..MaxAttempts
  BY Bounds
<1>5. \A c \in {clock, clock + 1} : Payload(kept, stage) \in SendType(c)
  BY <1>2, <1>3, <1>4 DEF Payload, SendType, Stages
<1>6. SendOK(Payload(kept, stage))
  BY DEF Payload, SendOK
<1>. QED BY <1>1, <1>5, <1>6 DEF Follows, Payload

\* One new payload beside others that go on.
LEMMA FreshMoves ==
  ASSUME Inv, on, NEW others, DOMAIN others = Payloads, NEW n \in Payloads, NEW p,
         sends' = [others EXCEPT ![n] = p], sends[n].stage = "none",
         \A m \in Payloads : Follows(others[m], clock') /\ Onward(sends[m], others[m]),
         Follows(p, clock'), p.session = session', p.user = user, p.stage # "none",
         p.events \subseteq buffer, p.events \cap buffer' = {},
         BufferMoves, IdentityMoves, Rest, user' = user \/ ~on'
  PROVE  Moves
<1>1. /\ DOMAIN sends' = Payloads /\ sends' = [m \in Payloads |-> sends'[m]]
      /\ sends'[n] = p /\ \A m \in Payloads \ {n} : sends'[m] = others[m]
  OBVIOUS
<1>2. Fresh(n)
  BY <1>1 DEF Fresh
<1>3. \A m \in Payloads \ {n} : Continues(m) /\ ~Fresh(m)
  BY <1>1 DEF Onward, Continues, Fresh
<1>4. \A m \in Payloads : Follows(sends'[m], clock')
  BY <1>1
<1>. QED BY <1>1, <1>2, <1>3, <1>4 DEF Moves

LEMMA FlushMoves ==
  ASSUME Inv, NEW n \in Payloads, Flushes(n), calls' \in 0..MaxCalls
  PROVE  Moves
<1>1. PICK kept \in Kept(buffer) :
        /\ Builds(n)
        /\ sends' = [sends EXCEPT ![n] = Payload(kept, IF online THEN "ready" ELSE "queued")]
        /\ IF ~warned /\ user = NoUser
           THEN clock' = clock + 1 /\ buffer' = {clock + 1} /\ warned' = TRUE
           ELSE Drains(kept) /\ UNCHANGED <<clock, warned>>
  BY DEF Flushes
<1>2. on /\ UNCHANGED <<on, recording, saved, user, blanked, online>>
  BY DEF Flushes
<1>3. kept \subseteq buffer /\ clock \in Nat /\ buffer \subseteq 1..clock
  BY KeptIsPart DEF Inv, TypeOK
<1>4. BufferMoves /\ clock' \in {clock, clock + 1} /\ kept \cap buffer' = {}
  BY <1>1, <1>3 DEF BufferMoves, Drains
<1>5. PICK stage \in {"ready", "queued", "loose"} : sends' = [sends EXCEPT ![n] = Payload(kept, stage)]
  BY <1>1
<1>6. /\ sends[n].stage = "none"
      /\ session' = session \/ (session < MaxSessions /\ session' = session + 1)
      /\ \A c \in {clock, clock + 1} : Follows(Payload(kept, stage), c)
      /\ Payload(kept, stage).session = session' /\ Payload(kept, stage).user = user
      /\ Payload(kept, stage).events = kept /\ Payload(kept, stage).stage = stage
  BY <1>1, <1>2, <1>3, BuildMoves
<1>7. IdentityMoves /\ Rest
  BY <1>1, <1>2, <1>6 DEF Inv, TypeOK, IdentityMoves, Rest
<1>8. \A m \in Payloads : Follows(sends[m], clock') /\ Onward(sends[m], sends[m])
  BY <1>4, Fits DEF Onward
<1>9. DOMAIN sends = Payloads
  BY DEF Inv, TypeOK
<1>. QED BY <1>2, <1>3, <1>4, <1>5, <1>6, <1>7, <1>8, <1>9, FreshMoves

LEMMA BeaconMoves ==
  ASSUME Inv, on, NEW n \in Payloads, NEW others, others = [m \in Payloads |-> others[m]], Beacons(n, others),
         \A m \in Payloads : Follows(others[m], clock) /\ Onward(sends[m], others[m]),
         clock' = clock, on' \in BOOLEAN, user' \in User \cup {NoUser}, user' = user \/ ~on', blanked' = blanked, Rest
  PROVE  Moves
<1>0. DOMAIN others = Payloads
  OBVIOUS
<1>1. PICK kept \in Kept(buffer) :
        \/ /\ recording /\ Builds(n)
           /\ sends' = [others EXCEPT ![n] = Payload(kept, "loose")]
        \/ /\ ~recording \/ kept = {}
           /\ session' = session /\ sends' = others
  BY DEF Beacons
<1>2. BufferMoves /\ (recording => buffer' = {})
  BY DEF Beacons, BufferMoves
<1>3. kept \subseteq buffer
  BY KeptIsPart
<1>4. session' = session \/ (session < MaxSessions /\ session' = session + 1)
  BY <1>1 DEF Builds, Rotates
<1>5. IdentityMoves
  BY <1>4 DEF IdentityMoves
<1>6. CASE sends' = others
  BY <1>0, <1>2, <1>5, <1>6, TransportMoves DEF Onward
<1>7. CASE recording /\ Builds(n) /\ sends' = [others EXCEPT ![n] = Payload(kept, "loose")]
  <2>1. /\ sends[n].stage = "none"
        /\ \A c \in {clock, clock + 1} : Follows(Payload(kept, "loose"), c)
        /\ Payload(kept, "loose").session = session' /\ Payload(kept, "loose").user = user
        /\ Payload(kept, "loose").events = kept /\ Payload(kept, "loose").stage = "loose"
    BY <1>3, <1>7, BuildMoves
  <2>2. kept \cap buffer' = {}
    BY <1>2, <1>7
  <2>. QED BY <1>0, <1>2, <1>3, <1>5, <1>7, <2>1, <2>2, FreshMoves
<1>. QED BY <1>1, <1>6, <1>7

LEMMA AbandonedMoves ==
  ASSUME Inv, NEW m \in Payloads, NEW leaves \in BOOLEAN
  PROVE  Follows(Abandoned(sends[m], leaves), clock) /\ Onward(sends[m], Abandoned(sends[m], leaves))
<1>1. CASE Abandoned(sends[m], leaves) = sends[m]
  BY <1>1, Fits DEF Onward
<1>2. CASE Abandoned(sends[m], leaves) # sends[m]
  <2>1. /\ sends[m].stage \in {"queued", "ready", "sending"}
        /\ \E stage \in {"loose", "over"} : Abandoned(sends[m], leaves) = [sends[m] EXCEPT !.stage = stage]
    BY <1>2 DEF Abandoned
  <2>. QED BY <2>1, StageMoves
<1>. QED BY <1>1, <1>2

LEMMA PageMoves ==
  ASSUME Inv, NEW n \in Payloads, UnloadIsCancelled(n) \/ Destroys(n) \/ Unloads(n), calls' \in 0..MaxCalls
  PROVE  Moves
<1>0. /\ user \in User \cup {NoUser} /\ DOMAIN sends = Payloads /\ sends = [m \in Payloads |-> sends[m]]
      /\ recording \in BOOLEAN /\ saved \in BOOLEAN /\ warned \in BOOLEAN /\ online \in BOOLEAN /\ on \in BOOLEAN
  BY DEF Inv, TypeOK
<1>1. CASE UnloadIsCancelled(n)
  <2>1. \A m \in Payloads : Follows(sends[m], clock) /\ Onward(sends[m], sends[m])
    BY Fits DEF Onward
  <2>2. Rest
    BY <1>0, <1>1 DEF UnloadIsCancelled, Rest
  <2>3. /\ on /\ on' = on /\ Beacons(n, sends) /\ clock' = clock /\ user' = user /\ blanked' = blanked
    BY <1>1 DEF UnloadIsCancelled
  <2>. QED BY <1>0, <2>1, <2>2, <2>3, BeaconMoves
<1>2. ASSUME NEW leaves \in BOOLEAN, on, on' = FALSE, user' \in User \cup {NoUser}, blanked' = blanked, clock' = clock, Rest,
             Beacons(n, [m \in Payloads |-> Abandoned(sends[m], leaves)])
      PROVE  Moves
  <2>1. PICK others : others = [m \in Payloads |-> Abandoned(sends[m], leaves)]
    OBVIOUS
  <2>2. others = [m \in Payloads |-> others[m]]
    BY <2>1
  <2>3. \A m \in Payloads : Follows(others[m], clock) /\ Onward(sends[m], others[m])
    BY <2>1, AbandonedMoves
  <2>4. Beacons(n, others)
    BY <1>2, <2>1
  <2>. QED BY <1>2, <2>2, <2>3, <2>4, BeaconMoves
<1>3. CASE Destroys(n)
  BY <1>0, <1>2, <1>3 DEF Destroys, Rest
<1>4. CASE Unloads(n)
  BY <1>0, <1>2, <1>4 DEF Unloads, Rest
<1>. QED BY <1>1, <1>3, <1>4

LEMMA NextInv == Inv /\ [Next]_vars => Inv'
<1>. SUFFICES ASSUME Inv, [Next]_vars PROVE Inv'
  OBVIOUS
<1>1. CASE UNCHANGED vars
  <2>1. calls' \in 0..MaxCalls
    BY <1>1 DEF vars, Inv, TypeOK
  <2>. QED BY <1>1, <2>1, Stays, IdleMoves, MovesKeep DEF vars
<1>2. CASE Outside /\ calls < MaxCalls /\ calls' = calls + 1
  <2>1. calls' \in 0..MaxCalls
    BY <1>2, Bounds DEF Inv, TypeOK
  <2>2. Moves
    BY <1>2, <2>1, PushesMoves, UserMoves, RecordingMoves, ConnectivityMoves, PageMoves
       DEF Outside, Interacts, Complains, NetworkFails
  <2>. QED BY <2>2, MovesKeep
<1>3. CASE Inside /\ calls' = calls
  <2>1. calls' \in 0..MaxCalls
    BY <1>3 DEF Inv, TypeOK
  <2>2. Moves
    BY <1>3, <2>1, FlushMoves, ChunkMoves, RequestMoves DEF Inside
  <2>. QED BY <2>2, MovesKeep
<1>. QED BY <1>1, <1>2, <1>3 DEF Next

LEMMA Invariance == Spec => []Inv
BY InitInv, NextInv, PTL DEF Spec

-------------------------------------------------------------------------------
(* The properties *)

\* Payloads, chunks and attempts stay what they are, whatever the page, the
\* network and the application do.
THEOREM TypeCorrect == Spec => []TypeOK
BY Invariance, PTL DEF Inv

\* The payloads of a session name one user at most, unless setUser took the
\* identity away while it lasted (setUser, clearUser, getSessionId).
THEOREM OneUser == Spec => []OneUserPerSession
BY Invariance, PTL DEF Inv

\* An event is in one payload and one chunk of it, and taken no more often than a chunk is tried
\* (flush, sendWithRetry, sendBeacon).
THEOREM FewCopies == Spec => []CopiesBounded
<1>1. Inv => CopiesBounded
  <2>1. SUFFICES ASSUME Inv, NEW n \in Payloads
                 PROVE  sends[n].taken <= MaxAttempts /\ sends[n].chunk \cap sends[n].rest = {}
    BY DEF CopiesBounded, Inv, Apart
  <2>2. sends[n] \in SendType(clock) /\ SendOK(sends[n])
    BY <2>1, Fits
  <2>. QED BY <2>2, Bounds DEF SendType, SendOK
<1>. QED BY <1>1, Invariance, PTL

-----------------------------------------------------------------------------
(* SessionEvidence *)

LEMMA SourceNames == Sources = {"manual", "messagePayload", "slackProfile", "messageRegex", "none"}
BY DEF Sources, Priority

LEMMA HowNames == Hows = {"manual", "conversationEmail", "slackProfileEmail", "messageRegexEmail", "none"}
BY DEF Hows, Weight

LEMMA PrioritiesDiffer ==
  ASSUME NEW a \in Sources, NEW b \in Sources
  PROVE  Priority[a] \in Nat /\ (Priority[a] = Priority[b] => a = b)
<1>1. /\ Priority["manual"] = 5 /\ Priority["messagePayload"] = 3 /\ Priority["slackProfile"] = 2
      /\ Priority["messageRegex"] = 1 /\ Priority["none"] = 0
  BY DEF Priority
<1>. QED BY <1>1, SourceNames

Offer == [email : Identified, source : Sources]

\* chooseBestEmailIdentity returns one of the three addresses it is offered, or none when there is none.
LEMMA BestIsOffered ==
  ASSUME NEW a \in Offer, NEW b \in Offer, NEW c \in Offer
  PROVE  \/ Best(<<a, b, c>>) = [email |-> Nobody, source |-> "none"]
         \/ Best(<<a, b, c>>) \in {a, b, c} /\ Best(<<a, b, c>>).email # Nobody
<1>. DEFINE o == <<a, b, c>>
            real == { i \in DOMAIN o : o[i].email # Nobody }
            P(i) == Priority[o[i].source]
            Wins(i) == \A j \in real : \/ P(i) > P(j)
                                       \/ o[i].source = o[j].source /\ i <= j
<1>1. DOMAIN o = {1, 2, 3} /\ o[1] = a /\ o[2] = b /\ o[3] = c
  OBVIOUS
<1>2. \A i \in {1, 2, 3} : o[i] \in {a, b, c} /\ o[i].source \in Sources
  BY <1>1 DEF Offer
<1>. HIDE DEF o
<1>3. \A i, j \in {1, 2, 3} : P(i) \in Nat /\ (P(i) = P(j) => o[i].source = o[j].source)
  BY <1>2, PrioritiesDiffer
<1>4. Best(o) = IF real = {} THEN [email |-> Nobody, source |-> "none"] ELSE o[CHOOSE i \in real : Wins(i)]
  BY DEF Best
<1>5. ASSUME real # {} PROVE \E i \in real : Wins(i)
  <2>. DEFINE Beats(i, j) == P(i) > P(j) \/ (o[i].source = o[j].source /\ i <= j)
  <2>1. \A i, j \in {1, 2, 3} : Beats(i, j) \/ Beats(j, i)
    <3>. SUFFICES ASSUME NEW i \in {1, 2, 3}, NEW j \in {1, 2, 3} PROVE Beats(i, j) \/ Beats(j, i)
      OBVIOUS
    <3>1. P(i) \in Nat /\ P(j) \in Nat /\ (P(i) = P(j) => o[i].source = o[j].source)
      BY <1>3
    <3>2. P(i) > P(j) \/ P(j) > P(i) \/ P(i) = P(j)
      BY <3>1
    <3>. QED BY <3>1, <3>2
  <2>2. \A i, j, k \in {1, 2, 3} : Beats(i, j) /\ Beats(j, k) => Beats(i, k)
    <3>. SUFFICES ASSUME NEW i \in {1, 2, 3}, NEW j \in {1, 2, 3}, NEW k \in {1, 2, 3}, Beats(i, j), Beats(j, k)
                  PROVE  Beats(i, k)
      OBVIOUS
    <3>1. P(i) \in Nat /\ P(j) \in Nat /\ P(k) \in Nat
      BY <1>3
    <3>. HIDE DEF P
    <3>2. P(i) > P(j) \/ (o[i].source = o[j].source /\ P(i) = P(j) /\ i <= j)
      BY DEF P
    <3>3. P(j) > P(k) \/ (o[j].source = o[k].source /\ P(j) = P(k) /\ j <= k)
      BY DEF P
    <3>. QED BY <3>1, <3>2, <3>3
  <2>3. real \subseteq {1, 2, 3}
    BY <1>1
  <2>. HIDE DEF Beats, real
  <2>4. \E i \in real : \A j \in real : Beats(i, j)
    BY <1>5, <2>1, <2>2, <2>3
  <2>. QED BY <2>4 DEF Beats
<1>6. real \subseteq {1, 2, 3} /\ \A i \in real : o[i].email # Nobody
  BY <1>1
<1>. HIDE DEF real, Wins
<1>7. CASE real = {}
  BY <1>4, <1>7 DEF o
<1>8. CASE real # {}
  <2>1. PICK i \in real : Best(o) = o[i]
    BY <1>4, <1>5, <1>8
  <2>. QED BY <2>1, <1>2, <1>6 DEF o
<1>. QED BY <1>7, <1>8

LEMMA LeastIndex ==
  ASSUME NEW T \in SUBSET Nat, T # {}
  PROVE  \E x \in T : \A y \in T : x <= y
<1>. DEFINE R == OpToRel(<, Nat)
<1>1. \E x \in T : \A y \in T : ~(<<y, x>> \in R)
  <2>1. IsWellFoundedOn(R, Nat)
    BY NatLessThanWellFounded
  <2>. HIDE DEF R
  <2>. QED BY <2>1, WFMin
<1>2. \A x, y \in Nat : <<y, x>> \in R <=> y < x
  BY DEF OpToRel
<1>. HIDE DEF R
<1>3. PICK x \in T : \A y \in T : ~(<<y, x>> \in R)
  BY <1>1
<1>4. \A y \in T : ~(y < x)
  BY <1>2, <1>3
<1>. QED BY <1>3, <1>4

\* regexEmails[0] is an address some message of those read names, or undefined.
LEMMA FirstNamedIsSaid ==
  ASSUME NEW q, q.upTo \in Nat, FirstNamed(q) # Nobody
  PROVE  \E i \in 1..q.upTo : said[i] = FirstNamed(q)
<1>. DEFINE T == { i \in 1..q.upTo : said[i] # Nobody }
<1>1. Named(q) # {}
  BY DEF FirstNamed
<1>2. T # {} /\ T \in SUBSET Nat
  BY <1>1 DEF Named
<1>3. PICK i \in T : \A j \in T : i <= j
  BY <1>2, LeastIndex
<1>4. i \in 1..q.upTo /\ said[i] # Nobody /\ \A j \in 1..(i - 1) : said[j] = Nobody
  BY <1>3
<1>5. \E k \in 1..q.upTo : FirstNamed(q) = said[k]
  BY <1>1, <1>4 DEF FirstNamed
<1>. QED BY <1>5

\* Message i of m names e; when that is to count as certain, a later one names nobody.
Backed(m, e, certain) ==
  \E i \in 1..Len(m) : m[i] = e /\ (certain => \E j \in 1..Len(m) : i < j /\ m[j] = Nobody)

\* What an address of this source says after the messages m.
Founded(m, e, src) ==
  e # Nobody => src # "none" /\ (e = Customer \/ Backed(m, e, src # "messageRegex"))

\* What a lookup has read, and what it concludes.
Knows(m, q) ==
  /\ q.stage \in {"fetches", "finds"} => Founded(m, q.email, q.source) /\ q.upTo <= Len(m)
  /\ q.stage = "finds" => Founded(m, q.profile, "slackProfile")
  /\ q.stage \in {"persists", "demoted", "done"} /\ q.session # Nobody /\ q.how # "manual" /\ q.who # Customer
     => Backed(m, q.who, ~q.fuzzy)

\* A lookup that has not ended began when nothing was attached, or before it was.
Early(q, count, kept) ==
  /\ q.stage # "done" => q.how # "manual"
  /\ q.stage \notin {"none", "done"} => q.since <= count /\ (kept => q.since < count)

Operated(q) ==
  q.stage \in {"none", "persists", "demoted", "done"} /\ (q.stage \in {"persists", "demoted"} => q.how = "manual")

\* A request that tries again finds the row.
Tried(row, r) == r.stage \in {"begun", "found"} /\ r.try > 1 => row[r.session].exists /\ (r.stage = "found" => r.seen)

Begun(r) == r.stage \in {"begun", "found"} => r.session \in Session

EvidenceInv ==
  /\ EvidenceTypeOK /\ Founded(said, email, source) /\ OnePrimary
  /\ \A t \in Lookup : Knows(said, tasks[t]) /\ Early(tasks[t], attached, ManualPrimaries # {})
  /\ \A t \in Attachment : Operated(tasks[t])
  /\ \A t \in Task : tasks[t].stage \in {"persists", "demoted"} => tasks[t].session \in Session

RetriesFind ==
  /\ EvidenceTypeOK
  /\ \A r \in Request : Begun(requests[r]) /\ (MaxTries > 1 => Tried(rows, requests[r]))
  /\ MaxTries > 1 => FlushesConverge

LEMMA EvidenceFacts ==
  /\ Customer \in Identified /\ Nobody \in Identified /\ Nobody \notin Session
  /\ Customer # Nobody /\ Lookup \cap Attachment = {} /\ Task = Lookup \cup Attachment
BY EvidenceAssumption DEF Identified, Task

LEMMA NoTaskType == NoTask \in TaskType /\ NoTask.stage = "none" /\ NoTask.how = "none" /\ NoTask.since = 0
BY EvidenceFacts, SourceNames, HowNames DEF NoTask, TaskType

LEMMA StaysBacked ==
  ASSUME NEW m \in Seq(Identified), NEW who \in Identified, NEW e, NEW certain, Backed(m, e, certain)
  PROVE  Backed(Append(m, who), e, certain)
<1>. DEFINE n == Append(m, who)
<1>1. Len(n) = Len(m) + 1 /\ Len(m) \in Nat /\ \A i \in 1..Len(m) : n[i] = m[i]
  OBVIOUS
<1>. HIDE DEF n
<1>2. PICK i \in 1..Len(m) : m[i] = e /\ (certain => \E j \in 1..Len(m) : i < j /\ m[j] = Nobody)
  BY DEF Backed
<1>3. i \in 1..Len(n) /\ n[i] = e
  BY <1>1, <1>2
<1>4. certain => \E j \in 1..Len(n) : i < j /\ n[j] = Nobody
  BY <1>1, <1>2
<1>5. Backed(n, e, certain)
  BY <1>3, <1>4 DEF Backed
<1>. QED BY <1>5 DEF n

LEMMA StaysKnown ==
  ASSUME NEW m \in Seq(Identified), NEW who \in Identified, NEW q \in TaskType, Knows(m, q)
  PROVE  Knows(Append(m, who), q)
<1>1. Len(Append(m, who)) = Len(m) + 1 /\ Len(m) \in Nat
  OBVIOUS
<1>2. \A e, c : Backed(m, e, c) => Backed(Append(m, who), e, c)
  BY StaysBacked
<1>3. \A e, src : Founded(m, e, src) => Founded(Append(m, who), e, src)
  BY <1>2 DEF Founded
<1>4. q.upTo \in Nat
  BY DEF TaskType
<1>. QED BY <1>1, <1>2, <1>3, <1>4 DEF Knows

\* What Done leaves of a task.
LEMMA DoneMoves ==
  ASSUME EvidenceTypeOK, NEW t \in Task, NEW s \in Session \cup {Nobody}, NEW how \in Hows, NEW fuzzy \in BOOLEAN,
         Done(t, s, how, fuzzy)
  PROVE  \E n \in TaskType : /\ tasks' = [tasks EXCEPT ![t] = n]
                             /\ n.stage = "done" /\ n.session = s /\ n.how = how /\ n.fuzzy = fuzzy
                             /\ n.who = tasks[t].who
<1>1. PICK w \in Identified : w = tasks[t].who
  BY DEF EvidenceTypeOK, TaskType
<1>. DEFINE n == [NoTask EXCEPT !.stage = "done", !.session = s, !.how = how, !.fuzzy = fuzzy,
                                !.who = w, !.since = attached]
<1>2. tasks' = [tasks EXCEPT ![t] = n]
  BY <1>1 DEF Done
<1>3. n \in TaskType /\ n.stage = "done" /\ n.session = s /\ n.how = how /\ n.fuzzy = fuzzy /\ n.who = w
  BY NoTaskType DEF EvidenceTypeOK, TaskType
<1>. QED BY <1>1, <1>2, <1>3

Ended(t, s, how) ==
  \E n \in TaskType : tasks' = [tasks EXCEPT ![t] = n] /\ n.stage = "done" /\ n.session = s /\ n.how = how

LEMMA EndsMoves ==
  ASSUME EvidenceTypeOK, NEW t \in Task, NEW s \in Session \cup {Nobody}, NEW how \in Hows, Done(t, s, how, FALSE)
  PROVE  Ended(t, s, how)
<1>1. PICK w \in Identified : w = tasks[t].who
  BY DEF EvidenceTypeOK, TaskType
<1>. DEFINE n == [NoTask EXCEPT !.stage = "done", !.session = s, !.how = how, !.fuzzy = FALSE,
                                !.who = w, !.since = attached]
<1>2. tasks' = [tasks EXCEPT ![t] = n]
  BY <1>1 DEF Done
<1>3. n \in TaskType /\ n.stage = "done" /\ n.session = s /\ n.how = how
  BY NoTaskType DEF EvidenceTypeOK, TaskType
<1>. QED BY <1>2, <1>3 DEF Ended

\* A step of one task that touches neither the matches nor the messages keeps the invariant.
LEMMA TaskKeeps ==
  ASSUME EvidenceInv, NEW t \in Task, NEW n \in TaskType, tasks' = [tasks EXCEPT ![t] = n],
         rows' = rows, requests' = requests, said' = said, matches' = matches, attached' = attached,
         email' \in Identified, source' \in Sources, Founded(said, email', source'),
         t \in Lookup => Knows(said, n) /\ Early(n, attached, ManualPrimaries # {}),
         t \in Attachment => Operated(n),
         n.stage \in {"persists", "demoted"} => n.session \in Session
  PROVE  EvidenceInv'
<1>. USE DEF EvidenceInv
<1>1. tasks \in [Task -> TaskType] /\ t \in Task
  BY EvidenceFacts DEF EvidenceTypeOK
<1>2. tasks' \in [Task -> TaskType] /\ tasks'[t] = n /\ \A u \in Task : u # t => tasks'[u] = tasks[u]
  BY <1>1
<1>3. EvidenceTypeOK'
  BY <1>2 DEF EvidenceTypeOK
<1>4. ManualPrimaries' = ManualPrimaries /\ (OnePrimary => OnePrimary')
  BY DEF ManualPrimaries, OnePrimary
<1>5. \A u \in Lookup : Knows(said', tasks'[u]) /\ Early(tasks'[u], attached', ManualPrimaries # {})
  BY <1>2, EvidenceFacts
<1>6. \A u \in Attachment : Operated(tasks'[u])
  BY <1>2, EvidenceFacts
<1>7. \A u \in Task : tasks'[u].stage \in {"persists", "demoted"} => tasks'[u].session \in Session
  BY <1>2
<1>8. Founded(said', email', source')
  OBVIOUS
<1>. QED BY <1>3, <1>4, <1>5, <1>6, <1>7, <1>8

LEMMA LookupKeeps ==
  ASSUME EvidenceInv, NEW t \in Lookup, NEW n \in TaskType, tasks' = [tasks EXCEPT ![t] = n],
         rows' = rows, requests' = requests, said' = said, matches' = matches, attached' = attached,
         email' \in Identified, source' \in Sources, Founded(said, email', source'),
         Knows(said, n), Early(n, attached, ManualPrimaries # {}),
         n.stage \in {"persists", "demoted"} => n.session \in Session
  PROVE  EvidenceInv'
<1>1. t \in Task /\ t \notin Attachment
  BY EvidenceFacts
<1>. QED BY <1>1, TaskKeeps

LEMMA LookupFacts ==
  ASSUME EvidenceInv, NEW t \in Lookup
  PROVE  /\ t \in Task /\ tasks \in [Task -> TaskType] /\ tasks[t] \in TaskType
         /\ Knows(said, tasks[t]) /\ Early(tasks[t], attached, ManualPrimaries # {})
         /\ attached \in Nat /\ said \in Seq(Identified) /\ Len(said) \in Nat
BY EvidenceFacts DEF EvidenceInv, EvidenceTypeOK

LEMMA LooksUpKeeps == ASSUME EvidenceInv, NEW t \in Lookup, LooksUp(t) PROVE EvidenceInv'
<1>. USE LookupFacts DEF ingestVars
<1>1. /\ rows' = rows /\ requests' = requests /\ said' = said /\ matches' = matches /\ attached' = attached
      /\ email' \in Identified /\ source' \in Sources /\ Founded(said, email', source')
  BY DEF LooksUp, EvidenceInv, EvidenceTypeOK
<1>2. CASE HasManual
  <2>1. PICK s \in ManualPrimaries : Done(t, s, "manual", FALSE)
    BY <1>2 DEF LooksUp
  <2>2. s \in Session \cup {Nobody} /\ "manual" \in Hows /\ EvidenceTypeOK /\ t \in Task
    BY HowNames DEF ManualPrimaries, EvidenceInv
  <2>4. PICK n \in TaskType : tasks' = [tasks EXCEPT ![t] = n] /\ n.stage = "done" /\ n.session = s /\ n.how = "manual"
    <3>1. Ended(t, s, "manual")
      BY <2>1, <2>2, EndsMoves
    <3>. QED BY <3>1 DEF Ended
  <2>5. Knows(said, n) /\ Early(n, attached, ManualPrimaries # {})
    BY <2>4 DEF Knows, Early
  <2>. QED BY <1>1, <2>4, <2>5, LookupKeeps
<1>3. CASE ~HasManual
  <2>1. PICK q \in TaskType : q = tasks[t]
    OBVIOUS
  <2>. DEFINE n == [q EXCEPT !.stage = "reads", !.since = attached]
  <2>2. tasks' = [tasks EXCEPT ![t] = n]
    BY <1>3, <2>1 DEF LooksUp
  <2>3. n \in TaskType /\ n.stage = "reads" /\ n.since = attached /\ n.how = q.how
    BY DEF TaskType
  <2>4. q.how # "manual" /\ ManualPrimaries = {}
    BY <1>3, <2>1 DEF LooksUp, HasManual, Early
  <2>. HIDE DEF n
  <2>5. Knows(said, n) /\ Early(n, attached, ManualPrimaries # {})
    BY <2>3, <2>4 DEF Knows, Early
  <2>. QED BY <1>1, <2>2, <2>3, <2>5, LookupKeeps
<1>. QED BY <1>2, <1>3

LEMMA ReadsKeeps == ASSUME EvidenceInv, NEW t \in Lookup, ReadsConversation(t) PROVE EvidenceInv'
<1>. USE LookupFacts DEF ingestVars
<1>1. /\ rows' = rows /\ requests' = requests /\ said' = said /\ matches' = matches /\ attached' = attached
      /\ email' \in Identified /\ source' \in Sources /\ Founded(said, email', source')
      /\ email \in Identified /\ source \in Sources /\ Founded(said, email, source)
  BY DEF ReadsConversation, EvidenceInv, EvidenceTypeOK
<1>2. PICK q \in TaskType : q = tasks[t]
  OBVIOUS
<1>. DEFINE n == [q EXCEPT !.stage = "fetches", !.email = email, !.source = source, !.upTo = Len(said)]
<1>3. tasks' = [tasks EXCEPT ![t] = n]
  BY <1>2 DEF ReadsConversation
<1>4. /\ n \in TaskType /\ n.stage = "fetches" /\ n.email = email /\ n.source = source /\ n.upTo = Len(said)
      /\ n.how = q.how /\ n.since = q.since
  BY <1>1 DEF TaskType
<1>. HIDE DEF n
<1>5. Knows(said, n)
  BY <1>1, <1>4 DEF Knows
<1>6. Early(n, attached, ManualPrimaries # {})
  BY <1>2, <1>4 DEF Early, ReadsConversation
<1>. QED BY <1>1, <1>3, <1>4, <1>5, <1>6, LookupKeeps

\* The identity a lookup resolves is founded when what it compares is.
LEMMA ResolvedIsFounded ==
  ASSUME EvidenceTypeOK, NEW q \in TaskType, q.profile \in {Customer, Nobody},
         Founded(said, q.email, q.source), q.upTo <= Len(said)
  PROVE  /\ NextIdentity(q) \in Offer
         /\ Founded(said, NextIdentity(q).email, NextIdentity(q).source)
<1>. DEFINE a == Persisted(q)
            b == [email |-> q.profile, source |-> "slackProfile"]
            c == [email |-> FirstNamed(q), source |-> "messageRegex"]
<1>1. q.email \in Identified /\ q.source \in Sources /\ q.upTo \in Nat /\ said \in Seq(Identified) /\ Len(said) \in Nat
  BY DEF TaskType, EvidenceTypeOK
<1>2. a \in Offer /\ a.email = q.email /\ (q.source # "none" => a.source = q.source)
  BY <1>1, SourceNames DEF Persisted, Offer
<1>3. b \in Offer
  BY EvidenceFacts, SourceNames DEF Offer
<1>4. FirstNamed(q) # Nobody => \E i \in 1..Len(said) : said[i] = FirstNamed(q)
  BY <1>1, FirstNamedIsSaid
<1>5. FirstNamed(q) \in Identified
  BY <1>1, <1>4, EvidenceFacts
<1>6. c \in Offer
  BY <1>5, SourceNames DEF Offer
<1>7. Founded(said, a.email, a.source)
  BY <1>2 DEF Founded
<1>8. Founded(said, b.email, b.source)
  BY DEF Founded
<1>9. Founded(said, c.email, c.source)
  BY <1>4 DEF Founded, Backed
<1>10. NextIdentity(q) = Best(<<a, b, c>>)
  BY DEF NextIdentity
<1>. HIDE DEF a, b, c
<1>. DEFINE n == NextIdentity(q)
<1>11. n = [email |-> Nobody, source |-> "none"] \/ n \in {a, b, c}
  BY <1>2, <1>3, <1>6, <1>10, BestIsOffered
<1>12. CASE n = [email |-> Nobody, source |-> "none"]
  BY <1>12, EvidenceFacts, SourceNames DEF Offer, Founded
<1>13. CASE n \in {a, b, c}
  <2>1. CASE n = a
    BY <2>1, <1>2, <1>7
  <2>2. CASE n = b
    BY <2>2, <1>3, <1>8
  <2>3. CASE n = c
    BY <2>3, <1>6, <1>9
  <2>. QED BY <1>13, <2>1, <2>2, <2>3
<1>. QED BY <1>11, <1>12, <1>13

LEMMA ResolvesKeeps == ASSUME EvidenceInv, NEW t \in Lookup, ResolvesIdentity(t) PROVE EvidenceInv'
<1>. USE LookupFacts DEF ingestVars
<1>1. /\ rows' = rows /\ requests' = requests /\ said' = said /\ matches' = matches /\ attached' = attached
      /\ EvidenceTypeOK /\ email \in Identified /\ source \in Sources /\ Founded(said, email, source)
  BY DEF ResolvesIdentity, EvidenceInv, EvidenceTypeOK
<1>2. PICK q \in TaskType : q = tasks[t]
  OBVIOUS
<1>3. q.stage = "fetches" /\ Founded(said, q.email, q.source) /\ q.upTo <= Len(said)
  BY <1>2 DEF ResolvesIdentity, Knows
<1>. DEFINE asked(p) == [q EXCEPT !.profile = p]
            next(p) == NextIdentity(asked(p))
            src(p) == IF next(p).email # Nobody THEN next(p).source ELSE q.source
            new(p) == [q EXCEPT !.stage = IF next(p).email = Nobody THEN "clears" ELSE "finds",
                                !.email = next(p).email, !.source = next(p).source,
                                !.profile = IF next(p).source = "slackProfile" THEN next(p).email ELSE p]
<1>4. PICK p \in {Customer, Nobody} :
        /\ IF next(p).email # q.email \/ src(p) # q.source
           THEN email' = next(p).email /\ source' = src(p)
           ELSE UNCHANGED <<email, source>>
        /\ tasks' = [tasks EXCEPT ![t] = new(p)]
  <2>1. PICK p \in IF AsksSlack(tasks[t]) THEN {Customer, Nobody} ELSE {Nobody} :
          LET d == NextIdentity([tasks[t] EXCEPT !.profile = p])
              dSource == IF d.email # Nobody THEN d.source ELSE tasks[t].source IN
          /\ IF d.email # tasks[t].email \/ dSource # tasks[t].source
             THEN email' = d.email /\ source' = dSource
             ELSE UNCHANGED <<email, source>>
          /\ tasks' = [tasks EXCEPT ![t].stage = IF d.email = Nobody THEN "clears" ELSE "finds",
                                    ![t].email = d.email, ![t].source = d.source,
                                    ![t].profile = IF d.source = "slackProfile" THEN d.email ELSE p]
    BY DEF ResolvesIdentity
  <2>2. p \in {Customer, Nobody}
    OBVIOUS
  <2>3. /\ IF next(p).email # q.email \/ src(p) # q.source
           THEN email' = next(p).email /\ source' = src(p)
           ELSE UNCHANGED <<email, source>>
    BY <1>2, <2>1
  <2>4. tasks' = [tasks EXCEPT ![t] = new(p)]
    BY <1>2, <2>1
  <2>. QED BY <2>2, <2>3, <2>4
<1>5. PICK o \in TaskType : o = asked(p)
  BY EvidenceFacts DEF TaskType
<1>6. o.profile = p /\ o.email = q.email /\ o.source = q.source /\ o.upTo = q.upTo
  BY <1>5 DEF TaskType
<1>7. NextIdentity(o) \in Offer /\ Founded(said, NextIdentity(o).email, NextIdentity(o).source)
  BY <1>1, <1>3, <1>6, ResolvedIsFounded
<1>8. PICK x \in Offer : x = next(p) /\ Founded(said, x.email, x.source)
  BY <1>5, <1>7
<1>9. x.email \in Identified /\ x.source \in Sources
  BY DEF Offer
<1>. DEFINE n == [q EXCEPT !.stage = IF x.email = Nobody THEN "clears" ELSE "finds",
                           !.email = x.email, !.source = x.source,
                           !.profile = IF x.source = "slackProfile" THEN x.email ELSE p]
<1>10. tasks' = [tasks EXCEPT ![t] = n]
  BY <1>4, <1>8
<1>11. /\ n \in TaskType /\ n.stage = (IF x.email = Nobody THEN "clears" ELSE "finds")
       /\ n.email = x.email /\ n.source = x.source /\ n.how = q.how /\ n.since = q.since /\ n.upTo = q.upTo
       /\ n.profile = IF x.source = "slackProfile" THEN x.email ELSE p
  BY <1>9, EvidenceFacts DEF TaskType
<1>12. email' \in Identified /\ source' \in Sources /\ Founded(said, email', source')
  <2>1. q.source \in Sources
    BY DEF TaskType
  <2>2. CASE email' = email /\ source' = source
    BY <2>2, <1>1
  <2>3. CASE email' = x.email /\ source' = src(p)
    BY <2>1, <2>3, <1>8, <1>9 DEF Founded
  <2>. QED BY <1>4, <1>8, <2>2, <2>3
<1>. HIDE DEF n, new, next, src, asked
<1>13. Founded(said, n.profile, "slackProfile")
  <2>1. CASE x.source = "slackProfile"
    BY <2>1, <1>8, <1>11
  <2>2. CASE x.source # "slackProfile"
    BY <2>2, <1>11 DEF Founded
  <2>. QED BY <2>1, <2>2
<1>14. Knows(said, n)
  BY <1>3, <1>8, <1>11, <1>13 DEF Knows
<1>15. Early(n, attached, ManualPrimaries # {})
  BY <1>2, <1>3, <1>11 DEF Early
<1>. QED BY <1>1, <1>10, <1>11, <1>12, <1>14, <1>15, LookupKeeps

LEMMA SlackFailsKeeps == ASSUME EvidenceInv, NEW t \in Lookup, SlackFails(t) PROVE EvidenceInv'
<1>. USE LookupFacts DEF ingestVars
<1>1. /\ rows' = rows /\ requests' = requests /\ said' = said /\ matches' = matches /\ attached' = attached
      /\ email' \in Identified /\ source' \in Sources /\ Founded(said, email', source')
  BY DEF SlackFails, EvidenceInv, EvidenceTypeOK
<1>2. Ended(t, Nobody, "none")
  BY EndsMoves, EvidenceFacts, HowNames DEF SlackFails, EvidenceInv
<1>3. PICK n \in TaskType : tasks' = [tasks EXCEPT ![t] = n] /\ n.stage = "done" /\ n.session = Nobody
  BY <1>2 DEF Ended
<1>4. Knows(said, n) /\ Early(n, attached, ManualPrimaries # {})
  BY <1>3 DEF Knows, Early
<1>. QED BY <1>1, <1>3, <1>4, LookupKeeps

\* What is said of a match is founded: resolveBaseMatch.
LEMMA MatchIsFounded ==
  ASSUME EvidenceTypeOK, NEW q \in TaskType, NEW who \in Identified, Knows(said, q), q.stage = "finds"
  PROVE  /\ MatchSource(q, who) \in Hows /\ MatchSource(q, who) # "manual"
         /\ MatchSource(q, who) # "none" /\ who # Customer
            => Backed(said, who, MatchSource(q, who) # "messageRegexEmail")
<1>1. q.upTo \in Nat /\ Len(said) \in Nat /\ q.upTo <= Len(said)
  BY DEF TaskType, EvidenceTypeOK, Knows
<1>2. Founded(said, q.email, q.source) /\ Founded(said, q.profile, "slackProfile")
  BY DEF Knows
<1>. DEFINE k == MatchSource(q, who)
<1>3. k \in Hows /\ k # "manual"
  BY HowNames DEF MatchSource
<1>4. \A e, c : Backed(said, e, TRUE) => Backed(said, e, c)
  BY DEF Backed
<1>5. k = "conversationEmail" => who = q.email /\ who # Nobody /\ q.source # "messageRegex"
  BY DEF MatchSource
<1>6. k = "slackProfileEmail" => who = q.profile /\ who # Nobody
  BY DEF MatchSource
<1>7. k = "messageRegexEmail" => who # Nobody /\ (who \in Named(q) \/ who = q.email)
  BY DEF MatchSource
<1>8. who \in Named(q) => Backed(said, who, FALSE)
  BY <1>1 DEF Named, Backed
<1>9. \A e, c : Backed(said, e, c) => Backed(said, e, FALSE)
  BY DEF Backed
<1>. HIDE DEF k
<1>10. ASSUME who # Customer, k = "conversationEmail" PROVE Backed(said, who, TRUE)
  BY <1>2, <1>5, <1>10 DEF Founded
<1>11. ASSUME who # Customer, k = "slackProfileEmail" PROVE Backed(said, who, TRUE)
  BY <1>2, <1>6, <1>11 DEF Founded
<1>12. ASSUME who # Customer, k = "messageRegexEmail" PROVE Backed(said, who, FALSE)
  BY <1>2, <1>7, <1>8, <1>9, <1>12 DEF Founded
<1>13. ASSUME k # "none", who # Customer PROVE Backed(said, who, k # "messageRegexEmail")
  BY <1>3, <1>4, <1>10, <1>11, <1>12, <1>13, HowNames
<1>. QED BY <1>3, <1>13 DEF k

LEMMA FindsKeeps == ASSUME EvidenceInv, NEW t \in Lookup, FindsSessions(t) PROVE EvidenceInv'
<1>. USE LookupFacts DEF ingestVars
<1>1. /\ rows' = rows /\ requests' = requests /\ said' = said /\ matches' = matches /\ attached' = attached
      /\ email' \in Identified /\ source' \in Sources /\ Founded(said, email', source')
      /\ EvidenceTypeOK
  BY DEF FindsSessions, EvidenceInv, EvidenceTypeOK
<1>2. PICK q \in TaskType : q = tasks[t]
  OBVIOUS
<1>3. q.stage = "finds" /\ Knows(said, q) /\ Early(q, attached, ManualPrimaries # {})
  BY <1>2 DEF FindsSessions
<1>4. PICK near \in SUBSET { s \in Session : rows[s].exists } :
        LET how == [s \in near |-> MatchSource(tasks[t], rows[s].user)]
            candidates == { s \in near : how[s] # "none" }
            first == Ranked(candidates, how) IN
        \/ candidates = {} /\ tasks' = [tasks EXCEPT ![t].stage = "clears"]
        \/ \E s \in first, tie \in IF Cardinality(first) > 1 THEN BOOLEAN ELSE {FALSE} :
             tasks' = [tasks EXCEPT ![t] = [NoTask EXCEPT
               !.stage = "persists", !.session = s, !.how = how[s], !.who = rows[s].user,
               !.fuzzy = tie \/ how[s] = "messageRegexEmail", !.since = tasks[t].since]]
  BY DEF FindsSessions
<1>. DEFINE how == [s \in near |-> MatchSource(tasks[t], rows[s].user)]
            candidates == { s \in near : how[s] # "none" }
            first == Ranked(candidates, how)
<1>5. CASE tasks' = [tasks EXCEPT ![t].stage = "clears"]
  <2>. DEFINE n == [q EXCEPT !.stage = "clears"]
  <2>1. n \in TaskType /\ n.stage = "clears" /\ n.how = q.how /\ n.since = q.since
    BY DEF TaskType
  <2>2. tasks' = [tasks EXCEPT ![t] = n]
    BY <1>2, <1>5
  <2>. HIDE DEF n
  <2>3. Knows(said, n) /\ Early(n, attached, ManualPrimaries # {})
    BY <1>3, <2>1 DEF Knows, Early
  <2>. QED BY <1>1, <2>1, <2>2, <2>3, LookupKeeps
<1>6. ASSUME NEW s \in first, NEW tie \in BOOLEAN,
             tasks' = [tasks EXCEPT ![t] = [NoTask EXCEPT
               !.stage = "persists", !.session = s, !.how = how[s], !.who = rows[s].user,
               !.fuzzy = tie \/ how[s] = "messageRegexEmail", !.since = tasks[t].since]]
      PROVE  EvidenceInv'
  <2>1. s \in near /\ s \in Session /\ how[s] # "none"
    BY DEF Ranked
  <2>2. PICK who \in Identified : who = rows[s].user
    BY <1>1, <2>1 DEF EvidenceTypeOK, RowType
  <2>3. how[s] = MatchSource(q, who)
    BY <1>2, <2>1, <2>2
  <2>4. PICK k \in Hows : k = how[s] /\ k # "manual" /\ (who # Customer => Backed(said, who, k # "messageRegexEmail"))
    BY <1>1, <1>3, <2>1, <2>3, MatchIsFounded
  <2>5. PICK fuzzy \in BOOLEAN : fuzzy <=> (tie \/ k = "messageRegexEmail")
    OBVIOUS
  <2>. DEFINE n == [NoTask EXCEPT !.stage = "persists", !.session = s, !.how = k, !.who = who,
                                  !.fuzzy = fuzzy, !.since = q.since]
  <2>6. tasks' = [tasks EXCEPT ![t] = n]
    <3>1. (tie \/ how[s] = "messageRegexEmail") = fuzzy
      BY <2>4, <2>5
    <3>. QED BY ONLY <1>2, <1>6, <2>2, <2>4, <3>1
  <2>7. /\ n \in TaskType /\ n.stage = "persists" /\ n.how = k /\ n.since = q.since /\ n.session = s
        /\ n.who = who /\ (n.fuzzy <=> fuzzy)
    BY <2>1, NoTaskType DEF TaskType
  <2>. HIDE DEF n
  <2>8. who # Customer => Backed(said, who, ~fuzzy)
    BY <2>4, <2>5 DEF Backed
  <2>9. Knows(said, n)
    <3>1. n.who # Customer => Backed(said, n.who, ~n.fuzzy)
      BY <2>7, <2>8 DEF Backed
    <3>. QED BY <2>7, <3>1 DEF Knows
  <2>10. Early(n, attached, ManualPrimaries # {})
    BY <1>3, <2>4, <2>7 DEF Early
  <2>. QED BY <1>1, <2>1, <2>6, <2>7, <2>9, <2>10, LookupKeeps
<1>. QED BY <1>4, <1>5, <1>6

LEMMA AttachesKeeps == ASSUME EvidenceInv, NEW t \in Attachment, Attaches(t) PROVE EvidenceInv'
<1>1. /\ rows' = rows /\ requests' = requests /\ said' = said /\ matches' = matches /\ attached' = attached
      /\ email' \in Identified /\ source' \in Sources /\ Founded(said, email', source')
  BY DEF Attaches, EvidenceInv, EvidenceTypeOK, ingestVars
<1>2. PICK s \in Session : tasks' = [tasks EXCEPT ![t] = [NoTask EXCEPT !.stage = "persists", !.session = s, !.how = "manual"]]
  BY DEF Attaches
<1>. DEFINE n == [NoTask EXCEPT !.stage = "persists", !.session = s, !.how = "manual"]
<1>3. n \in TaskType /\ n.stage = "persists" /\ n.how = "manual" /\ n.session = s
  BY NoTaskType, HowNames DEF TaskType
<1>4. tasks' = [tasks EXCEPT ![t] = n]
  BY <1>2
<1>. HIDE DEF n
<1>5. Operated(n) /\ t \in Task /\ t \notin Lookup
  BY <1>3, EvidenceFacts DEF Operated
<1>. QED BY <1>1, <1>3, <1>4, <1>5, TaskKeeps

LEMMA TaskFacts ==
  ASSUME EvidenceInv, NEW t \in Task
  PROVE  /\ tasks \in [Task -> TaskType] /\ tasks[t] \in TaskType
         /\ t \in Lookup => Knows(said, tasks[t]) /\ Early(tasks[t], attached, ManualPrimaries # {})
         /\ t \in Attachment => Operated(tasks[t])
         /\ tasks[t].stage \in {"persists", "demoted"} => tasks[t].session \in Session
BY DEF EvidenceInv, EvidenceTypeOK

LEMMA DemotesKeeps == ASSUME EvidenceInv, NEW t \in Task, Demotes(t) PROVE EvidenceInv'
<1>. USE TaskFacts
<1>1. /\ rows' = rows /\ requests' = requests /\ said' = said /\ matches' = matches /\ attached' = attached
      /\ email' \in Identified /\ source' \in Sources /\ Founded(said, email', source')
      /\ matches \in [Session -> MatchType]
  BY DEF Demotes, EvidenceInv, EvidenceTypeOK, ingestVars
<1>2. PICK q \in TaskType : q = tasks[t]
  OBVIOUS
<1>3. q.stage = "persists" /\ q.session \in Session
  BY <1>2 DEF Demotes
<1>4. PICK b \in BOOLEAN : b = matches[q.session].made
  BY <1>1, <1>3 DEF MatchType
<1>. DEFINE n == [q EXCEPT !.stage = "demoted", !.primaries = { s \in Session : matches[s].primary }, !.made = b]
<1>5. tasks' = [tasks EXCEPT ![t] = n]
  BY <1>2, <1>4 DEF Demotes
<1>6. /\ n \in TaskType /\ n.stage = "demoted" /\ n.how = q.how /\ n.since = q.since /\ n.session = q.session
      /\ n.who = q.who /\ n.fuzzy = q.fuzzy
  BY DEF TaskType
<1>. HIDE DEF n
<1>7. t \in Lookup => Knows(said, n)
  BY <1>2, <1>3, <1>6 DEF Knows, Backed
<1>8. t \in Lookup => Early(n, attached, ManualPrimaries # {})
  BY <1>2, <1>3, <1>6 DEF Early
<1>9. t \in Attachment => Operated(n)
  BY <1>2, <1>3, <1>6 DEF Operated
<1>. QED BY <1>1, <1>3, <1>5, <1>6, <1>7, <1>8, <1>9, TaskKeeps

LEMMA ConflictsKeeps == ASSUME EvidenceInv, NEW t \in Task, PromotionConflicts(t) PROVE EvidenceInv'
<1>. USE TaskFacts
<1>1. /\ rows' = rows /\ requests' = requests /\ said' = said /\ matches' = matches /\ attached' = attached
      /\ email' \in Identified /\ source' \in Sources /\ Founded(said, email', source') /\ EvidenceTypeOK
  BY DEF PromotionConflicts, EvidenceInv, EvidenceTypeOK, ingestVars
<1>2. PICK q \in TaskType : q = tasks[t]
  OBVIOUS
<1>3. q.stage = "demoted" /\ q.session \in Session
  BY <1>2 DEF PromotionConflicts
<1>4. CASE q.try = 1
  <2>. DEFINE n == [q EXCEPT !.stage = "persists", !.primaries = {}, !.made = FALSE, !.try = 2]
  <2>1. tasks' = [tasks EXCEPT ![t] = n]
    BY <1>2, <1>4 DEF PromotionConflicts
  <2>2. /\ n \in TaskType /\ n.stage = "persists" /\ n.how = q.how /\ n.since = q.since /\ n.session = q.session
        /\ n.who = q.who /\ n.fuzzy = q.fuzzy
    <3>1. {} \in SUBSET Session /\ FALSE \in BOOLEAN /\ 2 \in 1..2
      OBVIOUS
    <3>2. n \in TaskType
      BY <3>1 DEF TaskType
    <3>. QED BY <3>2 DEF TaskType
  <2>. HIDE DEF n
  <2>3. t \in Lookup => Knows(said, n)
    BY <1>2, <1>3, <2>2 DEF Knows, Backed
  <2>4. t \in Lookup => Early(n, attached, ManualPrimaries # {})
    BY <1>2, <1>3, <2>2 DEF Early
  <2>5. t \in Attachment => Operated(n)
    BY <1>2, <1>3, <2>2 DEF Operated
  <2>. QED BY <1>1, <1>3, <2>1, <2>2, <2>3, <2>4, <2>5, TaskKeeps
<1>5. CASE q.try # 1
  <2>1. Ended(t, Nobody, "none")
    BY <1>1, <1>2, <1>5, EndsMoves, HowNames DEF PromotionConflicts
  <2>2. PICK n \in TaskType : tasks' = [tasks EXCEPT ![t] = n] /\ n.stage = "done" /\ n.session = Nobody
    BY <2>1 DEF Ended
  <2>3. Knows(said, n) /\ Early(n, attached, ManualPrimaries # {}) /\ Operated(n)
    BY <2>2 DEF Knows, Early, Operated
  <2>. QED BY <1>1, <2>2, <2>3, TaskKeeps
<1>. QED BY <1>4, <1>5

\* A task ends, and the matches change: only an attachment counted makes a manual match primary.
LEMMA EndingKeeps ==
  ASSUME EvidenceInv, NEW t \in Task, NEW n \in TaskType, tasks' = [tasks EXCEPT ![t] = n], n.stage = "done",
         rows' = rows, requests' = requests, said' = said, email' = email, source' = source,
         matches' \in [Session -> MatchType], OnePrimary',
         attached' \in Nat, attached <= attached',
         ManualPrimaries' # {} => ManualPrimaries # {} \/ attached < attached',
         t \in Lookup => Knows(said, n)
  PROVE  EvidenceInv'
<1>. USE DEF EvidenceInv
<1>1. tasks \in [Task -> TaskType] /\ attached \in Nat
  BY DEF EvidenceTypeOK
<1>2. tasks' \in [Task -> TaskType] /\ tasks'[t] = n /\ \A u \in Task : u # t => tasks'[u] = tasks[u]
  BY <1>1
<1>3. EvidenceTypeOK'
  BY <1>2 DEF EvidenceTypeOK
<1>4. ASSUME NEW u \in Lookup PROVE Knows(said', tasks'[u]) /\ Early(tasks'[u], attached', ManualPrimaries' # {})
  <2>1. CASE u = t
    BY <2>1, <1>2 DEF Early
  <2>2. CASE u # t
    <3>1. u \in Task /\ tasks'[u] = tasks[u] /\ Knows(said, tasks[u])
      BY <2>2, <1>2, EvidenceFacts
    <3>2. PICK q \in TaskType : q = tasks[u]
      BY <1>1, <3>1
    <3>3. Early(q, attached, ManualPrimaries # {}) /\ q.since \in Nat
      BY <3>2 DEF TaskType
    <3>4. Early(q, attached', ManualPrimaries' # {})
      <4>1. ASSUME q.stage \notin {"none", "done"}
            PROVE  q.since <= attached' /\ (ManualPrimaries' # {} => q.since < attached')
        <5>1. q.since <= attached /\ (ManualPrimaries # {} => q.since < attached)
          BY <3>3, <4>1 DEF Early
        <5>. QED BY <1>1, <3>3, <5>1
      <4>2. q.stage # "done" => q.how # "manual"
        BY <3>3 DEF Early
      <4>. QED BY <4>1, <4>2 DEF Early
    <3>. QED BY <3>1, <3>2, <3>4
  <2>. QED BY <2>1, <2>2
<1>5. \A u \in Attachment : Operated(tasks'[u])
  BY <1>2, EvidenceFacts DEF Operated
<1>6. \A u \in Task : tasks'[u].stage \in {"persists", "demoted"} => tasks'[u].session \in Session
  BY <1>2
<1>. QED BY <1>3, <1>4, <1>5, <1>6

LEMMA ClearsKeeps == ASSUME EvidenceInv, NEW t \in Lookup, Clears(t) PROVE EvidenceInv'
<1>1. /\ rows' = rows /\ requests' = requests /\ said' = said /\ email' = email /\ source' = source
      /\ attached' = attached /\ attached \in Nat /\ EvidenceTypeOK /\ t \in Task
  BY EvidenceFacts DEF Clears, EvidenceInv, EvidenceTypeOK, ingestVars
<1>2. matches' = [s \in Session |-> [matches[s] EXCEPT !.primary = FALSE]]
  BY DEF Clears
<1>3. ASSUME NEW s \in Session PROVE matches'[s] \in MatchType /\ ~matches'[s].primary
  <2>1. PICK m \in MatchType : m = matches[s]
    BY <1>1 DEF EvidenceTypeOK
  <2>2. matches'[s] = [m EXCEPT !.primary = FALSE]
    BY <1>2, <2>1
  <2>. QED BY <2>2 DEF MatchType
<1>4. matches' \in [Session -> MatchType]
  BY <1>2, <1>3
<1>5. OnePrimary' /\ ManualPrimaries' = {}
  BY <1>3 DEF OnePrimary, ManualPrimaries
<1>6. Ended(t, Nobody, "none")
  BY <1>1, EndsMoves, HowNames DEF Clears
<1>7. PICK n \in TaskType : tasks' = [tasks EXCEPT ![t] = n] /\ n.stage = "done" /\ n.session = Nobody
  BY <1>6 DEF Ended
<1>8. Knows(said, n) /\ attached <= attached'
  BY <1>1, <1>7 DEF Knows
<1>. QED BY <1>1, <1>4, <1>5, <1>7, <1>8, EndingKeeps

\* What a promotion leaves of the matches.
LEMMA PromotesMatches ==
  ASSUME EvidenceInv, NEW t \in Task, Promotes(t)
  PROVE  /\ matches' \in [Session -> MatchType] /\ tasks[t].session \in Session
         /\ \A s \in Session : matches'[s].primary => s = tasks[t].session
         /\ matches'[tasks[t].session].primary /\ matches'[tasks[t].session].how = tasks[t].how
<1>1. PICK q \in TaskType : q = tasks[t]
  BY TaskFacts
<1>2. q.stage = "demoted" /\ q.session \in Session /\ q.how \in Hows
  BY <1>1, TaskFacts DEF Promotes, TaskType
<1>3. matches' = [s \in Session |->
        IF s = q.session THEN [made |-> TRUE, how |-> q.how, primary |-> TRUE]
        ELSE [matches[s] EXCEPT !.primary = @ /\ s \notin q.primaries]]
  BY <1>1 DEF Promotes
<1>4. \A s \in Session \ (q.primaries \cup {q.session}) : ~matches[s].primary
  BY <1>1 DEF Promotes, TwoPrimaries
<1>5. /\ matches'[q.session] \in MatchType /\ matches'[q.session].primary /\ matches'[q.session].how = q.how
  BY <1>2, <1>3 DEF MatchType
<1>6. ASSUME NEW s \in Session, s # q.session PROVE matches'[s] \in MatchType /\ ~matches'[s].primary
  <2>1. PICK m \in MatchType : m = matches[s]
    BY DEF EvidenceInv, EvidenceTypeOK
  <2>2. PICK b \in BOOLEAN : b <=> (m.primary /\ s \notin q.primaries)
    OBVIOUS
  <2>3. ~b
    BY <1>4, <1>6, <2>1, <2>2
  <2>4. matches'[s] = [m EXCEPT !.primary = m.primary /\ s \notin q.primaries]
    BY <1>3, <1>6, <2>1
  <2>5. matches'[s] = [m EXCEPT !.primary = b]
    <3>1. (m.primary /\ s \notin q.primaries) = b
      BY <2>2
    <3>. QED BY ONLY <2>4, <3>1
  <2>. QED BY <2>3, <2>5 DEF MatchType
<1>7. matches' \in [Session -> MatchType]
  BY <1>3, <1>5, <1>6
<1>. QED BY <1>1, <1>2, <1>5, <1>6, <1>7

LEMMA PromotesTask ==
  ASSUME EvidenceInv, NEW t \in Task, Promotes(t)
  PROVE  \E n \in TaskType : /\ tasks' = [tasks EXCEPT ![t] = n]
                             /\ n.stage = "done" /\ n.session = tasks[t].session /\ n.how = tasks[t].how
                             /\ n.fuzzy = tasks[t].fuzzy /\ n.who = tasks[t].who
<1>1. PICK q \in TaskType : q = tasks[t]
  BY TaskFacts
<1>2. /\ q.session \in Session \cup {Nobody} /\ q.how \in Hows /\ q.fuzzy \in BOOLEAN
      /\ Done(t, q.session, q.how, q.fuzzy) /\ EvidenceTypeOK
  BY <1>1 DEF Promotes, TaskType, EvidenceInv
<1>3. \E n \in TaskType : /\ tasks' = [tasks EXCEPT ![t] = n]
                          /\ n.stage = "done" /\ n.session = q.session /\ n.how = q.how /\ n.fuzzy = q.fuzzy
                          /\ n.who = tasks[t].who
  BY <1>2, DoneMoves
<1>. QED BY <1>1, <1>3

LEMMA PromotesKeeps == ASSUME EvidenceInv, NEW t \in Task, Promotes(t) PROVE EvidenceInv'
<1>1. /\ rows' = rows /\ requests' = requests /\ said' = said /\ email' = email /\ source' = source
      /\ attached \in Nat /\ EvidenceTypeOK
      /\ attached' = attached + IF tasks[t].how = "manual" THEN 1 ELSE 0
  BY DEF Promotes, EvidenceInv, EvidenceTypeOK, ingestVars
<1>2. PICK q \in TaskType : q = tasks[t]
  BY TaskFacts
<1>3. q.stage = "demoted"
  BY <1>2 DEF Promotes
<1>4. /\ matches' \in [Session -> MatchType] /\ q.session \in Session
      /\ \A s \in Session : matches'[s].primary => s = q.session
      /\ matches'[q.session].primary /\ matches'[q.session].how = q.how
  BY <1>2, PromotesMatches
<1>5. OnePrimary'
  BY <1>4 DEF OnePrimary
<1>6. ManualPrimaries' # {} => q.how = "manual"
  BY <1>4 DEF ManualPrimaries
<1>7. attached' \in Nat /\ attached <= attached' /\ (ManualPrimaries' # {} => attached < attached')
  BY <1>1, <1>2, <1>6
<1>8. PICK n \in TaskType : /\ tasks' = [tasks EXCEPT ![t] = n]
                           /\ n.stage = "done" /\ n.session = q.session /\ n.how = q.how /\ n.fuzzy = q.fuzzy
                           /\ n.who = q.who
  BY <1>2, PromotesTask
<1>9. t \in Lookup => Knows(said, n)
  <2>1. t \in Lookup => Knows(said, q)
    BY <1>2, TaskFacts
  <2>. QED BY <1>3, <1>8, <2>1 DEF Knows, Backed
<1>. QED BY <1>1, <1>4, <1>5, <1>7, <1>8, <1>9, EndingKeeps

LEMMA SaysKeeps == ASSUME EvidenceInv, NEW who \in Person \cup {Nobody}, Says(who) PROVE EvidenceInv'
<1>. USE DEF EvidenceInv
<1>1. /\ rows' = rows /\ requests' = requests /\ matches' = matches /\ tasks' = tasks /\ attached' = attached
      /\ said \in Seq(Identified) /\ who \in Identified /\ said' = Append(said, who) /\ EvidenceTypeOK
  BY DEF Says, EvidenceTypeOK, Identified, ingestVars
<1>2. /\ email' = IF who # Nobody THEN who ELSE email
      /\ source' = IF who # Nobody THEN "messageRegex" ELSE "messagePayload"
  BY DEF Says
<1>3. EvidenceTypeOK'
  BY <1>1, <1>2, SourceNames DEF EvidenceTypeOK
<1>. DEFINE m == Append(said, who)
<1>4. Len(m) = Len(said) + 1 /\ Len(said) \in Nat /\ m[Len(said) + 1] = who /\ \A i \in 1..Len(said) : m[i] = said[i]
  BY <1>1
<1>. HIDE DEF m
<1>5. Founded(m, email', source')
  <2>1. CASE who # Nobody
    <3>1. Len(m) \in 1..Len(m) /\ m[Len(m)] = who
      BY <1>4
    <3>. QED BY <1>2, <2>1, <3>1 DEF Founded, Backed
  <2>2. CASE who = Nobody
    <3>. SUFFICES ASSUME email # Nobody, email # Customer PROVE Backed(m, email, TRUE)
      BY <1>2, <2>2 DEF Founded
    <3>1. PICK i \in 1..Len(said) : said[i] = email
      BY DEF Founded, Backed
    <3>2. i \in 1..Len(m) /\ m[i] = email /\ Len(m) \in 1..Len(m) /\ i < Len(m) /\ m[Len(m)] = Nobody
      BY <1>4, <2>2, <3>1
    <3>. QED BY <3>2 DEF Backed
  <2>. QED BY <2>1, <2>2
<1>6. \A t \in Lookup : Knows(m, tasks[t])
  <2>. SUFFICES ASSUME NEW t \in Lookup PROVE Knows(m, tasks[t])
    OBVIOUS
  <2>1. tasks[t] \in TaskType /\ Knows(said, tasks[t])
    BY LookupFacts
  <2>. QED BY <1>1, <2>1, StaysKnown DEF m
<1>7. ManualPrimaries' = ManualPrimaries /\ OnePrimary'
  BY <1>1 DEF ManualPrimaries, OnePrimary
<1>8. said' = m
  BY <1>1 DEF m
<1>. QED BY <1>1, <1>3, <1>5, <1>6, <1>7, <1>8

LEMMA NoRequestType == NoRequest \in RequestType
BY EvidenceFacts, EvidenceAssumption DEF NoRequest, RequestType

LEMMA RequestFacts ==
  ASSUME RetriesFind, NEW r \in Request
  PROVE  /\ requests \in [Request -> RequestType] /\ requests[r] \in RequestType /\ rows \in [Session -> RowType]
         /\ Begun(requests[r]) /\ (MaxTries > 1 => Tried(rows, requests[r]))
         /\ MaxTries > 1 => requests[r].stage # "refused"
BY DEF RetriesFind, EvidenceTypeOK, FlushesConverge

\* A step of one request, which never removes a row.
LEMMA RequestKeeps ==
  ASSUME RetriesFind, NEW r \in Request, NEW n \in RequestType, requests' = [requests EXCEPT ![r] = n],
         rows' \in [Session -> RowType], \A s \in Session : rows[s].exists => rows'[s].exists,
         UNCHANGED matchVars, Begun(n),
         MaxTries > 1 => Tried(rows', n) /\ n.stage # "refused"
  PROVE  RetriesFind' /\ (EvidenceInv => EvidenceInv')
<1>1. /\ email' = email /\ source' = source /\ said' = said /\ matches' = matches /\ tasks' = tasks
      /\ attached' = attached
  BY DEF matchVars
<1>2. requests \in [Request -> RequestType] /\ EvidenceTypeOK
  BY DEF RetriesFind, EvidenceTypeOK
<1>3. requests' \in [Request -> RequestType] /\ requests'[r] = n /\ \A o \in Request : o # r => requests'[o] = requests[o]
  BY <1>2
<1>4. EvidenceTypeOK'
  BY <1>1, <1>2, <1>3 DEF EvidenceTypeOK
<1>5. EvidenceInv => EvidenceInv'
  <2>1. ManualPrimaries' = ManualPrimaries /\ (OnePrimary => OnePrimary')
    BY <1>1 DEF ManualPrimaries, OnePrimary
  <2>. QED BY <1>1, <1>4, <2>1 DEF EvidenceInv
<1>6. ASSUME NEW o \in Request, o # r
      PROVE  Begun(requests'[o]) /\ (MaxTries > 1 => Tried(rows', requests'[o]) /\ requests'[o].stage # "refused")
  <2>1. requests'[o] = requests[o]
    BY <1>3, <1>6
  <2>2. PICK q \in RequestType : q = requests[o]
    BY <1>2
  <2>3. Begun(q) /\ (MaxTries > 1 => Tried(rows, q) /\ q.stage # "refused")
    BY <2>2, RequestFacts
  <2>4. MaxTries > 1 => Tried(rows', q)
    BY <2>3 DEF Tried, Begun
  <2>. QED BY <2>1, <2>2, <2>3, <2>4
<1>7. \A o \in Request : /\ Begun(requests'[o])
                         /\ MaxTries > 1 => Tried(rows', requests'[o]) /\ requests'[o].stage # "refused"
  BY <1>3, <1>6
<1>. QED BY <1>4, <1>5, <1>7 DEF RetriesFind, FlushesConverge

LEMMA AcceptsKeeps == ASSUME RetriesFind, NEW r \in Request, Accepts(r) PROVE RetriesFind' /\ (EvidenceInv => EvidenceInv')
<1>1. rows' = rows /\ UNCHANGED matchVars /\ rows \in [Session -> RowType]
  BY RequestFacts DEF Accepts
<1>2. PICK s \in Session, who \in Person \cup {Nobody}, p \in Bodies :
        requests' = [requests EXCEPT ![r] = [NoRequest EXCEPT
          !.stage = "begun", !.session = s, !.user = who, !.load = p.load, !.replay = p.replay]]
  BY DEF Accepts
<1>. DEFINE n == [NoRequest EXCEPT !.stage = "begun", !.session = s, !.user = who, !.load = p.load, !.replay = p.replay]
<1>3. n \in RequestType /\ n.stage = "begun" /\ n.session = s /\ n.try = 1
  <2>1. PICK z \in RequestType : z = NoRequest /\ z.try = 1
    BY NoRequestType DEF NoRequest
  <2>2. s \in Session \cup {Nobody} /\ who \in Identified /\ p.load \in 0..1 /\ p.replay \in BOOLEAN
    BY EvidenceAssumption DEF Identified
  <2>3. n = [z EXCEPT !.stage = "begun", !.session = s, !.user = who, !.load = p.load, !.replay = p.replay]
    BY <2>1
  <2>. QED BY <2>1, <2>2, <2>3 DEF RequestType
<1>4. requests' = [requests EXCEPT ![r] = n]
  BY <1>2
<1>. HIDE DEF n
<1>5. Begun(n) /\ Tried(rows', n) /\ n.stage # "refused"
  BY <1>3 DEF Begun, Tried
<1>. QED BY <1>1, <1>3, <1>4, <1>5, RequestKeeps

LEMMA FindsRowKeeps == ASSUME RetriesFind, NEW r \in Request, FindsRow(r) PROVE RetriesFind' /\ (EvidenceInv => EvidenceInv')
<1>1. rows' = rows /\ UNCHANGED matchVars /\ rows \in [Session -> RowType]
  BY RequestFacts DEF FindsRow
<1>2. PICK q \in RequestType : q = requests[r]
  BY RequestFacts
<1>3. q.stage = "begun" /\ q.session \in Session /\ (MaxTries > 1 => Tried(rows, q))
  BY <1>2, RequestFacts DEF FindsRow, Begun
<1>4. PICK b \in BOOLEAN : b = rows[q.session].exists
  BY <1>1, <1>3 DEF RowType
<1>. DEFINE n == [q EXCEPT !.stage = "found", !.seen = b]
<1>5. requests' = [requests EXCEPT ![r] = n]
  BY <1>2, <1>4 DEF FindsRow
<1>6. n \in RequestType /\ n.stage = "found" /\ n.session = q.session /\ n.try = q.try /\ n.seen = b
  BY DEF RequestType
<1>. HIDE DEF n
<1>7. Begun(n) /\ (MaxTries > 1 => Tried(rows', n) /\ n.stage # "refused")
  BY <1>1, <1>3, <1>4, <1>6 DEF Begun, Tried
<1>. QED BY <1>1, <1>5, <1>6, <1>7, RequestKeeps

LEMMA IsLostKeeps == ASSUME RetriesFind, NEW r \in Request, IsLost(r) PROVE RetriesFind' /\ (EvidenceInv => EvidenceInv')
<1>1. rows' = rows /\ UNCHANGED matchVars /\ rows \in [Session -> RowType]
  BY RequestFacts DEF IsLost
<1>2. PICK q \in RequestType : q = requests[r]
  BY RequestFacts
<1>. DEFINE n == [q EXCEPT !.stage = "lost"]
<1>3. requests' = [requests EXCEPT ![r] = n]
  BY <1>2 DEF IsLost
<1>4. n \in RequestType /\ n.stage = "lost"
  BY DEF RequestType
<1>. HIDE DEF n
<1>5. Begun(n) /\ Tried(rows', n) /\ n.stage # "refused"
  BY <1>4 DEF Begun, Tried
<1>. QED BY <1>1, <1>3, <1>4, <1>5, RequestKeeps

\* The row a transaction writes is one, and exists.
LEMMA FilledIsRow ==
  ASSUME NEW row \in RowType, NEW q \in RequestType, NEW r \in Request
  PROVE  Filled(Counted(row, q), q, r) \in RowType /\ Filled(Counted(row, q), q, r).exists
<1>1. PICK c \in RowType : c = Counted(row, q) /\ c.exists
  <2>1. PICK u \in Identified : u = IF q.user # Nobody THEN q.user ELSE row.user
    BY DEF RequestType, RowType
  <2>2. PICK k \in Nat : k = row.count + q.load
    BY DEF RequestType, RowType
  <2>3. PICK b \in BOOLEAN : b <=> (row.replay \/ q.replay)
    OBVIOUS
  <2>. DEFINE c == [row EXCEPT !.exists = TRUE, !.user = u, !.count = k, !.replay = b]
  <2>4. (row.replay \/ q.replay) = b
    BY <2>3
  <2>5. c = Counted(row, q)
    BY <2>1, <2>2, <2>4 DEF Counted
  <2>6. c \in RowType /\ c.exists
    BY DEF RowType
  <2>. QED BY <2>5, <2>6
<1>2. CASE IsFull(c, q)
  BY <1>1, <1>2 DEF Filled
<1>3. CASE ~IsFull(c, q)
  <2>1. PICK st \in SUBSET Request : st = IF q.load > 0 THEN c.stored \cup {r} ELSE c.stored
    BY DEF RowType
  <2>2. PICK k \in Nat : k = IF q.replay THEN c.chunks + 1 ELSE c.chunks
    BY DEF RowType
  <2>. DEFINE d == [c EXCEPT !.stored = st, !.chunks = k]
  <2>3. d = Filled(c, q, r)
    BY <1>3, <2>1, <2>2 DEF Filled
  <2>4. d \in RowType /\ d.exists
    BY <1>1 DEF RowType
  <2>. QED BY <1>1, <2>3, <2>4
<1>. QED BY <1>2, <1>3

LEMMA WritesRowKeeps == ASSUME RetriesFind, NEW r \in Request, WritesRow(r) PROVE RetriesFind' /\ (EvidenceInv => EvidenceInv')
<1>1. UNCHANGED matchVars /\ rows \in [Session -> RowType]
  BY RequestFacts DEF WritesRow
<1>2. PICK q \in RequestType : q = requests[r]
  BY RequestFacts
<1>3. q.stage = "found" /\ q.session \in Session /\ (MaxTries > 1 => Tried(rows, q))
  BY <1>2, RequestFacts DEF WritesRow, Begun
<1>4. CASE /\ rows' = [rows EXCEPT ![q.session] = Filled(Counted(@, q), q, r)]
           /\ requests' = [requests EXCEPT ![r].stage = "written"]
  <2>. DEFINE n == [q EXCEPT !.stage = "written"]
  <2>1. requests' = [requests EXCEPT ![r] = n]
    BY <1>2, <1>4
  <2>2. n \in RequestType /\ n.stage = "written"
    BY DEF RequestType
  <2>. HIDE DEF n
  <2>3. Begun(n) /\ Tried(rows', n) /\ n.stage # "refused"
    BY <2>2 DEF Begun, Tried
  <2>4. PICK row \in RowType : row = Filled(Counted(rows[q.session], q), q, r) /\ row.exists
    BY <1>1, <1>3, FilledIsRow
  <2>5. rows' = [rows EXCEPT ![q.session] = row]
    BY <1>4, <2>4
  <2>6. rows' \in [Session -> RowType] /\ \A s \in Session : rows[s].exists => rows'[s].exists
    BY <1>1, <2>4, <2>5
  <2>. QED BY <1>1, <2>1, <2>2, <2>3, <2>6, RequestKeeps
<1>5. CASE Conflicts(q) /\ q.try < MaxTries /\ requests' = [requests EXCEPT ![r] = Again(@)] /\ rows' = rows
  <2>1. q.try \in 1..MaxTries /\ MaxTries \in Nat
    BY EvidenceAssumption DEF RequestType
  <2>2. PICK k \in 1..MaxTries : k = q.try + 1
    BY <1>5, <2>1
  <2>. DEFINE n == [q EXCEPT !.stage = "begun", !.try = k]
  <2>3. requests' = [requests EXCEPT ![r] = n]
    BY <1>2, <1>5, <2>2 DEF Again
  <2>4. n \in RequestType /\ n.stage = "begun" /\ n.session = q.session
    BY DEF RequestType
  <2>. HIDE DEF n
  <2>5. Begun(n) /\ Tried(rows', n) /\ n.stage # "refused"
    BY <1>3, <1>5, <2>4 DEF Begun, Tried, Conflicts
  <2>. QED BY <1>1, <1>5, <2>3, <2>4, <2>5, RequestKeeps
<1>6. CASE Conflicts(q) /\ q.try = MaxTries /\ requests' = [requests EXCEPT ![r].stage = "refused"] /\ rows' = rows
  <2>. DEFINE n == [q EXCEPT !.stage = "refused"]
  <2>1. requests' = [requests EXCEPT ![r] = n]
    BY <1>2, <1>6
  <2>2. n \in RequestType /\ n.stage = "refused"
    BY DEF RequestType
  <2>. HIDE DEF n
  <2>3. ~(MaxTries > 1)
    BY <1>3, <1>6 DEF Tried, Conflicts
  <2>4. Begun(n)
    BY <2>2 DEF Begun
  <2>. QED BY <1>1, <1>6, <2>1, <2>2, <2>3, <2>4, RequestKeeps
<1>. QED BY <1>2, <1>4, <1>5, <1>6 DEF WritesRow

LEMMA EvidenceInvInit == EvidenceInit => EvidenceInv /\ RetriesFind
<1>. SUFFICES ASSUME EvidenceInit PROVE EvidenceInv /\ RetriesFind
  OBVIOUS
<1>1. /\ rows = [s \in Session |-> NoRow] /\ requests = [r \in Request |-> NoRequest] /\ tasks = [t \in Task |-> NoTask]
      /\ email = Nobody /\ source = "none" /\ said = << >> /\ attached = 0
      /\ matches = [s \in Session |-> [made |-> FALSE, how |-> "none", primary |-> FALSE]]
  BY DEF EvidenceInit
<1>2. NoRow \in RowType
  BY EvidenceFacts DEF NoRow, RowType
<1>3. [made |-> FALSE, how |-> "none", primary |-> FALSE] \in MatchType
  BY HowNames DEF MatchType
<1>4. EvidenceTypeOK
  BY <1>1, <1>2, <1>3, NoTaskType, NoRequestType, EvidenceFacts, SourceNames DEF EvidenceTypeOK
<1>5. \A s \in Session : ~matches[s].primary
  BY <1>1
<1>6. OnePrimary /\ Founded(said, email, source)
  BY <1>1, <1>5 DEF OnePrimary, Founded
<1>7. \A t \in Task : tasks[t] = NoTask
  BY <1>1
<1>8. Knows(said, NoTask) /\ Early(NoTask, attached, ManualPrimaries # {}) /\ Operated(NoTask)
  BY NoTaskType DEF Knows, Early, Operated
<1>9. EvidenceInv
  BY <1>4, <1>6, <1>7, <1>8, NoTaskType, EvidenceFacts DEF EvidenceInv
<1>10. \A r \in Request : requests[r] = NoRequest /\ requests[r].stage = "none"
  BY <1>1 DEF NoRequest
<1>11. RetriesFind
  BY <1>4, <1>10 DEF RetriesFind, Begun, Tried, FlushesConverge
<1>. QED BY <1>9, <1>11

\* What is not a request's step leaves rows and requests alone.
LEMMA MatchStep ==
  ASSUME EvidenceInv, RetriesFind,
         \/ \E who \in Person \cup {Nobody} : Says(who)
         \/ \E t \in Lookup : \/ LooksUp(t) \/ ReadsConversation(t) \/ ResolvesIdentity(t) \/ SlackFails(t)
                             \/ FindsSessions(t) \/ Clears(t)
         \/ \E t \in Attachment : Attaches(t)
         \/ \E t \in Task : Demotes(t) \/ Promotes(t) \/ PromotionConflicts(t)
  PROVE  EvidenceInv' /\ RetriesFind'
<1>1. rows' = rows /\ requests' = requests
  BY DEF Says, LooksUp, ReadsConversation, ResolvesIdentity, SlackFails, FindsSessions, Clears, Attaches, Demotes,
         Promotes, PromotionConflicts, ingestVars
<1>2. EvidenceInv'
  BY SaysKeeps, LooksUpKeeps, ReadsKeeps, ResolvesKeeps, SlackFailsKeeps, FindsKeeps, ClearsKeeps, AttachesKeeps,
     DemotesKeeps, PromotesKeeps, ConflictsKeeps
<1>3. RetriesFind'
  BY <1>1, <1>2 DEF RetriesFind, EvidenceInv, FlushesConverge, Tried
<1>. QED BY <1>2, <1>3

LEMMA EvidenceInvNext == EvidenceInv /\ RetriesFind /\ [EvidenceNext]_evidenceVars => EvidenceInv' /\ RetriesFind'
<1>. SUFFICES ASSUME EvidenceInv, RetriesFind, [EvidenceNext]_evidenceVars PROVE EvidenceInv' /\ RetriesFind'
  OBVIOUS
<1>1. CASE \E r \in Request : Accepts(r) \/ FindsRow(r) \/ WritesRow(r) \/ IsLost(r)
  BY <1>1, AcceptsKeeps, FindsRowKeeps, WritesRowKeeps, IsLostKeeps
<1>2. CASE UNCHANGED evidenceVars
  BY <1>2 DEF evidenceVars, EvidenceInv, RetriesFind, EvidenceTypeOK, OnePrimary, ManualPrimaries, FlushesConverge
<1>. QED BY <1>1, <1>2, MatchStep DEF EvidenceNext

LEMMA EvidenceInvariance == EvidenceSpec => [](EvidenceInv /\ RetriesFind)
BY EvidenceInvInit, EvidenceInvNext, PTL DEF EvidenceSpec

\* Session rows, requests, matches and lookups keep their types.
THEOREM EvidenceTypeCorrect == EvidenceSpec => []EvidenceTypeOK
<1>1. EvidenceInv => EvidenceTypeOK
  BY DEF EvidenceInv
<1>. QED BY <1>1, EvidenceInvariance, PTL

\* Two requests that create the same session never end in a refusal, for any number
\* of requests, once a transaction may be repeated (runIngestWithRetry: a request
\* that lost to another finds the other's row when it begins again, and rows stay).
THEOREM FlushesAlwaysConverge == ASSUME MaxTries > 1 PROVE EvidenceSpec => []FlushesConverge
<1>1. RetriesFind => FlushesConverge
  BY DEF RetriesFind
<1>. QED BY <1>1, EvidenceInvariance, PTL

\* Whatever lookups and attachments run together, a conversation has one primary
\* match at most: updateMany demotes what it saw, and the partial unique index
\* stops who did not see the other's row.
THEOREM OnePrimaryAlways == EvidenceSpec => []OnePrimary
<1>1. EvidenceInv => OnePrimary
  BY DEF EvidenceInv
<1>. QED BY <1>1, EvidenceInvariance, PTL

\* Somebody else's session is shown only if a message named that person, and as
\* certain only if a later message named nobody, for any number of messages, people,
\* lookups and sessions (Founded follows the address through what is stored, read,
\* resolved and matched).
THEOREM OthersAreAlwaysNamed == EvidenceSpec => []OthersAreNamed
<1>1. EvidenceInv => OthersAreNamed
  <2>. SUFFICES ASSUME EvidenceInv, NEW t \in Lookup,
                       tasks[t].stage = "done", tasks[t].session # Nobody,
                       tasks[t].how # "manual", tasks[t].who # Customer
                PROVE  \E i \in DOMAIN said :
                         /\ said[i] = tasks[t].who
                         /\ tasks[t].fuzzy \/ \E j \in DOMAIN said : i < j /\ said[j] = Nobody
    BY DEF OthersAreNamed
  <2>1. Backed(said, tasks[t].who, ~tasks[t].fuzzy)
    BY LookupFacts DEF Knows
  <2>2. DOMAIN said = 1..Len(said)
    BY LookupFacts
  <2>. QED BY <2>1, <2>2 DEF Backed
<1>. QED BY <1>1, EvidenceInvariance, PTL

LEMMA ManualStep ==
  ASSUME EvidenceInv, [EvidenceNext]_evidenceVars, ManualPrimaries # {}
  PROVE  \/ ManualPrimaries' # {}
         \/ \E t \in Lookup : /\ tasks[t].stage \in {"clears", "demoted"} /\ tasks'[t].stage = "done"
                              /\ tasks[t].since < attached
<1>1. CASE matches' = matches
  BY <1>1 DEF ManualPrimaries
<1>2. ASSUME NEW t \in Lookup, Clears(t) \/ Promotes(t)
      PROVE  /\ tasks[t].stage \in {"clears", "demoted"} /\ tasks'[t].stage = "done"
             /\ tasks[t].since < attached
  <2>1. tasks[t].stage \in {"clears", "demoted"} /\ t \in Task /\ tasks \in [Task -> TaskType]
    BY <1>2, LookupFacts DEF Clears, Promotes
  <2>2. tasks[t].since < attached
    BY <2>1, LookupFacts DEF Early
  <2>3. tasks'[t].stage = "done"
    <3>1. CASE Clears(t)
      <4>1. Ended(t, Nobody, "none")
        BY <2>1, <3>1, EndsMoves, HowNames DEF Clears, EvidenceInv
      <4>. QED BY <2>1, <4>1 DEF Ended
    <3>2. CASE Promotes(t)
      BY <2>1, <3>2, PromotesTask
    <3>. QED BY <1>2, <3>1, <3>2
  <2>. QED BY <2>1, <2>2, <2>3
<1>3. ASSUME NEW t \in Attachment, Promotes(t) PROVE ManualPrimaries' # {}
  <2>1. t \in Task /\ Operated(tasks[t])
    BY EvidenceFacts DEF EvidenceInv
  <2>2. tasks[t].how = "manual"
    BY <1>3, <2>1 DEF Promotes, Operated
  <2>3. tasks[t].session \in ManualPrimaries'
    BY <1>3, <2>1, <2>2, PromotesMatches DEF ManualPrimaries
  <2>. QED BY <2>3
<1>4. \/ matches' = matches \/ \E t \in Lookup : Clears(t) \/ Promotes(t)
      \/ \E t \in Attachment : Promotes(t)
  <2>1. CASE \E r \in Request : Accepts(r) \/ FindsRow(r) \/ WritesRow(r) \/ IsLost(r)
    BY <2>1 DEF Accepts, FindsRow, WritesRow, IsLost, matchVars
  <2>2. CASE \E who \in Person \cup {Nobody} : Says(who)
    BY <2>2 DEF Says
  <2>3. CASE \E t \in Lookup : \/ LooksUp(t) \/ ReadsConversation(t) \/ ResolvesIdentity(t) \/ SlackFails(t)
                             \/ FindsSessions(t) \/ Clears(t)
    BY <2>3 DEF LooksUp, ReadsConversation, ResolvesIdentity, SlackFails, FindsSessions
  <2>4. CASE \E t \in Attachment : Attaches(t)
    BY <2>4 DEF Attaches
  <2>5. CASE \E t \in Task : Demotes(t) \/ Promotes(t) \/ PromotionConflicts(t)
    BY <2>5, EvidenceFacts DEF Demotes, PromotionConflicts
  <2>6. CASE UNCHANGED evidenceVars
    BY <2>6 DEF evidenceVars
  <2>. QED BY <2>1, <2>2, <2>3, <2>4, <2>5, <2>6 DEF EvidenceNext
<1>. QED BY <1>1, <1>2, <1>3, <1>4

\* What an operator attached gives way only to another attachment or to a lookup
\* that had begun before it and ends in that step, however many run: one that begins
\* later finds the manual match
\* (loadManualSessionContext), and every attachment raises the count a lookup began with.
THEOREM ManualAlwaysKept == EvidenceSpec => ManualIsKept
<1>1. EvidenceInv /\ [EvidenceNext]_evidenceVars =>
        [ManualPrimaries # {} =>
           \/ ManualPrimaries' # {}
           \/ \E t \in Lookup : /\ tasks[t].stage \in {"clears", "demoted"} /\ tasks'[t].stage = "done"
                                /\ tasks[t].since < attached]_evidenceVars
  BY ManualStep
<1>. QED BY <1>1, EvidenceInvariance, PTL DEF EvidenceSpec, ManualIsKept

=============================================================================
