--------------------------- MODULE WorkspaceAccess ---------------------------
(***************************************************************************)
(* Who may do what in a workspace: accounts, membership rows, sessions.    *)
(*                                                                         *)
(* A request of the API is a task.  It resolves its context first          *)
(* (packages/rest/src/context.ts: the session, then the memberships, then  *)
(* the workspace it falls back to), passes the role gate (trpc.ts) with    *)
(* the role it read, and then runs its handler, whose reads and writes are *)
(* separate statements: whatever another request does between two of them  *)
(* is not seen.  Signing in (password, registration, Google) is a task as  *)
(* well: it ends by creating a session.                                    *)
(*                                                                         *)
(* Membership rows are never removed: deleting one sets deletedAt.  The    *)
(* only thing that keeps them apart is the partial unique index of the     *)
(* soft_delete migration, over live rows.  The rows stand in the order of  *)
(* their createdAt.                                                        *)
(***************************************************************************)
EXTENDS Integers, Sequences, FiniteSets

CONSTANTS
  Users,        \* accounts, by their e-mail address
  Workspaces,   \* workspaces (provisioned by a script)
  NoWs,         \* no workspace
  NoOne,        \* no user
  Sessions,     \* session rows, each the cookie of one browser
  Requests,     \* requests that can be in flight together
  GoogleUsers,  \* users who can sign in with Google
  Home,         \* the workspace that claims the domain of a user's address
  Provisioned,  \* the membership rows the provisioning script left
  MaxRows       \* membership rows there can be

Roles == {"OWNER", "ADMIN", "MEMBER"}
Row == [user : Users, ws : Workspaces, role : Roles, live : BOOLEAN]

ASSUME AccessAssumption ==
  /\ Home \in [Users -> Workspaces \union {NoWs}]
  /\ NoWs \notin Workspaces
  /\ GoogleUsers \subseteq Users
  /\ NoOne \notin Users
  /\ Provisioned \in Seq(Row)
  /\ MaxRows \in Nat
  /\ \A i, j \in DOMAIN Provisioned :
       /\ Provisioned[i].live
       /\ Provisioned[i].user = Provisioned[j].user
          /\ Provisioned[i].ws = Provisioned[j].ws => i = j

VARIABLES
  account,  \* none, with a password, or by Google alone
  rows,     \* the membership rows, oldest first
  session,  \* session row: the user and the active workspace
  task      \* what each request is doing

accessVars == <<account, rows, session, task>>

MemberOps == {"add", "role", "remove"}
Ops == MemberOps \union {"switch", "logout"}

NoTask == [pc |-> "idle", op |-> "none", by |-> NoOne, sid |-> "none", ws |-> NoWs,
           role |-> "none", target |-> NoOne, grant |-> "MEMBER", goal |-> NoWs, row |-> 0]
NoSession == [user |-> NoOne, active |-> NoWs]

-----------------------------------------------------------------------------
(* Roles (security/rbac.ts) *)

Rank == [OWNER |-> 3, ADMIN |-> 2, MEMBER |-> 1, none |-> 0]
HasRequiredRole(actor, required) == Rank[actor] >= Rank[required]
CanAssign(actor, grant) ==
  /\ actor \in {"OWNER", "ADMIN"}
  /\ grant # "OWNER"
CanManage_NotPeers(actor, role, isSelf) ==
  /\ ~isSelf
  /\ actor # role /\ actor # "MEMBER"
CanManage_Self(actor, role, isSelf) ==
  /\ role # "OWNER"
  /\ actor = "OWNER" \/ (actor = "ADMIN" /\ role = "MEMBER")
CanManage(actor, role, isSelf) ==
  /\ ~isSelf
  /\ role # "OWNER"
  /\ actor = "OWNER" \/ (actor = "ADMIN" /\ role = "MEMBER")

-----------------------------------------------------------------------------
(* The membership table *)

Of(u, w) == {i \in DOMAIN rows : rows[i].user = u /\ rows[i].ws = w}
LiveOf(u, w) == {i \in Of(u, w) : rows[i].live}
DeletedOf(u, w) == Of(u, w) \ LiveOf(u, w)
\* the user's live rows; they are listed oldest first
Access(u) == {i \in DOMAIN rows : rows[i].user = u /\ rows[i].live}
Oldest(S) == CHOOSE i \in S : \A j \in S : i <= j
\* findUnique is not filtered: it returns some row of the pair, live or not
FindUnique(u, w) == IF Of(u, w) = {} THEN {0} ELSE Of(u, w)
\* the partial unique index lets a row become live
IndexAllows_Any(u, w) == TRUE
IndexAllows(u, w) == LiveOf(u, w) = {}

Inserted(u, w, r) == Append(rows, [user |-> u, ws |-> w, role |-> r, live |-> TRUE])

-----------------------------------------------------------------------------
(* Tasks *)

Proceeds(q, to) == task' = [task EXCEPT ![q].pc = to]
Finishes(q) == task' = [task EXCEPT ![q] = NoTask]

-----------------------------------------------------------------------------
(* The context of a request (context.ts, session.ts) and its role gate      *)
(* (trpc.ts)                                                                *)

\* the workspace and the role the memberships give the session: the active
\* workspace if the user is still a member, else the oldest membership
Context(s) ==
  LET access == Access(session[s].user)
      pinned == {i \in access : rows[i].ws = session[s].active}
      pick == Oldest(IF pinned # {} THEN pinned ELSE access)
  IN IF access = {} THEN [ws |-> NoWs, role |-> "none"]
     ELSE [ws |-> rows[pick].ws, role |-> rows[pick].role]

Needs(op) == IF op \in {"switch", "logout"} THEN "none" ELSE "ADMIN"

\* what a request asks for
Inputs == {i \in [op : Ops, target : Users \union {NoOne}, grant : Roles,
                  goal : Workspaces \union {NoWs}] :
  /\ i.target # NoOne <=> i.op \in MemberOps
  /\ i.goal # NoWs <=> i.op = "switch"
  /\ i.op \notin {"add", "role"} => i.grant = "MEMBER"}

Refused == [op |-> "refused", target |-> NoOne, grant |-> "MEMBER", goal |-> NoWs]

\* a browser sends a request, which resolves its context: nothing was read
\* before.  One that the gate will refuse has no further effect than to write
\* the fallback; the role is of use to a membership operation only
Asks(q) == \E s \in Sessions : task[q].pc = "idle" /\ session[s] # NoSession /\
  LET c == Context(s)
      pins == c.ws \notin {NoWs, session[s].active}
      admitted == {i \in Inputs : /\ HasRequiredRole(c.role, Needs(i.op))
                                  /\ i.op \in {"add", "role"} => CanAssign(c.role, i.grant)}
  IN \E i \in admitted \union (IF pins THEN {Refused} ELSE {}) :
     /\ task' = [task EXCEPT ![q] =
          [NoTask EXCEPT !.pc = IF pins THEN "pin" ELSE "find", !.op = i.op,
             !.sid = s, !.by = session[s].user, !.ws = c.ws,
             !.role = IF i.op \in MemberOps THEN c.role ELSE "none",
             !.target = i.target, !.grant = i.grant, !.goal = i.goal]]
     /\ UNCHANGED <<account, rows, session>>

\* the fallback is written to the session, unless a logout removed it
FallsBack(q) ==
  /\ task[q].pc = "pin"
  /\ LET t == task[q] IN
       /\ session' = IF session[t.sid] = NoSession THEN session
                     ELSE [session EXCEPT ![t.sid].active = t.ws]
       /\ IF session[t.sid] = NoSession \/ t.op = "refused" THEN Finishes(q) ELSE Proceeds(q, "find")
  /\ UNCHANGED <<account, rows>>

-----------------------------------------------------------------------------
(* Membership operations (workspace-router.ts) *)

\* addMember: an unknown address is refused, and any row found is a conflict
AddFinds(q) ==
  /\ task[q].pc = "find" /\ task[q].op = "add"
  /\ IF account[task[q].target] = "none" \/ Of(task[q].target, task[q].ws) # {}
     THEN Finishes(q) ELSE Proceeds(q, "live")
  /\ UNCHANGED <<account, rows, session>>

\* softUpsert looks for a live row, then for a deleted one
UpsertFinds(q) ==
  /\ task[q].pc \in {"live", "deleted"}
  /\ LET t == task[q]
         first == t.pc = "live"
         found == IF first THEN LiveOf(t.target, t.ws) ELSE DeletedOf(t.target, t.ws)
     IN IF found = {} THEN Proceeds(q, IF first THEN "deleted" ELSE "insert")
        ELSE \E i \in found :
               task' = [task EXCEPT ![q].row = i, ![q].pc = IF first THEN "write" ELSE "revive"]
  /\ UNCHANGED <<account, rows, session>>

\* and brings the deleted one back, unless a live one appeared
UpsertRevives(q) ==
  /\ task[q].pc = "revive"
  /\ LET t == task[q] IN
       rows' = IF rows[t.row].live \/ IndexAllows(t.target, t.ws)
               THEN [rows EXCEPT ![t.row].live = TRUE, ![t.row].role = t.grant]
               ELSE rows
  /\ Finishes(q)
  /\ UNCHANGED <<account, session>>

UpsertInserts(q) ==
  /\ task[q].pc = "insert"
  /\ Len(rows) < MaxRows
  /\ LET t == task[q] IN
       rows' = IF IndexAllows(t.target, t.ws) THEN Inserted(t.target, t.ws, t.grant) ELSE rows
  /\ Finishes(q)
  /\ UNCHANGED <<account, session>>

\* updateMemberRole, removeMember: the row the checks are made on
MemberFinds(q) ==
  /\ task[q].pc = "find" /\ task[q].op \in {"role", "remove"}
  /\ LET t == task[q] IN
       \E i \in FindUnique(t.target, t.ws) :
         IF /\ i # 0
            /\ CanManage(t.role, rows[i].role, t.target = t.by)
         THEN task' = [task EXCEPT ![q].row = i, ![q].pc = "write"]
         ELSE Finishes(q)
  /\ UNCHANGED <<account, rows, session>>

\* the row is written by its id, whatever became of it since
MemberWrites(q) ==
  /\ task[q].pc = "write" /\ task[q].op \in MemberOps
  /\ LET t == task[q] IN
       rows' = IF t.op = "remove" THEN [rows EXCEPT ![t.row].live = FALSE]
               ELSE [rows EXCEPT ![t.row].role = t.grant]
  /\ Finishes(q)
  /\ UNCHANGED <<account, session>>

SwitchFinds_Unchecked(q) ==
  /\ task[q].pc = "find" /\ task[q].op = "switch"
  /\ Proceeds(q, "write")
  /\ UNCHANGED <<account, rows, session>>
SwitchFinds(q) ==
  /\ task[q].pc = "find" /\ task[q].op = "switch"
  /\ IF Of(task[q].by, task[q].goal) = {} THEN Finishes(q) ELSE Proceeds(q, "write")
  /\ UNCHANGED <<account, rows, session>>

SwitchWrites(q) ==
  /\ task[q].pc = "write" /\ task[q].op = "switch"
  /\ session' = IF session[task[q].sid] = NoSession THEN session
                ELSE [session EXCEPT ![task[q].sid].active = task[q].goal]
  /\ Finishes(q)
  /\ UNCHANGED <<account, rows>>

LogsOut(q) ==
  /\ task[q].pc = "find" /\ task[q].op = "logout"
  /\ session' = [session EXCEPT ![task[q].sid] = NoSession]
  /\ Finishes(q)
  /\ UNCHANGED <<account, rows>>

-----------------------------------------------------------------------------
(* Signing in (auth-router.ts, google-oauth-handlers.ts) *)

\* a browser without a session signs in
SignsIn(q, op, u, w, pc) ==
  /\ task[q].pc = "idle"
  /\ \E s \in Sessions :
       /\ session[s] = NoSession
       /\ \A p \in Requests : task[p].sid # s
       /\ task' = [task EXCEPT ![q] = [NoTask EXCEPT !.pc = pc, !.op = op, !.sid = s, !.by = u, !.ws = w]]
  /\ UNCHANGED <<session>>

\* register finds no account and hashes the password
Registers(q) == \E u \in Users :
  /\ account[u] = "none"
  /\ SignsIn(q, "register", u, NoWs, "hash")
  /\ UNCHANGED <<account, rows>>

\* login verifies the password
LogsIn(q) == \E u \in Users :
  /\ account[u] = "password"
  /\ SignsIn(q, "login", u, NoWs, "access")
  /\ UNCHANGED <<account, rows>>

\* the unique index on the address refuses the second of two registrations
RegisterCreates(q) ==
  /\ task[q].pc = "hash"
  /\ IF account[task[q].by] = "none"
     THEN account' = [account EXCEPT ![task[q].by] = "password"] /\ Proceeds(q, "session")
     ELSE Finishes(q) /\ UNCHANGED account
  /\ UNCHANGED <<rows, session>>

\* Google, its checks passed: one transaction finds or creates the account, and
\* lets a new one join the workspace of its domain
GoogleCommits(q) == \E u \in GoogleUsers :
  LET joins == account[u] = "none" /\ Home[u] # NoWs
  IN /\ joins => Len(rows) < MaxRows
     /\ account' = [account EXCEPT ![u] = IF @ = "none" THEN "google" ELSE @]
     /\ rows' = IF joins THEN Inserted(u, Home[u], "MEMBER") ELSE rows
     /\ SignsIn(q, "google", u, IF joins THEN Home[u] ELSE NoWs, IF joins THEN "session" ELSE "access")

\* the oldest membership becomes active; Google tries the domain if there is none
LoginResolves(q) ==
  /\ task[q].pc = "access"
  /\ LET t == task[q]
         access == Access(t.by)
     IN task' = [task EXCEPT
          ![q].ws = IF access = {} THEN NoWs ELSE rows[Oldest(access)].ws,
          ![q].pc = IF access = {} /\ t.op = "google" /\ Home[t.by] # NoWs
                    THEN "join" ELSE "session"]
  /\ UNCHANGED <<account, rows, session>>

\* ensureMembership looks for a live row
JoinFinds(q) ==
  /\ task[q].pc = "join"
  /\ LET u == task[q].by IN
       task' = [task EXCEPT ![q].ws = Home[u],
                            ![q].pc = IF LiveOf(u, Home[u]) = {} THEN "member" ELSE "session"]
  /\ UNCHANGED <<account, rows, session>>

\* and creates one.  When somebody else did so meanwhile, the failed insert has
\* aborted the transaction, although ensureMembership catches the error: whether
\* the commit that follows throws, which ends the sign-in, is up to the driver
JoinCreates(q) ==
  /\ task[q].pc = "member"
  /\ Len(rows) < MaxRows
  /\ LET u == task[q].by IN
       \/ /\ IndexAllows(u, Home[u])
          /\ rows' = Inserted(u, Home[u], "MEMBER")
          /\ Proceeds(q, "session")
       \/ /\ ~IndexAllows(u, Home[u])
          /\ rows' = rows
          /\ Proceeds(q, "session") \/ Finishes(q)
  /\ UNCHANGED <<account, session>>

CreatesSession(q) ==
  /\ task[q].pc = "session"
  /\ session' = [session EXCEPT ![task[q].sid] = [user |-> task[q].by, active |-> task[q].ws]]
  /\ Finishes(q)
  /\ UNCHANGED <<account, rows>>

-----------------------------------------------------------------------------
AccessInit ==
  /\ account = [u \in Users |-> IF \E i \in DOMAIN Provisioned : Provisioned[i].user = u
                                THEN "password" ELSE "none"]
  /\ rows = Provisioned
  /\ session = [s \in Sessions |-> NoSession]
  /\ task = [q \in Requests |-> NoTask]

Step(q) ==
  \/ Asks(q) \/ FallsBack(q)
  \/ AddFinds(q) \/ UpsertFinds(q) \/ UpsertRevives(q) \/ UpsertInserts(q)
  \/ MemberFinds(q) \/ MemberWrites(q) \/ SwitchFinds(q) \/ SwitchWrites(q)
  \/ LogsOut(q)
  \/ Registers(q) \/ RegisterCreates(q) \/ LogsIn(q) \/ GoogleCommits(q)
  \/ LoginResolves(q) \/ JoinFinds(q) \/ JoinCreates(q) \/ CreatesSession(q)

AccessNext == \E q \in Requests : Step(q)

AccessSpec == AccessInit /\ [][AccessNext]_accessVars

-----------------------------------------------------------------------------
(* Properties *)

Pcs == {"idle", "pin", "find", "live", "deleted", "insert", "revive", "write",
        "hash", "access", "join", "member", "session"}
TaskType ==
  [pc : Pcs, op : Ops \union {"none", "refused", "register", "login", "google"},
   by : Users \union {NoOne}, sid : Sessions \union {"none"}, ws : Workspaces \union {NoWs},
   role : Roles \union {"none"}, target : Users \union {NoOne}, grant : Roles,
   goal : Workspaces \union {NoWs}, row : Nat]
AccessTypeOK ==
  /\ account \in [Users -> {"none", "password", "google"}]
  /\ rows \in Seq(Row)
  /\ session \in [Sessions -> [user : Users \union {NoOne}, active : Workspaces \union {NoWs}]]
  /\ task \in [Requests -> TaskType]

\* A user has at most one live membership in a workspace, however an
\* administrator who adds them, a sign-in that lets them join by their domain
\* and a removal interleave (softUpsert and ensureMembership look first and
\* write later; the partial unique index stands between them)
OneLiveRow == \A u \in Users, w \in Workspaces : Cardinality(LiveOf(u, w)) <= 1

\* No session ever points at a workspace its user never belonged to, whatever
\* fell back, switched or signed in meanwhile
ActiveWasMember == \A s \in Sessions :
  session[s].active # NoWs => Of(session[s].user, session[s].active) # {}

\* No request makes, changes or removes an owner: the workspace keeps the
\* owners it was provisioned with (canAssignWorkspaceRole,
\* canManageWorkspaceMember, checked on a row read earlier)
OwnersStay == [][
  /\ \A i \in DOMAIN rows : rows[i].role = "OWNER" => rows'[i] = rows[i]
  /\ \A i \in DOMAIN rows' : rows'[i].role = "OWNER" => i \in DOMAIN rows /\ rows[i].role = "OWNER"]_accessVars

\* Nobody's membership is raised to ADMIN but by a request of somebody else,
\* who was an administrator of that workspace when the request began
RaisedByAnother == [][
  \A i \in DOMAIN rows' :
    rows'[i].role = "ADMIN" /\ (i \in DOMAIN rows => rows[i].role # "ADMIN") =>
      \E q \in Requests : /\ task[q].pc # "idle" /\ task'[q] = NoTask
                          /\ task[q].by # rows'[i].user
                          /\ task[q].ws = rows'[i].ws
                          /\ task[q].role \in {"OWNER", "ADMIN"}]_accessVars

=============================================================================
