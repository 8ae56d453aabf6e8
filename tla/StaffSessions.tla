--------------------------- MODULE StaffSessions ---------------------------
(***************************************************************************)
(* Staff accounts, their refresh tokens and the HTTP requests of the admin  *)
(* API that work on both: login, refresh, logout, own password change,      *)
(* password reset, update and creation of an account, and the restart of the *)
(* server that seeds an administrator.                                      *)
(*                                                                          *)
(* A request is a process: every await that another request can slip into   *)
(* is a step boundary.  Database transactions are modelled by their         *)
(* isolation level:                                                         *)
(*  - a SERIALIZABLE transaction works on the snapshot of its first read    *)
(*    (seen, snap) and cannot commit once "touched": a row it writes was    *)
(*    written after that snapshot, or it changes the set it counted and     *)
(*    another SERIALIZABLE transaction did so in between (PostgreSQL breaks *)
(*    this cycle, and may abort transactions that are in none);             *)
(*  - a READ COMMITTED UPDATE of many rows works on the rows its statement  *)
(*    saw (snap) and re-evaluates its WHERE on each; the account row it     *)
(*    updated before stays locked until it commits.                         *)
(***************************************************************************)
EXTENDS Naturals, FiniteSets

CONSTANTS
  Users,    \* account ids
  Tokens,   \* refresh-token ids (rows of refresh_token), a finite supply
  Reqs,     \* concurrent requests the API is serving
  Ops,      \* the endpoints an instance exercises
  Patches,  \* the PATCH bodies an instance sends, a subset of Patch
  Seeds,    \* the account SEED_ADMIN_EMAIL names, if an instance restarts
  Hashes,   \* bcrypt hashes; a new one differs from the one it replaces
  NoUser, NoToken

ASSUME NoUserAssumption == NoUser \notin Users
ASSUME NoTokenAssumption == NoToken \notin Tokens
ASSUME SeedsAssumption == Seeds \subseteq Users

VARIABLES
  account,  \* staff_account rows
  token,    \* refresh_token rows; fam is the root of the rotatedFromId chain
  access,   \* claims of the access JWTs still within their lifetime
  req       \* requests in flight

vars == <<account, token, access, req>>

Roles == {"super_admin", "staff"}
Keep == "keep"            \* a field absent from the PATCH body

Account == [role : Roles \cup {"none"}, isActive : BOOLEAN,
            hash : Hashes, mcp : BOOLEAN]
Token == [status : {"free", "live", "expired", "revoked"},
          user : Users \cup {NoUser},
          from : Tokens \cup {NoToken},
          fam : Tokens \cup {NoToken}]
Claims == [user : Users, role : Roles, mcp : BOOLEAN]
Patch == [role : Roles \cup {Keep}, isActive : {"true", "false", Keep}, name : BOOLEAN]
ASSUME PatchesAssumption == Patches \subseteq Patch
Request == [pc : {"idle", "stamp", "issue", "rotate", "check", "revoke", "tx", "rename",
                  "reset", "resetting", "change", "changing", "fresh"},
            user : Users \cup {NoUser},
            tok : Tokens \cup {NoToken},
            role : Roles, mcp : BOOLEAN,       \* claims of the row last read
            patch : Patch,
            seen : SUBSET Users, snap : SUBSET Tokens,
            touched : BOOLEAN, tries : 1..2]

TypeOK ==
  /\ account \in [Users -> Account]
  /\ token \in [Tokens -> Token]
  /\ access \in SUBSET Claims
  /\ req \in [Reqs -> Request]

NoPatch == [role |-> Keep, isActive |-> Keep, name |-> FALSE]
Idle == [pc |-> "idle", user |-> NoUser, tok |-> NoToken, role |-> "staff",
         mcp |-> FALSE, patch |-> NoPatch, seen |-> {}, snap |-> {},
         touched |-> FALSE, tries |-> 1]

Absent(h) == [role |-> "none", isActive |-> FALSE, hash |-> h, mcp |-> FALSE]
NewAccount(role, h, mcp) == [role |-> role, isActive |-> TRUE, hash |-> h, mcp |-> mcp]
FreeToken == [status |-> "free", user |-> NoUser, from |-> NoToken, fam |-> NoToken]

Exists(u) == account[u].role # "none"
Claim(u, role, mcp) == [user |-> u, role |-> role, mcp |-> mcp]

\* The rows counted by the floor check.
SuperAdmins(acc) == {u \in Users : acc[u].role = "super_admin" /\ acc[u].isActive}

Unrevoked(t) == token[t].status \in {"live", "expired"}
UnrevokedOf(u) == {t \in Tokens : token[t].user = u /\ Unrevoked(t)}

\* updateMany({ where: { id in S, revokedAt: null }, data: { revokedAt } })
RevokeAll(S) ==
  [t \in Tokens |-> IF t \in S /\ Unrevoked(t)
                    THEN [token[t] EXCEPT !.status = "revoked"] ELSE token[t]]

\* The account row is locked by a password transaction that has not committed.
RowLocked(u) ==
  \E q \in Reqs : req[q].pc \in {"resetting", "changing"} /\ req[q].user = u

\* The open transactions in doomed can no longer commit.
Doom(doomed) ==
  [q \in Reqs |-> IF q \in doomed THEN [req[q] EXCEPT !.touched = TRUE] ELSE req[q]]
\* Request r moves to m.
Advance(r, m, doomed) == req' = [Doom(doomed) EXCEPT ![r] = m]

InTx == {q \in Reqs : req[q].pc = "tx"}
TxOnUser(u) == {q \in InTx : req[q].user = u}
TxOnToken(t) == {q \in InTx : t \in req[q].snap}

\* The first boot has created an active super_admin.
Init ==
  /\ \E h \in Hashes :
       account \in [Users -> {Absent(h), NewAccount("super_admin", h, FALSE),
                             NewAccount("staff", h, FALSE)}]
  /\ SuperAdmins(account) # {}
  /\ token = [t \in Tokens |-> FreeToken]
  /\ access = {}
  /\ req = [r \in Reqs |-> Idle]

-----------------------------------------------------------------------------
(* POST /auth/login                                                         *)

\* The password matches the row just read and the row is active; a wrong
\* password or an inactive row ends the request (see StaffLockout).
LoginRead(r, u) ==
  /\ "login" \in Ops
  /\ req[r].pc = "idle"
  /\ Exists(u) /\ account[u].isActive
  /\ Advance(r, [Idle EXCEPT !.pc = "stamp", !.user = u,
                             !.role = account[u].role, !.mcp = account[u].mcp], {})
  /\ UNCHANGED <<account, token, access>>

\* updateLastLogin writes the account row.
LoginStamp(r) ==
  /\ req[r].pc = "stamp"
  /\ ~RowLocked(req[r].user)
  /\ Advance(r, [req[r] EXCEPT !.pc = "issue"], TxOnUser(req[r].user))
  /\ UNCHANGED <<account, token, access>>

\* issueForUser, then signAccessToken with the claims of the row read earlier.
Issue(r, n) ==
  /\ req[r].pc = "issue"
  /\ token[n].status = "free"
  /\ token' = [token EXCEPT ![n] = [status |-> "live", user |-> req[r].user,
                                    from |-> NoToken, fam |-> n]]
  /\ access' = access \cup {Claim(req[r].user, req[r].role, req[r].mcp)}
  /\ Advance(r, Idle, {})
  /\ UNCHANGED account

-----------------------------------------------------------------------------
(* POST /auth/refresh                                                       *)

RefreshLookup(r, t) ==
  /\ "refresh" \in Ops
  /\ req[r].pc = "idle"
  /\ token[t].status = "live"
  /\ Advance(r, [Idle EXCEPT !.pc = "rotate", !.user = token[t].user, !.tok = t], {})
  /\ UNCHANGED <<account, token, access>>

\* Mutant of Rotate: the old row is not looked at again before it is replaced.
RotateUnguarded(r, n) ==
  LET t == req[r].tok IN
  /\ req[r].pc = "rotate"
  /\ token[n].status = "free"
  /\ token' = [token EXCEPT ![t].status = "revoked",
                            ![n] = [status |-> "live", user |-> req[r].user,
                                    from |-> t, fam |-> token[t].fam]]
  /\ Advance(r, [req[r] EXCEPT !.pc = "check"], TxOnToken(t))
  /\ UNCHANGED <<account, access>>

\* One transaction: insert the successor, revoke the old row if still
\* unrevoked; otherwise the insert is rolled back and the request fails.
Rotate(r, n) ==
  LET t == req[r].tok IN
  /\ req[r].pc = "rotate"
  /\ Unrevoked(t)
  /\ token[n].status = "free"
  /\ token' = [token EXCEPT ![t].status = "revoked",
                            ![n] = [status |-> "live", user |-> req[r].user,
                                    from |-> t, fam |-> token[t].fam]]
  /\ Advance(r, [req[r] EXCEPT !.pc = "check"], TxOnToken(t))
  /\ UNCHANGED <<account, access>>

\* Mutant of RotateLost: insert and revoke are two statements without a
\* transaction, so that the successor's row stays when the revoke finds nothing.
RotateLostKeepsRow(r) ==
  LET t == req[r].tok IN
  /\ req[r].pc = "rotate"
  /\ ~Unrevoked(t)
  /\ \E n \in Tokens :
       /\ token[n].status = "free"
       /\ token' = [token EXCEPT ![n] = [status |-> "live", user |-> req[r].user,
                                         from |-> t, fam |-> token[t].fam]]
  /\ Advance(r, Idle, {})
  /\ UNCHANGED <<account, access>>

RotateLost(r) ==
  /\ req[r].pc = "rotate"
  /\ ~Unrevoked(req[r].tok)
  /\ Advance(r, Idle, {})
  /\ UNCHANGED <<account, token, access>>

\* The account is read only after the rotation has committed.
RefreshCheck(r) ==
  LET u == req[r].user IN
  /\ req[r].pc = "check"
  /\ access' = IF account[u].isActive
               THEN access \cup {Claim(u, account[u].role, account[u].mcp)}
               ELSE access
  /\ Advance(r, Idle, {})
  /\ UNCHANGED <<account, token>>

-----------------------------------------------------------------------------
(* POST /auth/logout                                                        *)

LogoutLookup(r, t) ==
  /\ "logout" \in Ops
  /\ req[r].pc = "idle"
  /\ Unrevoked(t)
  /\ Advance(r, [Idle EXCEPT !.pc = "revoke", !.user = token[t].user, !.tok = t], {})
  /\ UNCHANGED <<account, token, access>>

LogoutRevoke(r) ==
  /\ req[r].pc = "revoke"
  /\ token' = RevokeAll({req[r].tok})
  /\ Advance(r, Idle, TxOnToken(req[r].tok))
  /\ UNCHANGED <<account, access>>

-----------------------------------------------------------------------------
(* Super-admin endpoints.  The guards look at the JWT only, never at the    *)
(* database: the claims may be older than the actor's row.                  *)

ActsAsSuperAdmin(a) == Claim(a, "super_admin", FALSE) \in access

CreateAccount(a, u, role, h) ==
  /\ "create" \in Ops
  /\ ActsAsSuperAdmin(a)
  /\ ~Exists(u)
  /\ account' = [account EXCEPT ![u] = NewAccount(role, h, TRUE)]
  /\ UNCHANGED <<token, access, req>>

Patched(row, p) ==
  [row EXCEPT !.role = IF p.role = Keep THEN @ ELSE p.role,
              !.isActive = IF p.isActive = Keep THEN @ ELSE p.isActive = "true"]

\* Mutant of Snapshot: a retry keeps what the first attempt has read.
SnapshotOnce(m) ==
  IF m.tries = 2 THEN [m EXCEPT !.pc = "tx", !.touched = FALSE]
  ELSE [m EXCEPT !.pc = "tx", !.seen = SuperAdmins(account),
                 !.snap = IF m.patch.isActive = "false" THEN UnrevokedOf(m.user) ELSE {},
                 !.touched = FALSE]

Snapshot(m) ==
  [m EXCEPT !.pc = "tx",
            !.seen = SuperAdmins(account),
            !.snap = IF m.patch.isActive = "false" THEN UnrevokedOf(m.user) ELSE {},
            !.touched = FALSE]

\* PATCH /users/:id with a role or an active flag: the first read of the
\* SERIALIZABLE transaction.
UpdateBegin(r, a, u, p) ==
  /\ "update" \in Ops
  /\ req[r].pc = "idle"
  /\ ActsAsSuperAdmin(a) /\ a # u
  /\ Exists(u)
  /\ p.role # Keep \/ p.isActive # Keep
  /\ Advance(r, Snapshot([Idle EXCEPT !.user = u, !.patch = p]), {})
  /\ UNCHANGED <<account, token, access>>

\* The active super_admins the transaction counts: its snapshot, its own write.
Counted(m) ==
  LET row == Patched(account[m.user], m.patch) IN
  (m.seen \ {m.user}) \cup
    {u \in {m.user} : row.role = "super_admin" /\ row.isActive}

\* The transaction's own write changes the set it counts.
MovesFloor(m) == Counted(m) # m.seen

\* Open transactions that a SERIALIZABLE commit on u dooms: those on the same
\* row and, if it changed the set the others have counted, those that change
\* it too, since neither of the two counted the other's write.
Conflicting(u, before, after) ==
  TxOnUser(u) \cup
    (IF before = after THEN {} ELSE {q \in InTx : MovesFloor(req[q])})

Renaming(u) == [Idle EXCEPT !.pc = "rename", !.user = u]

\* Mutant of MayCommit: the transaction runs at the default isolation level.
MayCommitReadCommitted(m) == m.pc = "tx" /\ ~RowLocked(m.user)

\* runSerializable: a transaction that another commit has made impossible fails.
MayCommit(m) == m.pc = "tx" /\ ~m.touched /\ ~RowLocked(m.user)

UpdateCommit(r) ==
  LET m == req[r] IN
  /\ MayCommit(m)
  /\ Counted(m) # {}
  /\ account' = [account EXCEPT ![m.user] = Patched(@, m.patch)]
  /\ token' = RevokeAll(m.snap)
  /\ \E doomed \in SUBSET InTx :
       /\ Conflicting(m.user, SuperAdmins(account), SuperAdmins(account')) \subseteq doomed
       /\ Advance(r, IF m.patch.name THEN Renaming(m.user) ELSE Idle, doomed)
  /\ UNCHANGED access

\* SuperAdminFloorViolatedException rolls the transaction back.
UpdateRefused(r) ==
  /\ req[r].pc = "tx"
  /\ Counted(req[r]) = {}
  /\ Advance(r, Idle, {})
  /\ UNCHANGED <<account, token, access>>

\* Serialization failure: one retry on a new snapshot, then the error surfaces.
UpdateAborted(r) ==
  LET m == req[r] IN
  /\ m.pc = "tx"
  /\ m.touched
  /\ Advance(r, IF m.tries = 1 THEN Snapshot([m EXCEPT !.tries = 2]) ELSE Idle, {})
  /\ UNCHANGED <<account, token, access>>

\* A body without a role or an active flag, which an actor may send for itself,
\* writes the name only ...
RenameBegin(r, a, u, p) ==
  /\ "update" \in Ops
  /\ req[r].pc = "idle"
  /\ ActsAsSuperAdmin(a)
  /\ Exists(u)
  /\ p.role = Keep /\ p.isActive = Keep
  /\ Advance(r, Renaming(u), {})
  /\ UNCHANGED <<account, token, access>>

\* ... as does, in a statement of its own, the end of an update with a new name.
Rename(r) ==
  /\ req[r].pc = "rename"
  /\ ~RowLocked(req[r].user)
  /\ Advance(r, Idle, TxOnUser(req[r].user))
  /\ UNCHANGED <<account, token, access>>

-----------------------------------------------------------------------------
(* Password transactions: READ COMMITTED, account row first, then tokens.   *)

ResetBegin(r, a, u) ==
  /\ "reset" \in Ops
  /\ req[r].pc = "idle"
  /\ ActsAsSuperAdmin(a) /\ a # u
  /\ Exists(u)
  /\ Advance(r, [Idle EXCEPT !.pc = "reset", !.user = u], {})
  /\ UNCHANGED <<account, token, access>>

ChangeBegin(r, c) ==
  /\ "change" \in Ops
  /\ req[r].pc = "idle"
  /\ c \in access
  /\ account[c.user].isActive
  /\ Advance(r, [Idle EXCEPT !.pc = "change", !.user = c.user, !.mcp = c.mcp], {})
  /\ UNCHANGED <<account, token, access>>

\* The account row is updated (and locked); the UPDATE of the tokens starts.
PasswordScan(r) ==
  LET m == req[r] IN
  /\ m.pc \in {"reset", "change"}
  /\ ~RowLocked(m.user)
  /\ Advance(r, [m EXCEPT !.pc = IF m.pc = "reset" THEN "resetting" ELSE "changing",
                          !.snap = UnrevokedOf(m.user)], {})
  /\ UNCHANGED <<account, token, access>>

PasswordCommit(r, mcp, next) ==
  LET m == req[r] IN
  /\ \E h \in Hashes \ {account[m.user].hash} :
       account' = [account EXCEPT ![m.user].hash = h, ![m.user].mcp = mcp]
  /\ token' = RevokeAll(m.snap)
  /\ Advance(r, next, TxOnUser(m.user))
  /\ UNCHANGED access

ResetCommit(r) ==
  /\ req[r].pc = "resetting"
  /\ PasswordCommit(r, TRUE, Idle)

ChangeCommit(r) ==
  /\ req[r].pc = "changing"
  /\ PasswordCommit(r, FALSE, [req[r] EXCEPT !.pc = "fresh", !.snap = {}])

\* changePassword re-reads the row (isActive is not looked at again).
ChangeFresh(r) ==
  LET row == account[req[r].user] IN
  /\ req[r].pc = "fresh"
  /\ Advance(r, [req[r] EXCEPT !.pc = "issue", !.role = row.role, !.mcp = row.mcp], {})
  /\ UNCHANGED <<account, token, access>>

-----------------------------------------------------------------------------
(* Boot and failure                                                         *)

\* The seeder creates its super_admin if the account is absent (and so does
\* AdminBootstrapService) ...
BootCreate(u, h) ==
  /\ ~Exists(u)
  /\ account' = [account EXCEPT ![u] = NewAccount("super_admin", h, FALSE)]
  /\ UNCHANGED <<token, access, req>>

\* ... and else gives it the configured password back, sessions as they are.
BootReset(u, h) ==
  /\ Exists(u) /\ ~RowLocked(u)
  /\ account' = [account EXCEPT ![u].hash = h, ![u].mcp = FALSE]
  /\ req' = Doom(TxOnUser(u))
  /\ UNCHANGED <<token, access>>

\* The process dies, or a statement fails, between two awaits.
Crash(r) ==
  /\ "crash" \in Ops
  /\ req[r].pc # "idle"
  /\ Advance(r, Idle, {})
  /\ UNCHANGED <<account, token, access>>

-----------------------------------------------------------------------------
(* Lifetimes                                                                *)

AccessExpires(c) ==
  /\ "access-expires" \in Ops
  /\ c \in access
  /\ access' = access \ {c}
  /\ UNCHANGED <<account, token, req>>

TokenExpires(t) ==
  /\ "token-expires" \in Ops
  /\ token[t].status = "live"
  /\ token' = [token EXCEPT ![t].status = "expired"]
  /\ UNCHANGED <<account, access, req>>

Step(r) ==
  \/ LoginStamp(r) \/ \E n \in Tokens : Issue(r, n)
  \/ \E n \in Tokens : Rotate(r, n)
  \/ RotateLost(r) \/ RefreshCheck(r) \/ LogoutRevoke(r)
  \/ UpdateCommit(r) \/ UpdateRefused(r) \/ UpdateAborted(r) \/ Rename(r) \/ Crash(r)
  \/ PasswordScan(r) \/ ResetCommit(r) \/ ChangeCommit(r) \/ ChangeFresh(r)

Arrive(r) ==
  \/ \E u \in Users : LoginRead(r, u)
  \/ \E t \in Tokens : RefreshLookup(r, t) \/ LogoutLookup(r, t)
  \/ \E a, u \in Users : ResetBegin(r, a, u)
  \/ \E a, u \in Users, p \in Patches : UpdateBegin(r, a, u, p) \/ RenameBegin(r, a, u, p)
  \/ \E c \in access : ChangeBegin(r, c)

Next ==
  \/ \E r \in Reqs : Arrive(r) \/ Step(r)
  \/ \E a, u \in Users, role \in Roles, h \in Hashes : CreateAccount(a, u, role, h)
  \/ \E u \in Seeds, h \in Hashes : BootCreate(u, h) \/ BootReset(u, h)
  \/ \E c \in access : AccessExpires(c)
  \/ \E t \in Tokens : TokenExpires(t)

Spec == Init /\ [][Next]_vars

-----------------------------------------------------------------------------
(* Properties                                                               *)

\* FR-023: whatever role and active changes race, a super_admin stays active.
\* The two transactions of a write skew each count a snapshot in which the
\* other's victim is still active; SERIALIZABLE must doom one of them.
SuperAdminFloor == SuperAdmins(account) # {}

\* Concurrent refreshes of one cookie never fork a session: a chain of
\* rotations has one unrevoked token at most, and a token one successor.
RotationIsLinear ==
  /\ \A s, t \in Tokens :
       Unrevoked(s) /\ Unrevoked(t) /\ token[s].fam = token[t].fam => s = t
  /\ \A s, t \in Tokens :
       token[s].from = token[t].from /\ token[s].from # NoToken => s = t

\* Deactivation revokes in the same transaction (data-model invariant #2):
\* no session that was open when the transaction read the tokens survives its
\* commit, even if its token was rotated between that read and the commit.
DeactivationEndsSessions ==
  [][\A r \in Reqs : UpdateCommit(r) /\ req[r].patch.isActive = "false" =>
       \A s \in req[r].snap, t \in Tokens :
         token[t].fam = token[s].fam => ~Unrevoked(t)']_vars

\* The rotation chains are well formed ...
TokensOK ==
  /\ \A t \in Tokens :
       IF token[t].status = "free" THEN token[t] = FreeToken
       ELSE /\ token[t].user \in Users /\ Exists(token[t].user) /\ token[t].fam \in Tokens
            /\ token[token[t].fam].fam = token[t].fam
  /\ \A t \in Tokens : token[t].from # NoToken =>
       LET old == token[token[t].from] IN
       old.status = "revoked" /\ old.fam = token[t].fam /\ old.user = token[t].user
  /\ RotationIsLinear

\* ... a request in flight knows its user and its token ...
RequestOK(m) ==
  /\ m.pc # "idle" => m.user \in Users /\ Exists(m.user)
  /\ m.pc \in {"rotate", "check", "revoke"} =>
       m.tok \in Tokens /\ token[m.tok].status # "free" /\ token[m.tok].user = m.user
  /\ \A t \in m.snap : token[t].status # "free" /\ token[t].user = m.user

\* ... and a transaction that can still commit has read nothing that is gone:
\* neither its own row nor a token and, if it changes the set it counts, nobody
\* of that set.
SeenOK(m) ==
  m.pc = "tx" /\ ~m.touched =>
    /\ m.user \in m.seen <=> m.user \in SuperAdmins(account)
    /\ MovesFloor(m) => m.seen \subseteq SuperAdmins(account)
    /\ \A t \in m.snap : Unrevoked(t)

\* Inductive strengthening of the three properties above: besides the chains,
\* it says what the snapshots of the requests in flight are still good for.
IInv ==
  /\ TypeOK /\ TokensOK /\ SuperAdminFloor
  /\ \A u \in Users : account[u].isActive => Exists(u)
  /\ \A r \in Reqs : RequestOK(req[r]) /\ SeenOK(req[r])

\* A rotation chain is a session, named by its first token.
SessionStatus(s) ==
  IF token[s].fam # s THEN "absent"
  ELSE IF \E t \in Tokens : token[t].fam = s /\ Unrevoked(t) THEN "open" ELSE "ended"
Family == INSTANCE SessionFamily
            WITH Sessions <- Tokens, session <- [s \in Tokens |-> SessionStatus(s)]

\* Seen as sessions, the refresh tokens implement SessionFamily: rotation is
\* invisible, and a session that was ended is never continued.
SessionsNeverResume == Family!Spec

\* data-model.md: isActive=false must never coexist with a usable refresh
\* token.  A sign-in that read the row before the deactivation breaks it.
InactiveHasNoToken ==
  \A u \in Users : Exists(u) /\ ~account[u].isActive =>
    \A t \in Tokens : token[t].user = u => token[t].status # "live"

\* data-model.md, invariant #3: any change of a passwordHash revokes all of
\* the user's refresh tokens in the same transaction.
PasswordChangeRevokesAll ==
  [][\A u \in Users : account'[u].hash # account[u].hash =>
       \A t \in Tokens : token[t].user = u => ~Unrevoked(t)']_vars

\* FR-007: signing out ends the session of the presented cookie server-side,
\* so that no later refresh can continue it.
SignOutEndsSession ==
  [][\A r \in Reqs : req[r].pc = "revoke" /\ req'[r] = Idle =>
       \A t \in Tokens : token[t].fam = token[req[r].tok].fam => ~Unrevoked(t)']_vars

\* FR-026a: mustChangePassword is cleared only by the forced-change flow, i.e.
\* by a change that the access token presented as forced (mcp).
ForcedFlagOutlivesPlainChange ==
  [][\A u \in Users : Exists(u) /\ account[u].mcp /\ ~account'[u].mcp =>
       \E r \in Reqs : req[r].pc = "changing" /\ req[r].user = u /\ req[r].mcp]_vars
=============================================================================
