------------------------- MODULE CustomerCredentials -------------------------
(***************************************************************************)
(* The password of one customer, the refresh tokens of the customer's       *)
(* devices and the password-reset tokens: sign-in, refresh, sign-out,       *)
(* forgotten-password reset, authenticated password change, and the staff's *)
(* deactivation of the account.  Every row is keyed by the customer, so     *)
(* that one customer is enough.                                             *)
(*                                                                          *)
(* Unlike the staff API, a password is written and the sessions are revoked *)
(* in statements of their own.  An UPDATE of many rows works on the rows    *)
(* its statement saw (snap) and looks at each again when it writes it; the  *)
(* transaction of a deactivation keeps the account row locked meanwhile.    *)
(***************************************************************************)
EXTENDS FiniteSets

CONSTANTS
  Passwords, Tokens, Resets, Reqs,
  Ops,      \* what an instance exercises
  NoToken, NoReset

ASSUME NoTokenAssumption == NoToken \notin Tokens
ASSUME NoResetAssumption == NoReset \notin Resets
ASSUME PasswordsAssumption == Passwords # {}

VARIABLES
  active,    \* customer_account.is_active
  password,  \* the password of which password_hash is the hash
  token,     \* customer_refresh_token rows; fam is the root of the rotation chain
  prt,       \* password_reset_token rows
  req        \* requests in flight

vars == <<active, password, token, prt, req>>

Token == [status : {"free", "live", "expired", "revoked"}, fam : Tokens \cup {NoToken},
          from : Tokens \cup {NoToken}]
Request == [pc : {"idle", "issue", "rotate", "check", "write", "revoke", "revoking"},
            kind : {"login", "refresh", "reset", "change", "activate", "deactivate"},
            tok : Tokens \cup {NoToken}, prt : Resets \cup {NoReset},
            old : Passwords, new : Passwords,
            snap : SUBSET Tokens]

TypeOK ==
  /\ active \in BOOLEAN
  /\ password \in Passwords
  /\ token \in [Tokens -> Token]
  /\ prt \in [Resets -> {"free", "open", "expired", "consumed"}]
  /\ req \in [Reqs -> Request]

FreeToken == [status |-> "free", fam |-> NoToken, from |-> NoToken]
\* A request that needs neither password carries the current one.
Idle == [pc |-> "idle", kind |-> "login", tok |-> NoToken, prt |-> NoReset,
         old |-> CHOOSE w \in Passwords : TRUE, new |-> CHOOSE w \in Passwords : TRUE,
         snap |-> {}]

Unrevoked(t) == token[t].status \in {"live", "expired"}
UnrevokedTokens == {t \in Tokens : Unrevoked(t)}
RevokeAll(S) ==
  [t \in Tokens |-> IF t \in S /\ Unrevoked(t)
                    THEN [token[t] EXCEPT !.status = "revoked"] ELSE token[t]]
\* A deactivation has updated the account row and has not committed.
RowLocked == \E q \in Reqs : req[q].pc = "revoking" /\ req[q].kind = "deactivate"
Goto(r, m) == req' = [req EXCEPT ![r] = m]

Init ==
  /\ active = TRUE
  /\ password \in Passwords
  /\ token = [t \in Tokens |-> FreeToken]
  /\ prt = [p \in Resets |-> "free"]
  /\ req = [r \in Reqs |-> Idle]

-----------------------------------------------------------------------------
(* Sessions                                                                 *)

\* The password was right, and the account active, in the row as it was read.
Login(r) ==
  /\ "login" \in Ops
  /\ req[r].pc = "idle"
  /\ active
  /\ Goto(r, [Idle EXCEPT !.pc = "issue"])
  /\ UNCHANGED <<active, password, token, prt>>

\* issueSession
Issue(r, n) ==
  /\ req[r].pc = "issue"
  /\ token[n].status = "free"
  /\ token' = [token EXCEPT ![n] = [status |-> "live", fam |-> n, from |-> NoToken]]
  /\ Goto(r, Idle)
  /\ UNCHANGED <<active, password, prt>>

RefreshLookup(r, t) ==
  /\ "refresh" \in Ops
  /\ req[r].pc = "idle"
  /\ token[t].status = "live"
  /\ Goto(r, [Idle EXCEPT !.pc = "rotate", !.kind = "refresh", !.tok = t])
  /\ UNCHANGED <<active, password, token, prt>>

\* Mutant of Rotate: the old row is revoked whatever became of it.
RotateUnguarded(r, n) ==
  LET t == req[r].tok IN
  /\ req[r].pc = "rotate"
  /\ token[n].status = "free"
  /\ token' = [token EXCEPT ![t].status = "revoked",
                            ![n] = [status |-> "live", fam |-> token[t].fam, from |-> t]]
  /\ Goto(r, [req[r] EXCEPT !.pc = "check"])
  /\ UNCHANGED <<active, password, prt>>

\* One transaction: insert the successor, revoke the old row if unrevoked.
Rotate(r, n) ==
  LET t == req[r].tok IN
  /\ req[r].pc = "rotate"
  /\ Unrevoked(t)
  /\ token[n].status = "free"
  /\ token' = [token EXCEPT ![t].status = "revoked",
                            ![n] = [status |-> "live", fam |-> token[t].fam, from |-> t]]
  /\ Goto(r, [req[r] EXCEPT !.pc = "check"])
  /\ UNCHANGED <<active, password, prt>>

\* Mutant of RotateLost: the insert of the successor is not rolled back.
RotateLostKeepsRow(r) ==
  /\ req[r].pc = "rotate"
  /\ ~Unrevoked(req[r].tok)
  /\ \E n \in Tokens :
       /\ token[n].status = "free"
       /\ token' = [token EXCEPT ![n] = [status |-> "live", fam |-> token[req[r].tok].fam,
                                          from |-> req[r].tok]]
  /\ Goto(r, Idle)
  /\ UNCHANGED <<active, password, prt>>

\* Otherwise the insert is rolled back and the request refused.
RotateLost(r) ==
  /\ req[r].pc = "rotate"
  /\ ~Unrevoked(req[r].tok)
  /\ Goto(r, Idle)
  /\ UNCHANGED <<active, password, token, prt>>

\* The account is read after the rotation has committed; an inactive one is
\* refused, and the successor's raw token never leaves the server.
RefreshCheck(r) ==
  /\ req[r].pc = "check"
  /\ Goto(r, Idle)
  /\ UNCHANGED <<active, password, token, prt>>

\* logout: one UPDATE by token hash.
Logout(t) ==
  /\ "logout" \in Ops
  /\ token' = RevokeAll({t})
  /\ UNCHANGED <<active, password, prt, req>>

-----------------------------------------------------------------------------
(* Forgotten password                                                       *)

\* A FORGOT_PASSWORD code was verified (see PhoneVerification).
IssueReset(p) ==
  /\ prt[p] = "free"
  /\ prt' = [prt EXCEPT ![p] = "open"]
  /\ UNCHANGED <<active, password, token, req>>

\* consume reads the token outside the transaction that consumes it.
ResetLookup(r, p, w) ==
  /\ req[r].pc = "idle"
  /\ prt[p] = "open"
  /\ Goto(r, [Idle EXCEPT !.pc = "write", !.kind = "reset", !.prt = p, !.new = w])
  /\ UNCHANGED <<active, password, token, prt>>

\* The transaction: the token by its id, and the new hash.
ResetCommit(r) ==
  LET m == req[r] IN
  /\ m.pc = "write" /\ m.kind = "reset"
  /\ ~RowLocked
  /\ prt' = [prt EXCEPT ![m.prt] = "consumed"]
  /\ password' = m.new
  /\ Goto(r, [m EXCEPT !.pc = "revoke", !.snap = UnrevokedTokens])
  /\ UNCHANGED <<active, token>>

-----------------------------------------------------------------------------
(* Password change by a signed-in customer                                  *)

ChangeVerify(r, w) ==
  /\ "change" \in Ops
  /\ req[r].pc = "idle"
  /\ w # password
  /\ Goto(r, [Idle EXCEPT !.pc = "write", !.kind = "change", !.old = password, !.new = w])
  /\ UNCHANGED <<active, password, token, prt>>

\* updatePasswordHash, by id alone
ChangeWrite(r) ==
  LET m == req[r] IN
  /\ m.pc = "write" /\ m.kind = "change"
  /\ ~RowLocked
  /\ password' = m.new
  /\ Goto(r, [m EXCEPT !.pc = "revoke", !.snap = UnrevokedTokens])
  /\ UNCHANGED <<active, token, prt>>

-----------------------------------------------------------------------------
(* Staff                                                                    *)

\* setActive reads the row before its transaction; no change, no request.
SetActive(r, on) ==
  /\ "activate" \in Ops
  /\ req[r].pc = "idle"
  /\ active # on
  /\ Goto(r, [Idle EXCEPT !.pc = "write", !.kind = IF on THEN "activate" ELSE "deactivate"])
  /\ UNCHANGED <<active, password, token, prt>>

Activate(r) ==
  /\ req[r].pc = "write" /\ req[r].kind = "activate"
  /\ ~RowLocked
  /\ active' = TRUE
  /\ Goto(r, Idle)
  /\ UNCHANGED <<password, token, prt>>

\* The row is updated (and locked); revokeAllForCustomer starts.
Deactivate(r) ==
  /\ req[r].pc = "write" /\ req[r].kind = "deactivate"
  /\ ~RowLocked
  /\ Goto(r, [req[r] EXCEPT !.pc = "revoking", !.snap = UnrevokedTokens])
  /\ UNCHANGED <<active, password, token, prt>>

-----------------------------------------------------------------------------

\* revokeAllForCustomer: the statement reads its rows ...
RevokeScan(r) ==
  /\ req[r].pc = "revoke"
  /\ Goto(r, [req[r] EXCEPT !.pc = "revoking", !.snap = UnrevokedTokens])
  /\ UNCHANGED <<active, password, token, prt>>

\* ... and writes them.  A reset then signs the device in; a change does not.
RevokeWrite(r) ==
  LET m == req[r] IN
  /\ m.pc = "revoking"
  /\ token' = RevokeAll(m.snap)
  /\ active' = (active /\ m.kind # "deactivate")
  /\ Goto(r, IF m.kind = "reset" THEN [Idle EXCEPT !.pc = "issue", !.kind = "reset"]
             ELSE Idle)
  /\ UNCHANGED <<password, prt>>

\* The process dies, or a statement fails, between two awaits.
Crash(r) ==
  /\ "crash" \in Ops
  /\ req[r].pc # "idle"
  /\ Goto(r, Idle)
  /\ UNCHANGED <<active, password, token, prt>>

TokenExpires(t) ==
  /\ "expire" \in Ops
  /\ token[t].status = "live"
  /\ token' = [token EXCEPT ![t].status = "expired"]
  /\ UNCHANGED <<active, password, prt, req>>

ResetExpires(p) ==
  /\ "expire" \in Ops
  /\ prt[p] = "open"
  /\ prt' = [prt EXCEPT ![p] = "expired"]
  /\ UNCHANGED <<active, password, token, req>>

Step(r) ==
  \/ \E n \in Tokens : Issue(r, n) \/ Rotate(r, n)
  \/ RotateLost(r) \/ RefreshCheck(r) \/ Activate(r) \/ Deactivate(r) \/ ResetCommit(r) \/ ChangeWrite(r)
  \/ RevokeScan(r) \/ RevokeWrite(r) \/ Crash(r)

Arrive(r) ==
  \/ Login(r)
  \/ \E t \in Tokens : RefreshLookup(r, t)
  \/ \E p \in Resets, w \in Passwords : ResetLookup(r, p, w)
  \/ \E w \in Passwords : ChangeVerify(r, w)
  \/ \E on \in BOOLEAN : SetActive(r, on)

Next ==
  \/ \E r \in Reqs : Arrive(r) \/ Step(r)
  \/ \E t \in Tokens : Logout(t) \/ TokenExpires(t)
  \/ \E p \in Resets : IssueReset(p) \/ ResetExpires(p)

Spec == Init /\ [][Next]_vars

-----------------------------------------------------------------------------
(* Properties                                                               *)

\* Refreshes racing each other, a sign-out and a password change never fork a
\* device's session: a rotation chain has one unrevoked token at most.
RotationIsLinear ==
  \A s, t \in Tokens : Unrevoked(s) /\ Unrevoked(t) /\ token[s].fam = token[t].fam => s = t

\* A rotation chain is a session, named by its first token.
SessionStatus(s) ==
  IF token[s].fam # s THEN "absent"
  ELSE IF \E t \in Tokens : token[t].fam = s /\ Unrevoked(t) THEN "open" ELSE "ended"
Family == INSTANCE SessionFamily
            WITH Sessions <- Tokens, session <- [s \in Tokens |-> SessionStatus(s)]

\* Seen as sessions, the refresh tokens implement SessionFamily: what a sign-out
\* or a password change has ended is never continued by a refresh in flight.
SessionsNeverResume == Family!Spec

\* The rotation chains are well formed, and so are the requests in flight.
TokensOK ==
  /\ \A t \in Tokens :
       IF token[t].status = "free" THEN token[t] = FreeToken
       ELSE token[t].fam \in Tokens /\ token[token[t].fam].fam = token[t].fam
  /\ \A t \in Tokens : token[t].from # NoToken =>
       LET old == token[token[t].from] IN old.status = "revoked" /\ old.fam = token[t].fam
RequestOK(m) ==
  /\ m.pc = "rotate" => m.tok \in Tokens /\ token[m.tok].status # "free"
  /\ m.pc = "write" /\ m.kind = "reset" => m.prt \in Resets

\* Inductive strengthening of the two: however refreshes, sign-outs and new
\* passwords race, a token has one live successor at most and keeps its chain.
IInv ==
  /\ TypeOK /\ TokensOK /\ RotationIsLinear
  /\ \A r \in Reqs : RequestOK(req[r])

\* FR-024: a reset token is single-use.  Two requests that both read it
\* unconsumed both set a password.
ResetTokenIsSingleUse ==
  [][\A r \in Reqs : ResetCommit(r) => prt[req[r].prt] # "consumed"]_vars

\* FR-026: a password is replaced only by one who knows it.  A change verified
\* against the old password overwrites the one a reset has set meanwhile.
ChangeProvesPassword ==
  [][\A r \in Reqs : ChangeWrite(r) => password = req[r].old]_vars

\* FR-026a: the sessions open when the password was written have ended when the
\* request has: a rotation between the scan and the write keeps one alive.
OtherSessionsEnd ==
  [][\A r \in Reqs :
       /\ req[r].kind # "deactivate"
       /\ req[r].pc \in {"revoke", "revoking"} /\ req'[r].pc \notin {"revoke", "revoking"} =>
         \A s \in req[r].snap, t \in Tokens :
           token[t].fam = token[s].fam => ~Unrevoked(t)']_vars

\* "Deactivating revokes the customer's active refresh tokens (kills live
\* sessions)": a refresh that rotates between the scan and the commit keeps its
\* session, for the day the account is activated again.
DeactivationKillsSessions ==
  [][\A r \in Reqs : req[r].kind = "deactivate" /\ RevokeWrite(r) =>
       \A s \in req[r].snap, t \in Tokens : token[t].fam = token[s].fam => ~Unrevoked(t)']_vars

\* FR-026a: the device that changes its password stays signed in.
ChangeKeepsDeviceSignedIn ==
  [][\A r \in Reqs : req[r].kind = "change" /\ RevokeWrite(r) /\ UnrevokedTokens # {} =>
       req'[r].pc = "issue" \/ \E t \in Tokens : Unrevoked(t)']_vars
=============================================================================
