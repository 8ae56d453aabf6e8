------------------------ MODULE StaffSessions_proofs ------------------------
(***************************************************************************)
(* Proofs about StaffSessions, for any number of accounts, tokens and       *)
(* concurrent requests.                                                     *)
(***************************************************************************)
EXTENDS StaffSessions, TLAPS

-----------------------------------------------------------------------------
(* Lemmas about the operators of the model                                  *)

\* Dooming transactions changes nothing of a request but its touched flag.
LEMMA AdvanceOther ==
  ASSUME req \in [Reqs -> Request], NEW r \in Reqs, NEW m \in Request, NEW D,
         Advance(r, m, D)
  PROVE  /\ req' \in [Reqs -> Request]
         /\ req'[r] = m
         /\ \A q \in Reqs \ {r} :
              req'[q] = IF q \in D THEN [req[q] EXCEPT !.touched = TRUE] ELSE req[q]
<1> DEFINE next(q) == IF q = r THEN m
                      ELSE IF q \in D THEN [req[q] EXCEPT !.touched = TRUE] ELSE req[q]
<1>1. ASSUME NEW q \in Reqs PROVE next(q) \in Request
  <2>1. [req[q] EXCEPT !.touched = TRUE] \in Request
    BY DEF Request
  <2> QED BY <2>1
<1>2. req' = [q \in Reqs |-> next(q)]
  BY DEF Advance, Doom
<1>3. \A q \in Reqs : req'[q] = next(q)
  BY <1>2
<1>4. req' \in [Reqs -> Request]
  <2> HIDE DEF next
  <2> QED BY <1>1, <1>2
<1> QED BY <1>3, <1>4

\* The state of a request slot between two calls is well typed.
LEMMA IdleType == Idle \in Request
BY DEF Idle, Request, NoPatch, Patch, Roles, Keep

\* Taking a snapshot keeps a request well typed.
LEMMA SnapshotType ==
  ASSUME TypeOK, NEW m \in Request
  PROVE  Snapshot(m) \in Request
BY DEF TypeOK, Snapshot, Request, SuperAdmins, UnrevokedOf

\* Revoking any set of tokens keeps the chains well formed.
LEMMA RevokeAllOK ==
  ASSUME TypeOK, TokensOK, NEW S, token' = RevokeAll(S),
         \A u \in Users : Exists(u) => Exists(u)'
  PROVE  /\ token' \in [Tokens -> Token]
         /\ TokensOK'
         /\ \A t \in Tokens : /\ token'[t].user = token[t].user
                              /\ token[t].status # "free" => token'[t].status # "free"
<1>1. token' \in [Tokens -> Token]
  BY DEF RevokeAll, TypeOK, Token
<1>2. \A t \in Tokens :
        /\ token'[t].user = token[t].user /\ token'[t].from = token[t].from
        /\ token'[t].fam = token[t].fam
        /\ token[t].status = "free" <=> token'[t].status = "free"
        /\ token[t].status = "free" => token'[t] = token[t]
        /\ token[t].status = "revoked" => token'[t].status = "revoked"
        /\ Unrevoked(t)' => Unrevoked(t)
  BY DEF RevokeAll, TypeOK, Token, Unrevoked
<1>3. TokensOK'
  <2>1. \A t \in Tokens : token[t].from \in Tokens \cup {NoToken}
    BY DEF TypeOK, Token
  <2> QED BY <1>1, <1>2, <2>1 DEF TokensOK, RotationIsLinear, FreeToken
<1> QED BY <1>1, <1>2, <1>3

-----------------------------------------------------------------------------
(* The inductive invariant                                                  *)

\* The bootstrap state satisfies the inductive invariant.
LEMMA InitIInv == Init => IInv
<1> SUFFICES ASSUME Init PROVE IInv
  OBVIOUS
<1>1. account \in [Users -> Account]
  <2>1. \A h \in Hashes : /\ Absent(h) \in Account
                          /\ NewAccount("super_admin", h, FALSE) \in Account
                          /\ NewAccount("staff", h, FALSE) \in Account
    BY DEF Account, Absent, NewAccount, Roles
  <2> QED BY <2>1 DEF Init
<1>2. token \in [Tokens -> Token] /\ TokensOK
  BY DEF Init, Token, FreeToken, TokensOK, RotationIsLinear, Unrevoked
<1>5. \A u \in Users : account[u].isActive => Exists(u)
  BY DEF Init, Exists, Absent, NewAccount
<1>3. access \in SUBSET Claims /\ req \in [Reqs -> Request]
  BY IdleType DEF Init
<1>4. \A r \in Reqs : RequestOK(req[r]) /\ SeenOK(req[r])
  BY DEF Init, RequestOK, SeenOK, Idle
<1> QED BY <1>1, <1>2, <1>3, <1>4, <1>5 DEF IInv, TypeOK, Init, SuperAdminFloor

\* A step that moves one request, dooms transactions and leaves the rest alone.
LEMMA Move ==
  ASSUME IInv, NEW r \in Reqs, NEW m \in Request, NEW D,
         Advance(r, m, D), UNCHANGED <<account, token, access>>,
         RequestOK(m), SeenOK(m)
  PROVE  IInv'
<1>1. /\ req' \in [Reqs -> Request]
      /\ req'[r] = m
      /\ \A q \in Reqs \ {r} :
           req'[q] = IF q \in D THEN [req[q] EXCEPT !.touched = TRUE] ELSE req[q]
  BY AdvanceOther DEF IInv, TypeOK
<1>2. TypeOK' /\ TokensOK' /\ SuperAdminFloor'
  BY <1>1 DEF IInv, TypeOK, TokensOK, RotationIsLinear, Unrevoked, SuperAdminFloor, SuperAdmins, Exists
<1>4. (\A u \in Users : account[u].isActive => Exists(u))'
  BY DEF IInv, Exists
<1>3. ASSUME NEW q \in Reqs PROVE RequestOK(req[q])' /\ SeenOK(req[q])'
  <2>1. CASE q = r
    BY <1>1, <2>1 DEF RequestOK, SeenOK, SuperAdmins, MovesFloor, Counted, Exists, Unrevoked
  <2>2. CASE q # r
    <3>1. RequestOK(req[q]) /\ SeenOK(req[q]) /\ req[q] \in Request
      BY DEF IInv, TypeOK
    <3>2. CASE q \in D
      BY <1>1, <2>2, <3>1, <3>2 DEF RequestOK, SeenOK, Request, Exists
    <3>3. CASE q \notin D
      <4>1. req'[q] = req[q]
        BY <1>1, <2>2, <3>3
      <4> QED BY <3>1, <4>1 DEF RequestOK, SeenOK, SuperAdmins, MovesFloor, Counted, Exists,
                                Unrevoked
    <3> QED BY <3>2, <3>3
  <2> QED BY <2>1, <2>2
<1> QED BY <1>2, <1>3, <1>4 DEF IInv

\* A request of the next state is fine if it was fine and kept its fields.
LEMMA OthersFine ==
  ASSUME IInv, NEW r \in Reqs, NEW m \in Request, NEW D, Advance(r, m, D),
         \A u \in Users : Exists(u) => Exists(u)',
         \A t \in Tokens : token[t].status # "free" =>
           token'[t].user = token[t].user /\ token'[t].status # "free",
         \A q \in Reqs \ {r} :
           SeenOK(req[q]) /\ RequestOK(req[q]) /\ q \notin D =>
             (req[q].pc = "tx" /\ ~req[q].touched =>
                /\ account'[req[q].user] = account[req[q].user]
                /\ MovesFloor(req[q]) => SuperAdmins(account') = SuperAdmins(account)
                /\ \A t \in req[q].snap : token'[t].status \in {"live", "expired"})
  PROVE  \A q \in Reqs \ {r} : RequestOK(req[q])' /\ SeenOK(req[q])'
<1>1. \A q \in Reqs \ {r} :
           req'[q] = IF q \in D THEN [req[q] EXCEPT !.touched = TRUE] ELSE req[q]
  BY AdvanceOther DEF IInv, TypeOK
<1> TAKE q \in Reqs \ {r}
<1>2. RequestOK(req[q]) /\ SeenOK(req[q]) /\ req[q] \in Request
  BY DEF IInv, TypeOK
<1>3. RequestOK(req[q])'
  <2>1. /\ req'[q].pc = req[q].pc /\ req'[q].user = req[q].user
        /\ req'[q].tok = req[q].tok /\ req'[q].snap = req[q].snap
    BY <1>1, <1>2 DEF Request
  <2>2. req[q].snap \subseteq Tokens
    BY <1>2 DEF Request
  <2> QED BY <1>2, <2>1, <2>2 DEF RequestOK, Exists
<1>4. SeenOK(req[q])'
  <2>1. CASE q \in D
    BY <1>1, <1>2, <2>1 DEF SeenOK, Request
  <2>2. CASE q \notin D
    <3>1. req'[q] = req[q]
      BY <1>1, <2>2
    <3>2. CASE req[q].pc = "tx" /\ ~req[q].touched
      <4>1. /\ account'[req[q].user] = account[req[q].user]
            /\ MovesFloor(req[q]) => SuperAdmins(account') = SuperAdmins(account)
            /\ \A t \in req[q].snap : token'[t].status \in {"live", "expired"}
            /\ req[q].user \in Users
        BY <1>2, <2>2, <3>2 DEF RequestOK
      <4>2. req[q].user \in SuperAdmins(account)' <=> req[q].user \in SuperAdmins(account)
        BY <4>1 DEF SuperAdmins
      <4>3. MovesFloor(req[q])' <=> MovesFloor(req[q])
        BY <3>1, <4>1 DEF MovesFloor, Counted
      <4>4. SuperAdmins(account)' = SuperAdmins(account')
        BY DEF SuperAdmins
      <4> QED BY <1>2, <3>1, <3>2, <4>1, <4>2, <4>3, <4>4 DEF SeenOK, Unrevoked
    <3>3. CASE ~(req[q].pc = "tx" /\ ~req[q].touched)
      BY <3>1, <3>3 DEF SeenOK
    <3> QED BY <3>2, <3>3
  <2> QED BY <2>1, <2>2
<1> QED BY <1>3, <1>4

\* A request that arrives reads rows that exist, and writes none.
LEMMA StepArrive ==
  ASSUME IInv, NEW r \in Reqs, Arrive(r)
  PROVE  IInv'
<1>0. TypeOK /\ TokensOK
  BY DEF IInv
<1>1. CASE \E u \in Users : LoginRead(r, u)
  <2> PICK u \in Users : LoginRead(r, u)
    BY <1>1
  <2> DEFINE m == [Idle EXCEPT !.pc = "stamp", !.user = u,
                               !.role = account[u].role, !.mcp = account[u].mcp]
  <2>1. m \in Request
    BY <1>0, IdleType DEF LoginRead, Exists, Request, Account, TypeOK
  <2>2. RequestOK(m) /\ SeenOK(m)
    BY DEF RequestOK, SeenOK, Idle, LoginRead
  <2> QED BY <2>1, <2>2, Move DEF LoginRead
<1>2. CASE \E t \in Tokens : RefreshLookup(r, t)
  <2> PICK t \in Tokens : RefreshLookup(r, t)
    BY <1>2
  <2> DEFINE m == [Idle EXCEPT !.pc = "rotate", !.user = token[t].user, !.tok = t]
  <2>1. m \in Request
    BY <1>0, IdleType DEF Request, Token, TypeOK
  <2>2. RequestOK(m) /\ SeenOK(m)
    BY <1>0 DEF RequestOK, SeenOK, Idle, RefreshLookup, TokensOK
  <2> QED BY <2>1, <2>2, Move DEF RefreshLookup
<1>3. CASE \E t \in Tokens : LogoutLookup(r, t)
  <2> PICK t \in Tokens : LogoutLookup(r, t)
    BY <1>3
  <2> DEFINE m == [Idle EXCEPT !.pc = "revoke", !.user = token[t].user, !.tok = t]
  <2>1. m \in Request
    BY <1>0, IdleType DEF Request, Token, TypeOK
  <2>2. RequestOK(m) /\ SeenOK(m)
    BY <1>0 DEF RequestOK, SeenOK, Idle, LogoutLookup, TokensOK, Unrevoked
  <2> QED BY <2>1, <2>2, Move DEF LogoutLookup
<1>4. CASE \E a, u \in Users : ResetBegin(r, a, u)
  <2> PICK a \in Users, u \in Users : ResetBegin(r, a, u)
    BY <1>4
  <2> DEFINE m == [Idle EXCEPT !.pc = "reset", !.user = u]
  <2>1. m \in Request /\ RequestOK(m) /\ SeenOK(m)
    BY IdleType DEF Request, RequestOK, SeenOK, Idle, ResetBegin
  <2> QED BY <2>1, Move DEF ResetBegin
<1>5. CASE \E a, u \in Users, p \in Patches : UpdateBegin(r, a, u, p)
  <2> PICK a \in Users, u \in Users, p \in Patches : UpdateBegin(r, a, u, p)
    BY <1>5
  <2> DEFINE m == [Idle EXCEPT !.user = u, !.patch = p]
  <2>1. m \in Request /\ m.user = u
    BY IdleType, PatchesAssumption DEF Request, Idle
  <2>2. Snapshot(m) \in Request
    BY <1>0, <2>1, SnapshotType
  <2>3. RequestOK(Snapshot(m)) /\ SeenOK(Snapshot(m))
    BY <1>0, <2>1 DEF RequestOK, SeenOK, Snapshot, Request, UpdateBegin, UnrevokedOf, Unrevoked
  <2> QED BY <2>2, <2>3, Move DEF UpdateBegin
<1>6. CASE \E c \in access : ChangeBegin(r, c)
  <2> PICK c \in access : ChangeBegin(r, c)
    BY <1>6
  <2> DEFINE m == [Idle EXCEPT !.pc = "change", !.user = c.user, !.mcp = c.mcp]
  <2>0. c \in Claims
    BY <1>0 DEF TypeOK
  <2>1. Exists(c.user)
    BY <2>0 DEF IInv, ChangeBegin, Claims
  <2>2. m \in Request /\ RequestOK(m) /\ SeenOK(m)
    BY <2>0, <2>1, IdleType DEF Request, RequestOK, SeenOK, Idle, Claims
  <2> QED BY <2>2, Move DEF ChangeBegin
<1>7. CASE \E a, u \in Users, p \in Patches : RenameBegin(r, a, u, p)
  <2> PICK a \in Users, u \in Users, p \in Patches : RenameBegin(r, a, u, p)
    BY <1>7
  <2>1. Renaming(u) \in Request /\ RequestOK(Renaming(u)) /\ SeenOK(Renaming(u))
    BY IdleType DEF Request, RequestOK, SeenOK, Idle, Renaming, RenameBegin
  <2> QED BY <2>1, Move DEF RenameBegin
<1> QED BY <1>1, <1>2, <1>3, <1>4, <1>5, <1>6, <1>7 DEF Arrive

\* The other steps that write no table.
LEMMA StepMoves ==
  ASSUME IInv, NEW r \in Reqs,
         \/ LoginStamp(r) \/ RotateLost(r) \/ UpdateRefused(r) \/ UpdateAborted(r)
         \/ PasswordScan(r) \/ ChangeFresh(r) \/ Rename(r) \/ Crash(r)
  PROVE  IInv'
<1>0. /\ TypeOK
      /\ req[r] \in Request /\ RequestOK(req[r]) /\ SeenOK(req[r])
      /\ Idle \in Request /\ RequestOK(Idle) /\ SeenOK(Idle)
  BY IdleType DEF IInv, TypeOK, RequestOK, SeenOK, Idle
<1>1. CASE LoginStamp(r)
  <2> DEFINE m == [req[r] EXCEPT !.pc = "issue"]
  <2>1. m \in Request /\ RequestOK(m) /\ SeenOK(m)
    BY <1>0, <1>1 DEF Request, RequestOK, SeenOK, LoginStamp
  <2> QED BY <1>1, <2>1, Move DEF LoginStamp
<1>2. CASE RotateLost(r)
  BY <1>0, <1>2, Move DEF RotateLost
<1>3. CASE UpdateRefused(r)
  BY <1>0, <1>3, Move DEF UpdateRefused
<1>4. CASE UpdateAborted(r)
  <2> DEFINE m == [req[r] EXCEPT !.tries = 2]
  <2>1. m \in Request /\ m.user \in Users /\ Exists(m.user)
    BY <1>0, <1>4 DEF Request, RequestOK, UpdateAborted
  <2>2. Snapshot(m) \in Request
    BY <1>0, <2>1, SnapshotType
  <2>3. RequestOK(Snapshot(m)) /\ SeenOK(Snapshot(m))
    BY <1>0, <2>1 DEF RequestOK, SeenOK, Snapshot, Request, UnrevokedOf, Unrevoked
  <2> QED BY <1>0, <1>4, <2>2, <2>3, Move DEF UpdateAborted
<1>5. CASE PasswordScan(r)
  <2> DEFINE m == [req[r] EXCEPT !.pc = IF req[r].pc = "reset" THEN "resetting" ELSE "changing",
                                 !.snap = UnrevokedOf(req[r].user)]
  <2>1. m \in Request
    BY <1>0 DEF Request, UnrevokedOf
  <2>2. RequestOK(m) /\ SeenOK(m)
    BY <1>0, <1>5 DEF Request, RequestOK, SeenOK, PasswordScan, UnrevokedOf, Unrevoked
  <2> QED BY <1>5, <2>1, <2>2, Move DEF PasswordScan
<1>6. CASE ChangeFresh(r)
  <2> DEFINE u == req[r].user
             m == [req[r] EXCEPT !.pc = "issue", !.role = account[u].role, !.mcp = account[u].mcp]
  <2>1. u \in Users /\ Exists(u)
    BY <1>0, <1>6 DEF RequestOK, ChangeFresh
  <2>2. account[u].role \in Roles /\ account[u].mcp \in BOOLEAN
    BY <1>0, <2>1 DEF TypeOK, Account, Exists
  <2>3. m \in Request /\ RequestOK(m) /\ SeenOK(m)
    BY <1>0, <2>1, <2>2 DEF Request, RequestOK, SeenOK
  <2> QED BY <1>6, <2>3, Move DEF ChangeFresh
<1>7. CASE Rename(r) \/ Crash(r)
  BY <1>0, <1>7, Move DEF Rename, Crash
<1> QED BY <1>1, <1>2, <1>3, <1>4, <1>5, <1>6, <1>7

\* A freshly issued token is the root of a session of its own.
LEMMA StepIssue ==
  ASSUME IInv, NEW r \in Reqs, NEW n \in Tokens, Issue(r, n)
  PROVE  IInv'
<1>1. /\ TypeOK /\ TokensOK
      /\ req[r] \in Request /\ req[r].user \in Users /\ Exists(req[r].user)
      /\ req[r].role \in Roles /\ req[r].mcp \in BOOLEAN
  BY DEF IInv, TypeOK, RequestOK, Issue, Request
<1>2. [status |-> "live", user |-> req[r].user, from |-> NoToken, fam |-> n] \in Token
  BY <1>1 DEF Token
<1>3. token' \in [Tokens -> Token]
  BY <1>1, <1>2 DEF Issue, TypeOK
<1>4. token'[n] = [status |-> "live", user |-> req[r].user, from |-> NoToken, fam |-> n]
      /\ \A t \in Tokens \ {n} : token'[t] = token[t]
  BY <1>1 DEF Issue, TypeOK
<1>5. \A t \in Tokens : token[t].fam # n /\ token[t].from # n
  <2>1. token[n] = FreeToken
    BY <1>1 DEF TokensOK, Issue
  <2>2. token[n].fam # n /\ token[n].status # "revoked"
    BY <2>1, NoTokenAssumption DEF FreeToken
  <2> TAKE t \in Tokens
  <2>3. CASE token[t].status = "free"
    BY <1>1, <2>3, NoTokenAssumption DEF TokensOK, FreeToken
  <2>4. CASE token[t].status # "free"
    BY <1>1, <2>2, <2>4, NoTokenAssumption DEF TokensOK
  <2> QED BY <2>3, <2>4
<1>6. TokensOK'
  <2>1. \A t \in Tokens : token[t].from \in Tokens \cup {NoToken}
    BY <1>1 DEF TypeOK, Token
  <2>2. Unrevoked(n)' /\ \A t \in Tokens \ {n} : Unrevoked(t)' <=> Unrevoked(t)
    BY <1>4 DEF Unrevoked
  <2>3. account' = account
    BY DEF Issue
  <2>4. RotationIsLinear'
    BY <1>1, <1>4, <1>5, <2>1, <2>2 DEF TokensOK, RotationIsLinear
  <2>5. \A t \in Tokens :
          IF token'[t].status = "free" THEN token'[t] = FreeToken
          ELSE /\ token'[t].user \in Users /\ account'[token'[t].user].role # "none" /\ token'[t].fam \in Tokens
               /\ token'[token'[t].fam].fam = token'[t].fam
    BY <1>1, <1>4, <1>5, <2>3 DEF TokensOK, Exists
  <2>6. \A t \in Tokens : token'[t].from # NoToken =>
          LET old == token'[token'[t].from] IN
          old.status = "revoked" /\ old.fam = token'[t].fam /\ old.user = token'[t].user
    BY <1>1, <1>4, <1>5, <2>1 DEF TokensOK
  <2> QED BY <2>3, <2>4, <2>5, <2>6 DEF TokensOK, Exists
<1>7. access' \in SUBSET Claims
  BY <1>1 DEF Issue, TypeOK, Claims, Claim
<1>8. /\ req' \in [Reqs -> Request] /\ req'[r] = Idle
  BY <1>1, IdleType, AdvanceOther DEF Issue, TypeOK
<1>9. \A q \in Reqs \ {r} : RequestOK(req[q])' /\ SeenOK(req[q])'
  <2>1. \A t \in Tokens : token[t].status # "free" =>
          token'[t].user = token[t].user /\ token'[t].status # "free"
    BY <1>4 DEF Issue
  <2>2. \A u \in Users : Exists(u) => Exists(u)'
    BY DEF Exists, Issue
  <2>3. \A q \in Reqs : \A t \in req[q].snap : Unrevoked(t) => token'[t].status \in {"live", "expired"}
    BY <1>4 DEF Issue, Unrevoked, IInv, TypeOK, Request
  <2> QED BY <2>1, <2>2, <2>3, IdleType, OthersFine DEF Issue, SeenOK
<1>10. RequestOK(req[r])' /\ SeenOK(req[r])'
  BY <1>8 DEF RequestOK, SeenOK, Idle
<1>11. SuperAdminFloor' /\ (\A u \in Users : account[u].isActive => Exists(u))'
  BY DEF IInv, SuperAdminFloor, SuperAdmins, Exists, Issue
<1> QED BY <1>1, <1>3, <1>6, <1>7, <1>8, <1>9, <1>10, <1>11 DEF IInv, TypeOK, Issue

\* Only one of two rotations of a token finds it unrevoked.
LEMMA StepRotate ==
  ASSUME IInv, NEW r \in Reqs, NEW n \in Tokens, Rotate(r, n)
  PROVE  IInv'
<1> PICK t : t = req[r].tok
  OBVIOUS
<1> DEFINE m == [req[r] EXCEPT !.pc = "check"]
           new == [status |-> "live", user |-> req[r].user, from |-> t, fam |-> token[t].fam]
<1>1. /\ TypeOK /\ TokensOK
      /\ req[r] \in Request /\ req[r].user \in Users /\ Exists(req[r].user)
      /\ t \in Tokens /\ token[t].status # "free" /\ token[t].user = req[r].user
      /\ token[t].fam \in Tokens
  BY DEF IInv, TypeOK, RequestOK, Rotate, TokensOK
<1>2. new \in Token /\ n # t
  BY <1>1 DEF Token, Rotate
<1>3. token' = [token EXCEPT ![t].status = "revoked", ![n] = new]
  BY DEF Rotate
<1>4. /\ token'[n] = new
      /\ \A s \in Tokens \ {n, t} : token'[s] = token[s]
  BY <1>1, <1>2, <1>3 DEF TypeOK
<1>5. token' \in [Tokens -> Token]
  <2>1. [token[t] EXCEPT !.status = "revoked"] \in Token
    BY <1>1 DEF TypeOK, Token
  <2> HIDE DEF new
  <2> QED BY <1>1, <1>2, <1>3, <2>1 DEF TypeOK
<1>6. /\ token'[t].fam = token[t].fam /\ token'[t].from = token[t].from
      /\ token'[t].user = token[t].user /\ token'[t].status = "revoked"
  BY <1>1, <1>2, <1>3 DEF TypeOK, Token
<1>7. \A s \in Tokens : token[s].fam # n /\ token[s].from # n /\ token[s].from # t
  <2>1. token[n] = FreeToken
    BY <1>1 DEF TokensOK, Rotate
  <2>2. token[n].fam # n /\ token[n].status # "revoked"
    BY <2>1, NoTokenAssumption DEF FreeToken
  <2>3. token[t].status # "revoked"
    BY DEF Rotate, Unrevoked
  <2> TAKE s \in Tokens
  <2>4. CASE token[s].status = "free"
    BY <1>1, <2>4, NoTokenAssumption DEF TokensOK, FreeToken
  <2>5. CASE token[s].status # "free"
    BY <1>1, <2>2, <2>3, <2>5, NoTokenAssumption DEF TokensOK
  <2> QED BY <2>4, <2>5
<1>8. TokensOK'
  <2>1. \A s \in Tokens : token[s].from \in Tokens \cup {NoToken}
    BY <1>1 DEF TypeOK, Token
  <2>2. /\ Unrevoked(t) /\ token'[t].status \notin {"live", "expired"}
        /\ \A s \in Tokens \ {n, t} : Unrevoked(s)' <=> Unrevoked(s)
    <3>1. Unrevoked(t)
      BY DEF Rotate
    <3> QED BY <1>4, <1>6, <3>1 DEF Unrevoked
  <2>3. account' = account
    BY DEF Rotate
  <2>4. \A s \in Tokens \ {n} : token'[s].fam = token[s].fam /\ token'[s].from = token[s].from
    BY <1>4, <1>6
  <2>5. RotationIsLinear'
    <3>1. \A s, v \in Tokens :
            Unrevoked(s)' /\ Unrevoked(v)' /\ token'[s].fam = token'[v].fam => s = v
      <4> SUFFICES ASSUME NEW s \in Tokens, NEW v \in Tokens \ {s},
                          Unrevoked(s)', Unrevoked(v)', token'[s].fam = token'[v].fam
                   PROVE  FALSE
        BY Zenon
      <4>1. s # t /\ v # t
        BY <2>2 DEF Unrevoked
      <4>2. \A x, y \in Tokens :
              Unrevoked(x) /\ Unrevoked(y) /\ token[x].fam = token[y].fam => x = y
        BY <1>1 DEF TokensOK, RotationIsLinear
      <4>3. CASE s = n
        BY <1>1, <1>4, <2>2, <2>4, <4>1, <4>2, <4>3
      <4>4. CASE v = n
        BY <1>1, <1>4, <2>2, <2>4, <4>1, <4>2, <4>4
      <4>5. CASE s # n /\ v # n
        BY <2>2, <2>4, <4>1, <4>2, <4>5
      <4> QED BY <4>3, <4>4, <4>5
    <3>2. \A s, v \in Tokens :
            token'[s].from = token'[v].from /\ token'[s].from # NoToken => s = v
      BY <1>1, <1>4, <1>7, <2>4 DEF TokensOK, RotationIsLinear
    <3> QED BY <3>1, <3>2 DEF RotationIsLinear
  <2>6. \A s \in Tokens :
          IF token'[s].status = "free" THEN token'[s] = FreeToken
          ELSE /\ token'[s].user \in Users /\ account'[token'[s].user].role # "none" /\ token'[s].fam \in Tokens
               /\ token'[token'[s].fam].fam = token'[s].fam
    <3> TAKE s \in Tokens
    <3>1. token[s].status # "free" =>
            /\ token[s].user \in Users /\ token[s].fam \in Tokens \ {n}
            /\ account[token[s].user].role # "none"
            /\ token[token[s].fam].fam = token[s].fam
      BY <1>1, <1>7 DEF TokensOK, Exists
    <3>2. token[t].status # "free" /\ token[t].fam \in Tokens \ {n}
          /\ token[token[t].fam].fam = token[t].fam
      BY <1>1, <1>7 DEF TokensOK
    <3>3. \A v \in Tokens \ {n} : token'[v].fam = token[v].fam
      BY <1>4, <1>6
    <3>4. CASE s = n
      BY <1>1, <1>4, <2>3, <3>2, <3>3, <3>4 DEF Exists
    <3>5. CASE s = t
      <4>1. /\ token'[s].user = req[r].user /\ token'[s].fam = token[t].fam
            /\ token'[s].status = "revoked" /\ account'[req[r].user].role # "none"
        BY <1>1, <1>6, <2>3, <3>5 DEF Exists
      <4> QED BY <1>1, <3>2, <3>3, <4>1
    <3>6. CASE s \notin {n, t}
      <4>1. CASE token[s].status = "free"
        BY <1>1, <1>4, <3>6, <4>1 DEF TokensOK
      <4>2. CASE token[s].status # "free"
        BY <1>1, <1>4, <2>3, <3>1, <3>3, <3>6, <4>2
      <4> QED BY <4>1, <4>2
    <3> QED BY <3>4, <3>5, <3>6
  <2>7. \A s \in Tokens : token'[s].from # NoToken =>
          LET old == token'[token'[s].from] IN
          old.status = "revoked" /\ old.fam = token'[s].fam /\ old.user = token'[s].user
    <3> TAKE s \in Tokens
    <3>1. CASE s = n
      <4>1. /\ token'[s].from = t /\ token'[s].fam = token[t].fam
            /\ token'[s].user = token[t].user
        BY <1>1, <1>4, <3>1
      <4> QED BY <1>6, <4>1
    <3>2. CASE s # n
      <4>1. token'[s].from = token[s].from /\ token'[s].fam = token[s].fam
            /\ token'[s].user = token[s].user
        BY <1>4, <1>6, <3>2
      <4>2. token[s].from # NoToken => token'[token[s].from] = token[token[s].from]
        BY <1>4, <1>7, <2>1
      <4>3. token[s].from # NoToken =>
              LET old == token[token[s].from] IN
              old.status = "revoked" /\ old.fam = token[s].fam /\ old.user = token[s].user
        BY <1>1 DEF TokensOK
      <4> QED BY <4>1, <4>2, <4>3
    <3> QED BY <3>1, <3>2
  <2> QED BY <2>3, <2>5, <2>6, <2>7 DEF TokensOK, Exists
<1>9. m \in Request
  BY <1>1 DEF Request
<1>10. /\ req' \in [Reqs -> Request] /\ req'[r] = m
  BY <1>1, <1>9, AdvanceOther DEF Rotate, TypeOK
<1>11. \A q \in Reqs \ {r} : RequestOK(req[q])' /\ SeenOK(req[q])'
  <2>1. \A s \in Tokens : token[s].status # "free" =>
          token'[s].user = token[s].user /\ token'[s].status # "free"
    BY <1>4, <1>6 DEF Rotate
  <2>2. \A u \in Users : Exists(u) => Exists(u)'
    BY DEF Exists, Rotate
  <2>3. \A q \in Reqs : \A s \in req[q].snap :
          Unrevoked(s) /\ req[q].pc = "tx" /\ q \notin TxOnToken(t)
            => token'[s].status \in {"live", "expired"}
    BY <1>1, <1>4 DEF Unrevoked, IInv, TypeOK, Request, TxOnToken, InTx
  <2> QED BY <1>9, <2>1, <2>2, <2>3, OthersFine DEF Rotate, SeenOK
<1>12. RequestOK(req[r])' /\ SeenOK(req[r])'
  <2>1. /\ req'[r].pc = "check" /\ req'[r].user = req[r].user
        /\ req'[r].tok = t /\ req'[r].snap = req[r].snap
    BY <1>1, <1>10 DEF Request
  <2>2. req[r].snap \subseteq Tokens /\ RequestOK(req[r])
    BY <1>1 DEF Request, IInv
  <2>3. \A s \in Tokens : token[s].status # "free" =>
          token'[s].user = token[s].user /\ token'[s].status # "free"
    BY <1>4, <1>6 DEF Rotate
  <2> QED BY <1>1, <2>1, <2>2, <2>3 DEF RequestOK, SeenOK, Rotate, Exists
<1>13. SuperAdminFloor' /\ (\A u \in Users : account[u].isActive => Exists(u))'
  BY DEF IInv, SuperAdminFloor, SuperAdmins, Exists, Rotate
<1> QED BY <1>1, <1>5, <1>8, <1>10, <1>11, <1>12, <1>13 DEF IInv, TypeOK, Rotate

\* The steps that write access tokens or expire something.
LEMMA StepLifetimes ==
  ASSUME IInv,
         \/ \E r \in Reqs : RefreshCheck(r)
         \/ \E c \in access : AccessExpires(c)
         \/ \E t \in Tokens : TokenExpires(t)
  PROVE  IInv'
<1>0. TypeOK /\ TokensOK
  BY DEF IInv
<1>1. CASE \E r \in Reqs : RefreshCheck(r)
  <2> PICK r \in Reqs : RefreshCheck(r)
    BY <1>1
  <2>1. /\ req[r].user \in Users /\ account[req[r].user].role \in Roles
        /\ account[req[r].user].mcp \in BOOLEAN
    BY DEF IInv, TypeOK, RequestOK, RefreshCheck, Exists, Account
  <2>2. access' \in SUBSET Claims
    BY <1>0, <2>1 DEF RefreshCheck, TypeOK, Claims, Claim
  <2>3. req' \in [Reqs -> Request] /\ req'[r] = Idle
    BY <1>0, IdleType, AdvanceOther DEF RefreshCheck, TypeOK
  <2>4. \A q \in Reqs \ {r} : RequestOK(req[q])' /\ SeenOK(req[q])'
    <3>1. /\ \A t \in Tokens : token[t].status # "free" =>
               token'[t].user = token[t].user /\ token'[t].status # "free"
          /\ \A u \in Users : Exists(u) => Exists(u)'
      BY DEF Exists, RefreshCheck
    <3>2. \A q \in Reqs : \A t \in req[q].snap :
            Unrevoked(t) => token'[t].status \in {"live", "expired"}
      BY DEF RefreshCheck, Unrevoked
    <3> QED BY <3>1, <3>2, IdleType, OthersFine DEF RefreshCheck, SeenOK
  <2>5. RequestOK(req[r])' /\ SeenOK(req[r])'
    BY <2>3 DEF RequestOK, SeenOK, Idle
  <2>6. TokensOK' /\ SuperAdminFloor' /\ (\A u \in Users : account[u].isActive => Exists(u))'
    BY DEF IInv, TokensOK, RotationIsLinear, Unrevoked, SuperAdminFloor, SuperAdmins,
           Exists, RefreshCheck
  <2> QED BY <1>0, <2>2, <2>3, <2>4, <2>5, <2>6 DEF IInv, TypeOK, RefreshCheck
<1>2. CASE \E c \in access : AccessExpires(c)
  BY <1>2 DEF AccessExpires, IInv, TypeOK, TokensOK, RotationIsLinear, Unrevoked, Exists,
              SuperAdminFloor, SuperAdmins, RequestOK, SeenOK, MovesFloor, Counted
<1>3. CASE \E t \in Tokens : TokenExpires(t)
  <2> PICK t \in Tokens : TokenExpires(t)
    BY <1>3
  <2>1. token' \in [Tokens -> Token]
    BY <1>0 DEF TokenExpires, TypeOK, Token
  <2>2. \A s \in Tokens :
          /\ token'[s].user = token[s].user /\ token'[s].from = token[s].from
          /\ token'[s].fam = token[s].fam
          /\ token[s].status = "free" <=> token'[s].status = "free"
          /\ token[s].status = "free" => token'[s] = token[s]
          /\ token[s].status = "revoked" => token'[s].status = "revoked"
          /\ Unrevoked(s)' <=> Unrevoked(s)
    BY <1>0 DEF TokenExpires, TypeOK, Token, Unrevoked
  <2>3. TokensOK'
    <3>1. \A s \in Tokens : token[s].from \in Tokens \cup {NoToken}
      BY <1>0 DEF TypeOK, Token
    <3> QED BY <1>0, <2>1, <2>2, <3>1
            DEF TokensOK, RotationIsLinear, FreeToken, Exists, TokenExpires
  <2>4. \A q \in Reqs : req[q].snap \subseteq Tokens
    BY <1>0 DEF TypeOK, Request
  <2>5. \A q \in Reqs : RequestOK(req[q])' /\ SeenOK(req[q])'
    BY <2>2, <2>4 DEF IInv, RequestOK, SeenOK, TokenExpires, Exists, SuperAdmins, MovesFloor,
                      Counted
  <2> QED BY <1>0, <2>1, <2>3, <2>5
          DEF IInv, TypeOK, TokenExpires, SuperAdminFloor, SuperAdmins, Exists
<1> QED BY <1>1, <1>2, <1>3

\* A new account can only add to the active super_admins.
LEMMA StepInsert ==
  ASSUME IInv, NEW u \in Users, NEW row \in Account, row.role # "none",
         ~Exists(u),
         account' = [account EXCEPT ![u] = row],
         UNCHANGED <<token, access, req>>
  PROVE  IInv'
<1>1. TypeOK /\ ~Exists(u)
  BY DEF IInv
<1>2. account' \in [Users -> Account]
  BY <1>1 DEF TypeOK
<1>3. \A v \in Users : IF v = u THEN account'[v] = row
                                ELSE account'[v] = account[v]
  BY <1>1 DEF TypeOK
<1>4. \A v \in Users : Exists(v) => Exists(v)'
  BY <1>1, <1>3 DEF Exists
<1>5. SuperAdmins(account) \subseteq SuperAdmins(account')
  BY <1>1, <1>3 DEF SuperAdmins, Exists, IInv
<1>6. TokensOK'
  BY <1>4 DEF IInv, TokensOK, RotationIsLinear, Unrevoked
<1>7. ASSUME NEW r \in Reqs PROVE RequestOK(req[r])' /\ SeenOK(req[r])'
  <2>1. RequestOK(req[r]) /\ SeenOK(req[r]) /\ req' = req /\ token' = token
    BY DEF IInv
  <2>2. RequestOK(req[r])'
    BY <1>4, <2>1 DEF RequestOK
  <2>3. CASE req[r].pc = "tx" /\ ~req[r].touched
    <3>1. req[r].user \in Users \ {u}
      BY <1>1, <2>1, <2>3 DEF RequestOK
    <3>2. account'[req[r].user] = account[req[r].user]
      BY <1>3, <3>1
    <3>3. MovesFloor(req[r])' <=> MovesFloor(req[r])
      BY <2>1, <3>2 DEF MovesFloor, Counted
    <3>4. req[r].user \in SuperAdmins(account)' <=> req[r].user \in SuperAdmins(account)
      BY <3>2 DEF SuperAdmins
    <3>5. SuperAdmins(account) \subseteq SuperAdmins(account)'
      BY <1>5 DEF SuperAdmins
    <3> QED BY <2>1, <2>2, <2>3, <3>3, <3>4, <3>5 DEF SeenOK, Unrevoked
  <2>4. CASE ~(req[r].pc = "tx" /\ ~req[r].touched)
    BY <2>1, <2>2, <2>4 DEF SeenOK
  <2> QED BY <2>3, <2>4
<1>8. (\A v \in Users : account[v].isActive => Exists(v))'
  BY <1>3 DEF IInv, Exists
<1> QED BY <1>1, <1>2, <1>5, <1>6, <1>7, <1>8
        DEF IInv, TypeOK, SuperAdminFloor, SuperAdmins

\* A super_admin, or the boot of the server, creates an account.
LEMMA StepCreate ==
  ASSUME IInv, NEW u \in Users, NEW h \in Hashes,
         \/ \E a \in Users, role \in Roles : CreateAccount(a, u, role, h)
         \/ BootCreate(u, h)
  PROVE  IInv'
<1>1. PICK role \in Roles, mcp \in BOOLEAN :
        /\ ~Exists(u)
        /\ account' = [account EXCEPT ![u] = NewAccount(role, h, mcp)]
        /\ UNCHANGED <<token, access, req>>
  BY DEF CreateAccount, BootCreate, Roles
<1>2. NewAccount(role, h, mcp) \in Account /\ NewAccount(role, h, mcp).role # "none"
  BY DEF NewAccount, Account, Roles
<1> QED BY <1>1, <1>2, StepInsert

\* The seeder's write dooms the transactions on its row, and leaves role and
\* active flag as they are.
LEMMA StepBootReset ==
  ASSUME IInv, NEW u \in Users, NEW h \in Hashes, BootReset(u, h)
  PROVE  IInv'
<1>1. TypeOK /\ TokensOK /\ account' = [account EXCEPT ![u].hash = h, ![u].mcp = FALSE]
      /\ token' = token /\ access' = access
  BY DEF IInv, BootReset
<1>2. account' \in [Users -> Account]
  <2>1. [account[u] EXCEPT !.hash = h, !.mcp = FALSE] \in Account
    BY <1>1 DEF TypeOK, Account
  <2>2. account' = [account EXCEPT ![u] = [account[u] EXCEPT !.hash = h, !.mcp = FALSE]]
    BY <1>1 DEF TypeOK, Account
  <2> QED BY <1>1, <2>1, <2>2 DEF TypeOK
<1>3. \A v \in Users : /\ account'[v].role = account[v].role
                       /\ account'[v].isActive = account[v].isActive
                       /\ v # u => account'[v] = account[v]
                       /\ Exists(v)' <=> Exists(v)
  BY <1>1 DEF TypeOK, Account, Exists
<1>4. SuperAdmins(account)' = SuperAdmins(account)
  BY <1>3 DEF SuperAdmins
<1>5. \A q \in Reqs : req'[q] = IF q \in TxOnUser(u) THEN [req[q] EXCEPT !.touched = TRUE]
                                ELSE req[q]
  BY DEF BootReset, Doom
<1>6. req' \in [Reqs -> Request]
  <2>1. \A q \in Reqs : [req[q] EXCEPT !.touched = TRUE] \in Request
    BY <1>1 DEF TypeOK, Request
  <2> QED BY <1>1, <2>1 DEF BootReset, Doom, TypeOK
<1>7. TokensOK'
  BY <1>1, <1>3 DEF TokensOK, RotationIsLinear, Unrevoked, Exists
<1>8. ASSUME NEW q \in Reqs PROVE RequestOK(req[q])' /\ SeenOK(req[q])'
  <2>1. RequestOK(req[q]) /\ SeenOK(req[q]) /\ req[q] \in Request
    BY <1>1 DEF IInv, TypeOK
  <2>2. CASE q \in TxOnUser(u)
    <3>1. /\ req'[q].pc = req[q].pc /\ req'[q].user = req[q].user
          /\ req'[q].tok = req[q].tok /\ req'[q].snap = req[q].snap /\ req'[q].touched
      BY <1>5, <2>1, <2>2 DEF Request
    <3> QED BY <1>1, <1>3, <2>1, <3>1 DEF RequestOK, SeenOK
  <2>3. CASE q \notin TxOnUser(u)
    <3>1. req'[q] = req[q]
      BY <1>5, <2>3
    <3>2. RequestOK(req[q])'
      BY <1>1, <1>3, <2>1, <3>1 DEF RequestOK
    <3>3. CASE req[q].pc = "tx"
      <4>1. account'[req[q].user] = account[req[q].user]
        BY <1>3, <2>1, <2>3, <3>3 DEF TxOnUser, InTx, RequestOK
      <4>2. MovesFloor(req[q])' <=> MovesFloor(req[q])
        BY <3>1, <4>1 DEF MovesFloor, Counted
      <4> QED BY <1>1, <1>4, <2>1, <3>1, <3>2, <4>2 DEF SeenOK, Unrevoked
    <3>4. CASE req[q].pc # "tx"
      BY <3>1, <3>2, <3>4 DEF SeenOK
    <3> QED BY <3>3, <3>4
  <2> QED BY <2>2, <2>3
<1>9. (\A v \in Users : account[v].isActive => Exists(v))'
  BY <1>3 DEF IInv
<1> QED BY <1>1, <1>2, <1>4, <1>6, <1>7, <1>8, <1>9 DEF IInv, TypeOK, SuperAdminFloor

\* A sign-out revokes one token and dooms the deactivations that read it.
LEMMA StepLogout ==
  ASSUME IInv, NEW r \in Reqs, LogoutRevoke(r)
  PROVE  IInv'
<1> PICK t : t = req[r].tok
  OBVIOUS
<1>1. TypeOK /\ TokensOK /\ token' = RevokeAll({t}) /\ account' = account /\ t \in Tokens
  BY DEF IInv, LogoutRevoke, RequestOK
<1>2. /\ token' \in [Tokens -> Token] /\ TokensOK'
      /\ \A s \in Tokens : /\ token'[s].user = token[s].user
                           /\ token[s].status # "free" => token'[s].status # "free"
  BY <1>1, RevokeAllOK DEF Exists
<1>3. req' \in [Reqs -> Request] /\ req'[r] = Idle
  BY <1>1, IdleType, AdvanceOther DEF LogoutRevoke, TypeOK
<1>4. \A q \in Reqs \ {r} : RequestOK(req[q])' /\ SeenOK(req[q])'
  <2>1. \A s \in Tokens \ {t} : token'[s] = token[s]
    BY <1>1 DEF RevokeAll, TypeOK
  <2>2. \A q \in Reqs : \A s \in req[q].snap :
          Unrevoked(s) /\ req[q].pc = "tx" /\ q \notin TxOnToken(t)
            => token'[s].status \in {"live", "expired"}
    BY <1>1, <2>1 DEF Unrevoked, TypeOK, Request, TxOnToken, InTx
  <2> QED BY <1>1, <1>2, <2>2, IdleType, OthersFine DEF LogoutRevoke, SeenOK, Exists
<1>5. RequestOK(req[r])' /\ SeenOK(req[r])'
  BY <1>3 DEF RequestOK, SeenOK, Idle
<1> QED BY <1>1, <1>2, <1>3, <1>4, <1>5
        DEF IInv, TypeOK, LogoutRevoke, SuperAdminFloor, SuperAdmins, Exists

\* Commits that write the account row of the request and revoke its snapshot:
\* they doom every open transaction on that account and, if the set of active
\* super_admins changes, every open one that changes it too.
LEMMA StepWrites ==
  ASSUME IInv, NEW r \in Reqs, NEW m \in Request, NEW row \in Account, NEW D,
         req[r].pc # "idle",
         account' = [account EXCEPT ![req[r].user] = row],
         token' = RevokeAll(req[r].snap),
         access' = access,
         Advance(r, m, D),
         TxOnUser(req[r].user) \subseteq D,
         SuperAdmins(account') # SuperAdmins(account) =>
           {q \in InTx : MovesFloor(req[q])} \subseteq D,
         SuperAdmins(account') # {},
         row.role # "none",
         m.pc \in {"idle", "fresh", "rename"}, m.snap = {}, m.user = req[r].user \/ m.pc = "idle"
  PROVE  IInv'
<1> PICK u : u = req[r].user
  OBVIOUS
<1>1. /\ TypeOK /\ TokensOK /\ u \in Users /\ req[r] \in Request
      /\ \A t \in req[r].snap : token[t].user = u
  BY DEF IInv, TypeOK, RequestOK
<1>2. account' \in [Users -> Account]
  BY <1>1 DEF TypeOK
<1>3. account'[u] = row /\ \A v \in Users \ {u} : account'[v] = account[v]
  BY <1>1 DEF TypeOK
<1>4. \A v \in Users : Exists(v) => Exists(v)'
  BY <1>3 DEF Exists
<1>5. /\ token' \in [Tokens -> Token] /\ TokensOK'
      /\ \A s \in Tokens : /\ token'[s].user = token[s].user
                           /\ token[s].status # "free" => token'[s].status # "free"
  BY <1>1, <1>4, RevokeAllOK
<1>6. req' \in [Reqs -> Request] /\ req'[r] = m
  BY <1>1, AdvanceOther DEF TypeOK
<1>7. \A q \in Reqs \ {r} : RequestOK(req[q])' /\ SeenOK(req[q])'
  <2>1. \A s \in Tokens \ req[r].snap : token'[s] = token[s]
    BY <1>1 DEF RevokeAll, TypeOK
  <2> SUFFICES ASSUME NEW q \in Reqs \ {r}, SeenOK(req[q]), RequestOK(req[q]), q \notin D,
                      req[q].pc = "tx", ~req[q].touched
               PROVE  /\ account'[req[q].user] = account[req[q].user]
                      /\ MovesFloor(req[q]) => SuperAdmins(account') = SuperAdmins(account)
                      /\ \A t \in req[q].snap : token'[t].status \in {"live", "expired"}
    BY <1>4, <1>5, OthersFine
  <2>2. req[q].user # u
    BY DEF TxOnUser, InTx
  <2>3. req[q].snap \cap req[r].snap = {} /\ req[q].snap \subseteq Tokens
    BY <1>1, <2>2 DEF RequestOK, TypeOK, Request
  <2>4. MovesFloor(req[q]) => SuperAdmins(account') = SuperAdmins(account)
    BY DEF InTx
  <2>5. account'[req[q].user] = account[req[q].user]
    BY <1>3, <2>2 DEF RequestOK
  <2> QED BY <2>1, <2>3, <2>4, <2>5 DEF SeenOK, Unrevoked
<1>8. RequestOK(req[r])' /\ SeenOK(req[r])'
  BY <1>1, <1>3, <1>6 DEF RequestOK, SeenOK, Exists
<1>9. (\A v \in Users : account[v].isActive => Exists(v))'
  BY <1>3 DEF IInv, Exists
<1> QED BY <1>1, <1>2, <1>5, <1>6, <1>7, <1>8, <1>9 DEF IInv, TypeOK, SuperAdminFloor

\* Applying a PATCH body yields a row that still exists.
LEMMA PatchedType ==
  ASSUME NEW old \in Account, old.role # "none", NEW p \in Patch
  PROVE  Patched(old, p) \in Account /\ Patched(old, p).role # "none"
<1> DEFINE role == IF p.role = Keep THEN old.role ELSE p.role
           active == IF p.isActive = Keep THEN old.isActive ELSE p.isActive = "true"
<1>1. role \in Roles
  BY DEF Patch, Roles, Keep, Account
<1>2. active \in BOOLEAN
  BY Zenon DEF Account
<1>3. Patched(old, p) = [old EXCEPT !.role = role, !.isActive = active]
  BY DEF Patched
<1>4. "none" \notin Roles
  BY DEF Roles
<1> HIDE DEF role, active
<1> QED BY <1>1, <1>2, <1>3, <1>4 DEF Account

\* The write-skew argument: the transaction counted a snapshot.  If its write
\* changes the set, everyone it counted is still an active super_admin as long
\* as nothing doomed it; if not, the set stays what it was.
LEMMA StepUpdate ==
  ASSUME IInv, NEW r \in Reqs, UpdateCommit(r)
  PROVE  IInv'
<1> PICK m : m = req[r]
  OBVIOUS
<1> DEFINE row == Patched(account[m.user], m.patch)
<1>1. /\ TypeOK /\ m \in Request /\ m.user \in Users /\ Exists(m.user) /\ SeenOK(m)
      /\ m.pc = "tx" /\ ~m.touched
  BY DEF IInv, TypeOK, RequestOK, UpdateCommit, MayCommit
<1>2. row \in Account /\ row.role # "none"
  BY <1>1, PatchedType DEF TypeOK, Exists, Request
<1>3. account' = [account EXCEPT ![m.user] = row]
  BY DEF UpdateCommit, MayCommit
<1>4. account'[m.user] = row /\ \A v \in Users \ {m.user} : account'[v] = account[v]
  BY <1>1, <1>3 DEF TypeOK
<1>5. SuperAdmins(account') # {}
  <2>1. PICK x : x \in Counted(m)
    BY DEF UpdateCommit, MayCommit
  <2>2. CASE x \in m.seen \ {m.user}
    <3>1. CASE MovesFloor(m)
      BY <1>1, <1>4, <2>2, <3>1 DEF SeenOK, SuperAdmins
    <3>2. CASE ~MovesFloor(m)
      <4>1. m.user \in m.seen <=> row.role = "super_admin" /\ row.isActive
        BY <3>2 DEF MovesFloor, Counted
      <4>2. SuperAdmins(account') = SuperAdmins(account)
        BY <1>1, <1>4, <4>1 DEF SeenOK, SuperAdmins
      <4> QED BY <4>2 DEF IInv, SuperAdminFloor
    <3> QED BY <3>1, <3>2
  <2>3. CASE x = m.user /\ row.role = "super_admin" /\ row.isActive
    BY <1>1, <1>4, <2>3 DEF SuperAdmins
  <2> QED BY <2>1, <2>2, <2>3 DEF Counted
<1> QED
  <2> PICK D \in SUBSET InTx :
        /\ Conflicting(m.user, SuperAdmins(account), SuperAdmins(account')) \subseteq D
        /\ Advance(r, IF m.patch.name THEN Renaming(m.user) ELSE Idle, D)
    BY DEF UpdateCommit, MayCommit
  <2> DEFINE next == IF m.patch.name THEN Renaming(m.user) ELSE Idle
  <2>1. TxOnUser(m.user) \subseteq D
        /\ (SuperAdmins(account') # SuperAdmins(account) =>
              {q \in InTx : MovesFloor(req[q])} \subseteq D)
    BY DEF Conflicting
  <2>2. token' = RevokeAll(m.snap) /\ access' = access
    BY DEF UpdateCommit, MayCommit
  <2>3. /\ Advance(r, next, D) /\ next \in Request /\ next.snap = {}
        /\ next.pc \in {"idle", "rename"} /\ (next.user = m.user \/ next.pc = "idle")
    BY <1>1, IdleType DEF Idle, Renaming, Request
  <2> HIDE DEF row, next
  <2> QED BY <1>1, <1>2, <1>3, <1>5, <2>1, <2>2, <2>3, StepWrites

\* A password transaction leaves role and active flag, so the floor, alone.
LEMMA StepPassword ==
  ASSUME IInv, NEW r \in Reqs, ResetCommit(r) \/ ChangeCommit(r)
  PROVE  IInv'
<1> PICK m : m = req[r]
  OBVIOUS
<1>1. /\ TypeOK /\ m \in Request /\ m.user \in Users /\ Exists(m.user)
      /\ m.pc # "idle"
  BY DEF IInv, TypeOK, RequestOK, ResetCommit, ChangeCommit
<1> PICK h \in Hashes, mcp \in BOOLEAN :
       account' = [account EXCEPT ![m.user].hash = h, ![m.user].mcp = mcp]
  BY DEF ResetCommit, ChangeCommit, PasswordCommit
<1> DEFINE row == [account[m.user] EXCEPT !.hash = h, !.mcp = mcp]
<1>2. row \in Account /\ row.role # "none"
  BY <1>1 DEF TypeOK, Account, Exists
<1>3. account' = [account EXCEPT ![m.user] = row]
  BY <1>1 DEF TypeOK, Account
<1>4. SuperAdmins(account') = SuperAdmins(account) /\ SuperAdmins(account) # {}
  <2>1. \A v \in Users : /\ account'[v].role = account[v].role
                         /\ account'[v].isActive = account[v].isActive
    BY <1>1 DEF TypeOK, Account
  <2> QED BY <2>1 DEF SuperAdmins, IInv, SuperAdminFloor
<1>5. PICK next \in Request :
        /\ Advance(r, next, TxOnUser(m.user))
        /\ next.pc \in {"idle", "fresh"} /\ next.snap = {}
        /\ next.user = m.user \/ next.pc = "idle"
  <2>1. CASE ResetCommit(r)
    BY <2>1, IdleType DEF ResetCommit, PasswordCommit, Idle
  <2>2. CASE ChangeCommit(r)
    <3>1. [m EXCEPT !.pc = "fresh", !.snap = {}] \in Request
      BY <1>1 DEF Request
    <3> QED BY <1>1, <2>2, <3>1 DEF ChangeCommit, PasswordCommit, Request
  <2> QED BY <2>1, <2>2
<1>6. token' = RevokeAll(m.snap) /\ access' = access
  BY DEF ResetCommit, ChangeCommit, PasswordCommit
<1> HIDE DEF row
<1> QED BY <1>1, <1>2, <1>3, <1>4, <1>5, <1>6, StepWrites

-----------------------------------------------------------------------------
(* Theorems                                                                 *)

\* Every step keeps the inductive invariant.
LEMMA NextIInv == IInv /\ [Next]_vars => IInv'
<1> SUFFICES ASSUME IInv, [Next]_vars PROVE IInv'
  OBVIOUS
<1>1. CASE \E r \in Reqs : Arrive(r)
  BY <1>1, StepArrive
<1>2. CASE \E r \in Reqs : Step(r)
  <2> PICK r \in Reqs : Step(r)
    BY <1>2
  <2>1. CASE \E n \in Tokens : Issue(r, n)
    BY <2>1, StepIssue
  <2>2. CASE \E n \in Tokens : Rotate(r, n)
    BY <2>2, StepRotate
  <2>3. CASE \/ LoginStamp(r) \/ RotateLost(r) \/ UpdateRefused(r) \/ UpdateAborted(r)
             \/ PasswordScan(r) \/ ChangeFresh(r) \/ Rename(r) \/ Crash(r)
    BY <2>3, StepMoves
  <2>4. CASE RefreshCheck(r)
    BY <2>4, StepLifetimes
  <2>5. CASE LogoutRevoke(r)
    BY <2>5, StepLogout
  <2>6. CASE UpdateCommit(r)
    BY <2>6, StepUpdate
  <2>7. CASE ResetCommit(r) \/ ChangeCommit(r)
    BY <2>7, StepPassword
  <2> QED BY <2>1, <2>2, <2>3, <2>4, <2>5, <2>6, <2>7 DEF Step
<1>3. CASE \/ \E a, u \in Users, role \in Roles, h \in Hashes : CreateAccount(a, u, role, h)
           \/ \E u \in Seeds, h \in Hashes : BootCreate(u, h) \/ BootReset(u, h)
  BY <1>3, StepCreate, StepBootReset, SeedsAssumption
<1>4. CASE (\E c \in access : AccessExpires(c)) \/ (\E t \in Tokens : TokenExpires(t))
  BY <1>4, StepLifetimes
<1>5. CASE UNCHANGED vars
  BY <1>5 DEF vars, IInv, TypeOK, TokensOK, RotationIsLinear, Unrevoked, Exists,
              SuperAdminFloor, SuperAdmins, RequestOK, SeenOK, MovesFloor, Counted
<1> QED BY <1>1, <1>2, <1>3, <1>4, <1>5 DEF Next

\* The strengthened invariant holds in every reachable state.
THEOREM Inductive == Spec => []IInv
<1> QED BY InitIInv, NextIInv, PTL DEF Spec

\* Every table and every request keeps its shape.
THEOREM TypeCorrect == Spec => []TypeOK
<1>1. IInv => TypeOK
  BY DEF IInv
<1> QED BY <1>1, Inductive, PTL

\* FR-023 for any number of super_admins, requests and concurrent updates.
THEOREM FloorHolds == Spec => []SuperAdminFloor
<1>1. IInv => SuperAdminFloor
  BY DEF IInv
<1> QED BY <1>1, Inductive, PTL

\* Refresh-token chains never fork, however many refreshes race.
THEOREM ChainsAreLinear == Spec => []RotationIsLinear
<1>1. IInv => RotationIsLinear
  BY DEF IInv, TokensOK
<1> QED BY <1>1, Inductive, PTL

\* A deactivation that commits leaves no rotation of the sessions it read:
\* each had one unrevoked token then, and rotating it would have doomed it.
THEOREM DeactivationIsComplete == Spec => DeactivationEndsSessions
<1> DEFINE P == \A r \in Reqs : UpdateCommit(r) /\ req[r].patch.isActive = "false" =>
                  \A s \in req[r].snap, t \in Tokens :
                    token[t].fam = token[s].fam => ~Unrevoked(t)'
<1>1. IInv /\ [Next]_vars => [P]_vars
  <2> SUFFICES ASSUME IInv, NEW r \in Reqs, UpdateCommit(r),
                      NEW s \in req[r].snap, NEW t \in Tokens,
                      token[t].fam = token[s].fam
               PROVE  ~Unrevoked(t)'
    OBVIOUS
  <2>1. s \in Tokens /\ Unrevoked(s)
    BY DEF IInv, TypeOK, Request, SeenOK, UpdateCommit, MayCommit
  <2>2. Unrevoked(t) => t = s
    BY <2>1 DEF IInv, TokensOK, RotationIsLinear
  <2>3. token'[t] = IF t \in req[r].snap /\ Unrevoked(t)
                    THEN [token[t] EXCEPT !.status = "revoked"] ELSE token[t]
    BY DEF UpdateCommit, MayCommit, RevokeAll
  <2> QED BY <2>2, <2>3 DEF Unrevoked, IInv, TypeOK, Token
<1> QED BY <1>1, Inductive, PTL DEF Spec, DeactivationEndsSessions

-----------------------------------------------------------------------------
(* Refinement of SessionFamily                                              *)

\* No token means no session.
LEMMA RefineInit == Init => Family!Init
BY NoTokenAssumption DEF Init, FreeToken, Family!Init, SessionStatus

\* Revoking any set of tokens ends the sessions that had their last token in it.
LEMMA RefineRevoke ==
  ASSUME IInv, NEW S, token' = RevokeAll(S)
  PROVE  \E E \in SUBSET Tokens : Family!End(E)
<1> DEFINE E == {s \in Tokens : SessionStatus(s) = "open" /\ SessionStatus(s)' # "open"}
<1>1. \A t \in Tokens : token'[t].fam = token[t].fam /\ (Unrevoked(t)' => Unrevoked(t))
  BY DEF RevokeAll, IInv, TypeOK, Token, Unrevoked
<1>2. \A s \in Tokens : SessionStatus(s)' = IF s \in E THEN "ended" ELSE SessionStatus(s)
  BY <1>1 DEF SessionStatus
<1>3. \A s \in E : SessionStatus(s) = "open"
  OBVIOUS
<1>4. E \in SUBSET Tokens
  OBVIOUS
<1> HIDE DEF E
<1>5. Family!End(E)
  BY <1>2, <1>3, <1>4 DEF Family!End
<1> QED BY <1>4, <1>5

\* Every step opens a session, ends some, or leaves all as they are.
LEMMA RefineNext == IInv /\ [Next]_vars => [Family!Next]_([s \in Tokens |-> SessionStatus(s)])
<1> DEFINE Status == [s \in Tokens |-> SessionStatus(s)]
<1> SUFFICES ASSUME IInv, [Next]_vars PROVE Family!Next \/ UNCHANGED Status
  OBVIOUS
<1>0. TypeOK /\ TokensOK
  BY DEF IInv
<1>1. ASSUME UNCHANGED token PROVE UNCHANGED Status
  BY <1>1 DEF SessionStatus, Unrevoked
<1>2. ASSUME NEW S, token' = RevokeAll(S) PROVE Family!Next
  BY <1>2, RefineRevoke DEF Family!Next
<1>3. ASSUME NEW r \in Reqs, NEW n \in Tokens, Issue(r, n) PROVE Family!Next
  <2>1. /\ token'[n].fam = n /\ Unrevoked(n)'
        /\ \A t \in Tokens \ {n} : token'[t] = token[t]
    BY <1>0, <1>3 DEF Issue, TypeOK, Unrevoked
  <2>2. \A t \in Tokens : token[t].fam # n
    <3>1. token[n] = FreeToken
      BY <1>0, <1>3 DEF TokensOK, Issue
    <3> TAKE t \in Tokens
    <3>2. CASE token[t].status = "free"
      BY <1>0, <3>2, NoTokenAssumption DEF TokensOK, FreeToken
    <3>3. CASE token[t].status # "free"
      BY <1>0, <3>1, <3>3, NoTokenAssumption DEF TokensOK, FreeToken
    <3> QED BY <3>2, <3>3
  <2>3. SessionStatus(n) = "absent" /\ SessionStatus(n)' = "open"
    BY <2>1, <2>2 DEF SessionStatus
  <2>4. \A s \in Tokens \ {n} : SessionStatus(s)' = SessionStatus(s)
    <3>1. ~Unrevoked(n) /\ \A t \in Tokens \ {n} : Unrevoked(t)' <=> Unrevoked(t)
      BY <1>3, <2>1 DEF Issue, Unrevoked
    <3> QED BY <2>1, <3>1 DEF SessionStatus
  <2>5. Family!Open(n)
    BY <2>3, <2>4 DEF Family!Open
  <2> QED BY <2>5 DEF Family!Next
<1>4. ASSUME NEW r \in Reqs, NEW n \in Tokens, Rotate(r, n) PROVE UNCHANGED Status
  <2> PICK t : t = req[r].tok
    OBVIOUS
  <2>1. /\ t \in Tokens /\ t # n /\ Unrevoked(t) /\ ~Unrevoked(n) /\ token[n] = FreeToken
        /\ token[t].fam \in Tokens /\ token[token[t].fam].fam = token[t].fam
    BY <1>0, <1>4 DEF Rotate, IInv, RequestOK, TokensOK, Unrevoked
  <2>2. /\ token'[n].fam = token[t].fam /\ Unrevoked(n)'
        /\ token'[t].fam = token[t].fam /\ token'[t].status = "revoked"
        /\ \A s \in Tokens \ {n, t} : token'[s] = token[s]
    BY <1>0, <1>4, <2>1 DEF Rotate, TypeOK, Token, Unrevoked
  <2>3. token[t].fam # n /\ token[n].fam # n
    BY <2>1, NoTokenAssumption DEF FreeToken
  <2>4. \A s \in Tokens : SessionStatus(s)' = SessionStatus(s)
    <3> TAKE s \in Tokens
    <3>1. \A v \in Tokens \ {n, t} : (Unrevoked(v)' <=> Unrevoked(v)) /\ token'[v].fam = token[v].fam
      BY <2>2 DEF Unrevoked
    <3>2. token'[s].fam = s <=> token[s].fam = s
      BY <2>2, <2>3
    <3>3. (\E v \in Tokens : token'[v].fam = s /\ Unrevoked(v)')
            <=> (\E v \in Tokens : token[v].fam = s /\ Unrevoked(v))
      <4>1. token'[t].status \notin {"live", "expired"}
        BY <2>2
      <4>2. CASE s = token[t].fam
        BY <2>1, <2>2, <4>2
      <4>3. CASE s # token[t].fam
        BY <2>1, <2>2, <3>1, <4>3
      <4> QED BY <4>2, <4>3
    <3> QED BY <3>2, <3>3 DEF SessionStatus
  <2> QED BY <2>4
<1>5. ASSUME NEW t \in Tokens, TokenExpires(t) PROVE UNCHANGED Status
  <2>1. \A s \in Tokens : token'[s].fam = token[s].fam /\ (Unrevoked(s)' <=> Unrevoked(s))
    BY <1>0, <1>5 DEF TokenExpires, TypeOK, Token, Unrevoked
  <2> QED BY <2>1 DEF SessionStatus
<1>6. CASE \E r \in Reqs : Arrive(r)
  <2>1. UNCHANGED token
    BY <1>6 DEF Arrive, LoginRead, RefreshLookup, LogoutLookup, ResetBegin, UpdateBegin, RenameBegin,
                ChangeBegin
  <2> QED BY <1>1, <2>1
<1>7. CASE \E r \in Reqs : Step(r)
  <2> PICK r \in Reqs : Step(r)
    BY <1>7
  <2>1. CASE \/ LoginStamp(r) \/ RotateLost(r) \/ RefreshCheck(r) \/ UpdateRefused(r)
             \/ UpdateAborted(r) \/ PasswordScan(r) \/ ChangeFresh(r) \/ Rename(r) \/ Crash(r)
    BY <1>1, <2>1 DEF LoginStamp, RotateLost, RefreshCheck, UpdateRefused, UpdateAborted,
                      PasswordScan, ChangeFresh, Rename, Crash
  <2>2. CASE LogoutRevoke(r) \/ UpdateCommit(r) \/ ResetCommit(r) \/ ChangeCommit(r)
    BY <1>2, <2>2 DEF LogoutRevoke, UpdateCommit, MayCommit, ResetCommit, ChangeCommit, PasswordCommit
  <2> QED BY <1>3, <1>4, <2>1, <2>2 DEF Step
<1>8. CASE \/ \E a, u \in Users, role \in Roles, h \in Hashes : CreateAccount(a, u, role, h)
           \/ \E u \in Seeds, h \in Hashes : BootCreate(u, h) \/ BootReset(u, h)
           \/ \E c \in access : AccessExpires(c)
           \/ UNCHANGED vars
  BY <1>1, <1>8 DEF CreateAccount, BootCreate, BootReset, AccessExpires, vars
<1> QED BY <1>5, <1>6, <1>7, <1>8 DEF Next

\* The refresh tokens implement SessionFamily: no interleaving of rotations,
\* sign-outs, deactivations and password changes resumes an ended session.
THEOREM ImplementsSessionFamily == Spec => SessionsNeverResume
<1> QED BY RefineInit, RefineNext, Inductive, PTL DEF Spec, SessionsNeverResume, Family!Spec
=============================================================================
