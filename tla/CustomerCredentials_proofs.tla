----------------------- MODULE CustomerCredentials_proofs -----------------------
(***************************************************************************)
(* Proofs about CustomerCredentials, for any number of refresh tokens,      *)
(* reset tokens, passwords and concurrent requests.                         *)
(***************************************************************************)
EXTENDS CustomerCredentials, TLAPS

-----------------------------------------------------------------------------
(* Lemmas about the operators of the model                                  *)

\* The state of a request slot between two calls is well typed, and fine.
LEMMA IdleOK == Idle \in Request /\ RequestOK(Idle)
<1>1. PICK w \in Passwords : w = CHOOSE v \in Passwords : TRUE
  BY PasswordsAssumption
<1> QED BY <1>1 DEF Idle, Request, RequestOK

\* A write of the token table that makes no new successor and moves no chain
\* keeps the chains well formed and linear.
LEMMA SameChains ==
  ASSUME TypeOK, TokensOK, RotationIsLinear, token' \in [Tokens -> Token],
         \A t \in Tokens :
           /\ token'[t].fam = token[t].fam /\ token'[t].from = token[t].from
           /\ token[t].status = "free" => token'[t] = token[t]
           /\ token'[t].status = "free" => token[t].status = "free"
           /\ token[t].status = "revoked" => token'[t].status = "revoked"
           /\ Unrevoked(t)' => Unrevoked(t)
  PROVE  TokensOK' /\ RotationIsLinear'
<1>1. \A t \in Tokens : token[t].from \in Tokens \cup {NoToken}
  BY DEF TypeOK, Token
<1>2. RotationIsLinear'
  BY DEF RotationIsLinear
<1>3. TokensOK'
  BY <1>1 DEF TokensOK, FreeToken
<1> QED BY <1>2, <1>3

\* Revoking any set of tokens is such a write.
LEMMA RevokeAllOK ==
  ASSUME TypeOK, TokensOK, RotationIsLinear, NEW S, token' = RevokeAll(S)
  PROVE  /\ token' \in [Tokens -> Token]
         /\ TokensOK' /\ RotationIsLinear'
         /\ \A t \in Tokens : token[t].status # "free" => token'[t].status # "free"
<1>1. token' \in [Tokens -> Token]
  BY DEF RevokeAll, TypeOK, Token
<1>2. \A t \in Tokens :
        /\ token'[t].fam = token[t].fam /\ token'[t].from = token[t].from
        /\ token[t].status = "free" => token'[t] = token[t]
        /\ token'[t].status = "free" => token[t].status = "free"
        /\ token[t].status = "revoked" => token'[t].status = "revoked"
        /\ Unrevoked(t)' => Unrevoked(t)
  BY DEF RevokeAll, TypeOK, Token, Unrevoked
<1> QED BY <1>1, <1>2, SameChains

-----------------------------------------------------------------------------
(* The inductive invariant                                                  *)

\* The initial state satisfies the inductive invariant.
LEMMA InitIInv == Init => IInv
<1> SUFFICES ASSUME Init PROVE IInv
  OBVIOUS
<1>1. TypeOK
  BY IdleOK DEF Init, TypeOK, Token, FreeToken
<1>2. TokensOK /\ RotationIsLinear
  BY DEF Init, TokensOK, RotationIsLinear, FreeToken, Unrevoked
<1>3. \A r \in Reqs : RequestOK(req[r])
  BY IdleOK DEF Init
<1> QED BY <1>1, <1>2, <1>3 DEF IInv

\* A step that moves one request and frees no token keeps the requests fine.
LEMMA RequestsFine ==
  ASSUME IInv, NEW r \in Reqs, NEW m \in Request, Goto(r, m),
         \A t \in Tokens : token[t].status # "free" => token'[t].status # "free",
         m.pc = "rotate" => m.tok \in Tokens /\ token[m.tok].status # "free",
         m.pc = "write" /\ m.kind = "reset" => m.prt \in Resets
  PROVE  /\ req' \in [Reqs -> Request]
         /\ \A q \in Reqs : RequestOK(req[q])'
<1>1. req' = [req EXCEPT ![r] = m] /\ req \in [Reqs -> Request]
  BY DEF Goto, IInv, TypeOK
<1>2. req' \in [Reqs -> Request]
  BY <1>1
<1>3. ASSUME NEW q \in Reqs PROVE RequestOK(req[q])'
  <2>1. CASE q = r
    <3>1. req'[q] = m
      BY <1>1, <2>1
    <3> QED BY <3>1 DEF RequestOK
  <2>2. CASE q # r
    <3>1. req'[q] = req[q] /\ RequestOK(req[q])
      BY <1>1, <2>2 DEF IInv
    <3> QED BY <3>1 DEF RequestOK
  <2> QED BY <2>1, <2>2
<1> QED BY <1>2, <1>3

\* A step that moves one request and leaves the token table alone.
LEMMA Move ==
  ASSUME IInv, NEW r \in Reqs, NEW m \in Request, Goto(r, m), RequestOK(m),
         UNCHANGED token, active' \in BOOLEAN, password' \in Passwords,
         prt' \in [Resets -> {"free", "open", "expired", "consumed"}]
  PROVE  IInv'
<1>1. TypeOK'
  BY RequestsFine DEF IInv, TypeOK, RequestOK
<1>2. TokensOK' /\ RotationIsLinear'
  BY DEF IInv, TokensOK, RotationIsLinear, Unrevoked
<1>3. \A q \in Reqs : RequestOK(req[q])'
  BY RequestsFine DEF RequestOK
<1> QED BY <1>1, <1>2, <1>3 DEF IInv

\* A request that arrives reads the tables, and writes none.
LEMMA StepArrive ==
  ASSUME IInv, NEW r \in Reqs, Arrive(r)
  PROVE  IInv'
<1>0. TypeOK /\ Idle \in Request
  BY IdleOK DEF IInv
<1>1. CASE Login(r)
  <2> DEFINE m == [Idle EXCEPT !.pc = "issue"]
  <2>1. m \in Request /\ RequestOK(m)
    BY <1>0 DEF Request, RequestOK, Idle
  <2> QED BY <1>0, <1>1, <2>1, Move DEF Login, TypeOK
<1>2. CASE \E t \in Tokens : RefreshLookup(r, t)
  <2> PICK t \in Tokens : RefreshLookup(r, t)
    BY <1>2
  <2> DEFINE m == [Idle EXCEPT !.pc = "rotate", !.kind = "refresh", !.tok = t]
  <2>1. m \in Request /\ RequestOK(m)
    BY <1>0 DEF Request, RequestOK, Idle, RefreshLookup
  <2> QED BY <1>0, <2>1, Move DEF RefreshLookup, TypeOK
<1>3. CASE \E p \in Resets, w \in Passwords : ResetLookup(r, p, w)
  <2> PICK p \in Resets, w \in Passwords : ResetLookup(r, p, w)
    BY <1>3
  <2> DEFINE m == [Idle EXCEPT !.pc = "write", !.kind = "reset", !.prt = p, !.new = w]
  <2>1. m \in Request /\ RequestOK(m)
    BY <1>0 DEF Request, RequestOK, Idle
  <2> QED BY <1>0, <2>1, Move DEF ResetLookup, TypeOK
<1>4. CASE \E w \in Passwords : ChangeVerify(r, w)
  <2> PICK w \in Passwords : ChangeVerify(r, w)
    BY <1>4
  <2> DEFINE m == [Idle EXCEPT !.pc = "write", !.kind = "change", !.old = password, !.new = w]
  <2>1. m \in Request /\ RequestOK(m)
    BY <1>0 DEF Request, RequestOK, Idle, TypeOK
  <2> QED BY <1>0, <2>1, Move DEF ChangeVerify, TypeOK
<1>5. CASE \E on \in BOOLEAN : SetActive(r, on)
  <2> PICK on \in BOOLEAN : SetActive(r, on)
    BY <1>5
  <2> DEFINE m == [Idle EXCEPT !.pc = "write",
                               !.kind = IF on THEN "activate" ELSE "deactivate"]
  <2>1. m \in Request /\ RequestOK(m)
    BY <1>0 DEF Request, RequestOK, Idle
  <2> QED BY <1>0, <2>1, Move DEF SetActive, TypeOK
<1> QED BY <1>1, <1>2, <1>3, <1>4, <1>5 DEF Arrive

\* The other steps that write no token.
LEMMA StepMoves ==
  ASSUME IInv, NEW r \in Reqs,
         \/ RotateLost(r) \/ RefreshCheck(r) \/ Activate(r) \/ Deactivate(r)
         \/ ResetCommit(r) \/ ChangeWrite(r) \/ RevokeScan(r) \/ Crash(r)
  PROVE  IInv'
<1>0. TypeOK /\ Idle \in Request /\ RequestOK(Idle) /\ req[r] \in Request /\ RequestOK(req[r])
  BY IdleOK DEF IInv, TypeOK
<1>1. CASE RotateLost(r) \/ RefreshCheck(r) \/ Activate(r) \/ Crash(r)
  BY <1>0, <1>1, Move DEF RotateLost, RefreshCheck, Activate, Crash, TypeOK
<1>2. CASE Deactivate(r) \/ RevokeScan(r)
  <2> DEFINE m == [req[r] EXCEPT !.pc = "revoking", !.snap = UnrevokedTokens]
  <2>1. m \in Request /\ RequestOK(m)
    BY <1>0 DEF Request, RequestOK, UnrevokedTokens
  <2> QED BY <1>0, <1>2, <2>1, Move DEF Deactivate, RevokeScan, TypeOK
<1>3. CASE ResetCommit(r) \/ ChangeWrite(r)
  <2> DEFINE m == [req[r] EXCEPT !.pc = "revoke", !.snap = UnrevokedTokens]
  <2>1. m \in Request /\ RequestOK(m)
    BY <1>0 DEF Request, RequestOK, UnrevokedTokens
  <2>2. password' \in Passwords
    BY <1>0, <1>3 DEF ResetCommit, ChangeWrite, Request
  <2>3. prt' \in [Resets -> {"free", "open", "expired", "consumed"}]
    BY <1>0, <1>3 DEF ResetCommit, ChangeWrite, TypeOK
  <2> QED BY <1>0, <1>3, <2>1, <2>2, <2>3, Move DEF ResetCommit, ChangeWrite, TypeOK
<1> QED BY <1>1, <1>2, <1>3

\* An unissued token is nobody's root and nobody's predecessor.
LEMMA FreeTokenIsNew ==
  ASSUME IInv, NEW n \in Tokens, token[n].status = "free"
  PROVE  \A t \in Tokens : token[t].fam # n /\ token[t].from # n
<1>1. TokensOK /\ token[n] = FreeToken
  BY DEF IInv, TokensOK
<1>2. token[n].fam = NoToken /\ token[n].status # "revoked"
  BY <1>1 DEF FreeToken
<1> TAKE t \in Tokens
<1>3. token[t].from # n
  BY <1>1, <1>2, NoTokenAssumption DEF TokensOK
<1>4. token[t].fam # n
  <2>1. CASE token[t].status = "free"
    <3>1. token[t] = FreeToken
      BY <1>1, <2>1 DEF TokensOK
    <3> QED BY <3>1, NoTokenAssumption DEF FreeToken
  <2>2. CASE token[t].status # "free"
    BY <1>1, <1>2, <2>2, NoTokenAssumption DEF TokensOK
  <2> QED BY <2>1, <2>2
<1> QED BY <1>3, <1>4

\* A freshly issued token is the root of a session of its own.
LEMMA StepIssue ==
  ASSUME IInv, NEW r \in Reqs, NEW n \in Tokens, Issue(r, n)
  PROVE  IInv'
<1> DEFINE new == [status |-> "live", fam |-> n, from |-> NoToken]
<1>0. TypeOK /\ TokensOK /\ RotationIsLinear
  BY DEF IInv
<1>1. token' \in [Tokens -> Token]
  <2>1. new \in Token /\ token' = [token EXCEPT ![n] = new]
    BY DEF Token, Issue
  <2> HIDE DEF new
  <2> QED BY <1>0, <2>1 DEF TypeOK
<1>2. token'[n] = new /\ \A t \in Tokens \ {n} : token'[t] = token[t]
  BY <1>0 DEF Issue, TypeOK
<1>3. \A t \in Tokens : token[t].fam # n /\ token[t].from # n
  BY FreeTokenIsNew DEF Issue
<1>4. RotationIsLinear'
  <2>1. \A t \in Tokens \ {n} : (Unrevoked(t)' <=> Unrevoked(t)) /\ token'[t].fam # n
    BY <1>2, <1>3 DEF Unrevoked
  <2> QED BY <1>0, <1>2, <2>1 DEF RotationIsLinear
<1>5. TokensOK'
  <2>1. \A t \in Tokens : token[t].from \in Tokens \cup {NoToken}
    BY <1>0 DEF TypeOK, Token
  <2>2. \A t \in Tokens :
          IF token'[t].status = "free" THEN token'[t] = FreeToken
          ELSE token'[t].fam \in Tokens /\ token'[token'[t].fam].fam = token'[t].fam
    BY <1>0, <1>2, <1>3 DEF TokensOK
  <2>3. \A t \in Tokens : token'[t].from # NoToken =>
          LET old == token'[token'[t].from] IN old.status = "revoked" /\ old.fam = token'[t].fam
    BY <1>0, <1>2, <1>3, <2>1 DEF TokensOK
  <2> QED BY <2>2, <2>3 DEF TokensOK
<1>6. /\ req' \in [Reqs -> Request]
      /\ \A q \in Reqs : RequestOK(req[q])'
  <2>1. \A t \in Tokens : token[t].status # "free" => token'[t].status # "free"
    BY <1>2
  <2> QED BY <2>1, IdleOK, RequestsFine DEF Issue, Idle
<1> QED BY <1>0, <1>1, <1>4, <1>5, <1>6 DEF IInv, TypeOK, Issue

\* Only one of two rotations of a token finds it unrevoked.
LEMMA StepRotate ==
  ASSUME IInv, NEW r \in Reqs, NEW n \in Tokens, Rotate(r, n)
  PROVE  IInv'
<1> PICK t : t = req[r].tok
  OBVIOUS
<1> DEFINE new == [status |-> "live", fam |-> token[t].fam, from |-> t]
           m == [req[r] EXCEPT !.pc = "check"]
<1>0. /\ TypeOK /\ TokensOK /\ RotationIsLinear
      /\ req[r] \in Request /\ t \in Tokens /\ token[t].status # "free"
      /\ token[t].fam \in Tokens /\ token[token[t].fam].fam = token[t].fam
      /\ Unrevoked(t) /\ token[n].status = "free" /\ t # n
  BY DEF IInv, TypeOK, RequestOK, Rotate, TokensOK
<1>1. token' = [token EXCEPT ![t].status = "revoked", ![n] = new]
  BY DEF Rotate
<1>2. token' \in [Tokens -> Token]
  <2>1. [token[t] EXCEPT !.status = "revoked"] \in Token /\ new \in Token
    BY <1>0 DEF TypeOK, Token
  <2> HIDE DEF new
  <2> QED BY <1>0, <1>1, <2>1 DEF TypeOK
<1>3. /\ token'[n] = new
      /\ \A s \in Tokens \ {n, t} : token'[s] = token[s]
      /\ token'[t].fam = token[t].fam /\ token'[t].from = token[t].from
      /\ token'[t].status = "revoked"
  BY <1>0, <1>1 DEF TypeOK, Token
<1>4. \A s \in Tokens : token[s].fam # n /\ token[s].from # n /\ token[s].from # t
  <2>1. \A s \in Tokens : token[s].from # t
    BY <1>0, NoTokenAssumption DEF TokensOK, Unrevoked
  <2> QED BY <1>0, <2>1, FreeTokenIsNew
<1>5. RotationIsLinear'
  <2>1. /\ ~Unrevoked(t)'
        /\ \A s \in Tokens \ {n, t} : (Unrevoked(s)' <=> Unrevoked(s)) /\ token'[s].fam = token[s].fam
    BY <1>3 DEF Unrevoked
  <2>2. \A s \in Tokens \ {n, t} : Unrevoked(s) => token[s].fam # token[t].fam
    BY <1>0 DEF RotationIsLinear
  <2> SUFFICES ASSUME NEW s \in Tokens, NEW v \in Tokens \ {s},
                      Unrevoked(s)', Unrevoked(v)', token'[s].fam = token'[v].fam
               PROVE  FALSE
    BY DEF RotationIsLinear
  <2>3. s # t /\ v # t
    BY <2>1
  <2>4. CASE s = n \/ v = n
    BY <1>3, <2>1, <2>2, <2>3, <2>4
  <2>5. CASE s # n /\ v # n
    BY <1>0, <2>1, <2>3, <2>5 DEF RotationIsLinear
  <2> QED BY <2>4, <2>5
<1>6. TokensOK'
  <2>1. \A s \in Tokens : token[s].from \in Tokens \cup {NoToken}
    BY <1>0 DEF TypeOK, Token
  <2>2. \A s \in Tokens \ {n} : token'[s].fam = token[s].fam /\ token'[s].from = token[s].from
    BY <1>3
  <2>3. ASSUME NEW s \in Tokens
        PROVE  IF token'[s].status = "free" THEN token'[s] = FreeToken
               ELSE token'[s].fam \in Tokens /\ token'[token'[s].fam].fam = token'[s].fam
    <3>1. CASE s \in {n, t}
      <4>1. token'[s].fam = token[t].fam /\ token'[s].status # "free"
        BY <1>3, <3>1
      <4>2. token'[token[t].fam].fam = token[t].fam
        BY <1>0, <1>4, <2>2
      <4> QED BY <1>0, <4>1, <4>2
    <3>2. CASE s \notin {n, t} /\ token[s].status = "free"
      BY <1>0, <1>3, <3>2 DEF TokensOK
    <3>3. CASE s \notin {n, t} /\ token[s].status # "free"
      <4>1. /\ token'[s] = token[s] /\ token[s].fam \in Tokens \ {n}
            /\ token[token[s].fam].fam = token[s].fam
        BY <1>0, <1>3, <1>4, <3>3 DEF TokensOK
      <4> QED BY <2>2, <3>3, <4>1
    <3> QED BY <3>1, <3>2, <3>3
  <2>4. ASSUME NEW s \in Tokens, token'[s].from # NoToken
        PROVE  LET old == token'[token'[s].from] IN old.status = "revoked" /\ old.fam = token'[s].fam
    <3>1. CASE s = n
      BY <1>3, <3>1
    <3>2. CASE s # n
      <4>1. /\ token'[s].from = token[s].from /\ token'[s].fam = token[s].fam
            /\ token[s].from \in Tokens \ {n, t}
        BY <1>4, <2>1, <2>2, <2>4, <3>2
      <4>2. token'[token[s].from] = token[token[s].from]
        BY <1>3, <4>1
      <4>3. token[token[s].from].status = "revoked" /\ token[token[s].from].fam = token[s].fam
        BY <1>0, <2>4, <4>1 DEF TokensOK
      <4> QED BY <4>1, <4>2, <4>3
    <3> QED BY <3>1, <3>2
  <2> QED BY <2>3, <2>4 DEF TokensOK
<1>7. /\ req' \in [Reqs -> Request]
      /\ \A q \in Reqs : RequestOK(req[q])'
  <2>1. \A s \in Tokens : token[s].status # "free" => token'[s].status # "free"
    BY <1>0, <1>3
  <2>2. m \in Request /\ m.pc = "check" /\ Goto(r, m)
    BY <1>0 DEF Request, Rotate
  <2> HIDE DEF m
  <2> QED BY <2>1, <2>2, RequestsFine
<1> QED BY <1>0, <1>2, <1>5, <1>6, <1>7 DEF IInv, TypeOK, Rotate

\* Revocations, of one token or of those that a statement has read.
LEMMA StepRevoke ==
  ASSUME IInv, (\E t \in Tokens : Logout(t)) \/ (\E r \in Reqs : RevokeWrite(r))
  PROVE  IInv'
<1>0. TypeOK /\ TokensOK /\ RotationIsLinear /\ Idle \in Request
  BY IdleOK DEF IInv
<1>1. CASE \E t \in Tokens : Logout(t)
  <2> PICK t \in Tokens : Logout(t)
    BY <1>1
  <2>1. token' = RevokeAll({t}) /\ UNCHANGED <<active, password, prt, req>>
    BY DEF Logout
  <2>2. /\ token' \in [Tokens -> Token] /\ TokensOK' /\ RotationIsLinear'
        /\ \A s \in Tokens : token[s].status # "free" => token'[s].status # "free"
    BY <1>0, <2>1, RevokeAllOK
  <2>3. \A r \in Reqs : RequestOK(req[r])'
    BY <2>1, <2>2 DEF IInv, RequestOK
  <2> QED BY <1>0, <2>1, <2>2, <2>3 DEF IInv, TypeOK
<1>2. CASE \E r \in Reqs : RevokeWrite(r)
  <2> PICK r \in Reqs : RevokeWrite(r)
    BY <1>2
  <2> PICK m : m = IF req[r].kind = "reset" THEN [Idle EXCEPT !.pc = "issue", !.kind = "reset"]
                   ELSE Idle
    OBVIOUS
  <2>1. m \in Request /\ m.pc \in {"idle", "issue"}
    BY <1>0 DEF Request, Idle
  <2>2. token' = RevokeAll(req[r].snap) /\ Goto(r, m)
    BY DEF RevokeWrite
  <2>3. /\ token' \in [Tokens -> Token] /\ TokensOK' /\ RotationIsLinear'
        /\ \A s \in Tokens : token[s].status # "free" => token'[s].status # "free"
    BY <1>0, <2>2, RevokeAllOK
  <2>4. /\ req' \in [Reqs -> Request]
        /\ \A q \in Reqs : RequestOK(req[q])'
    BY <2>1, <2>2, <2>3, RequestsFine
  <2>5. active' \in BOOLEAN /\ UNCHANGED <<password, prt>>
    BY DEF RevokeWrite
  <2> QED BY <1>0, <2>3, <2>4, <2>5 DEF IInv, TypeOK
<1> QED BY <1>1, <1>2

\* What happens to tokens with no request behind it.
LEMMA StepLifetimes ==
  ASSUME IInv,
         \/ \E t \in Tokens : TokenExpires(t)
         \/ \E p \in Resets : IssueReset(p) \/ ResetExpires(p)
  PROVE  IInv'
<1>0. TypeOK /\ TokensOK /\ RotationIsLinear
  BY DEF IInv
<1>1. CASE \E t \in Tokens : TokenExpires(t)
  <2> PICK t \in Tokens : TokenExpires(t)
    BY <1>1
  <2>1. token' \in [Tokens -> Token]
    BY <1>0 DEF TokenExpires, TypeOK, Token
  <2>2. \A s \in Tokens :
          /\ token'[s].fam = token[s].fam /\ token'[s].from = token[s].from
          /\ token[s].status = "free" => token'[s] = token[s]
          /\ token'[s].status = "free" => token[s].status = "free"
          /\ token[s].status = "revoked" => token'[s].status = "revoked"
          /\ Unrevoked(s)' => Unrevoked(s)
    BY <1>0 DEF TokenExpires, TypeOK, Token, Unrevoked
  <2>3. TokensOK' /\ RotationIsLinear'
    BY <1>0, <2>1, <2>2, SameChains
  <2>4. \A r \in Reqs : RequestOK(req[r])'
    BY <2>2 DEF TokenExpires, IInv, RequestOK
  <2> QED BY <1>0, <2>1, <2>3, <2>4 DEF TokenExpires, IInv, TypeOK
<1>2. CASE \E p \in Resets : IssueReset(p) \/ ResetExpires(p)
  BY <1>2 DEF IssueReset, ResetExpires, IInv, TypeOK, TokensOK, RotationIsLinear, Unrevoked,
              RequestOK
<1> QED BY <1>1, <1>2

-----------------------------------------------------------------------------
(* Theorems                                                                 *)

\* Every step keeps the inductive invariant.
LEMMA NextIInv == IInv /\ [Next]_vars => IInv'
<1> SUFFICES ASSUME IInv, [Next]_vars PROVE IInv'
  OBVIOUS
<1>1. CASE \E r \in Reqs : Arrive(r)
  BY <1>1, StepArrive
<1>2. CASE \E r \in Reqs : Step(r)
  <2> PICK r \in Reqs : Step(r)
    BY <1>2
  <2>1. CASE \E n \in Tokens : Issue(r, n) \/ Rotate(r, n)
    BY <2>1, StepIssue, StepRotate
  <2>2. CASE \/ RotateLost(r) \/ RefreshCheck(r) \/ Activate(r) \/ Deactivate(r)
             \/ ResetCommit(r) \/ ChangeWrite(r) \/ RevokeScan(r) \/ Crash(r)
    BY <2>2, StepMoves
  <2>3. CASE RevokeWrite(r)
    BY <2>3, StepRevoke
  <2> QED BY <2>1, <2>2, <2>3 DEF Step
<1>3. CASE \E t \in Tokens : Logout(t) \/ TokenExpires(t)
  BY <1>3, StepRevoke, StepLifetimes
<1>4. CASE \E p \in Resets : IssueReset(p) \/ ResetExpires(p)
  BY <1>4, StepLifetimes
<1>5. CASE UNCHANGED vars
  BY <1>5 DEF vars, IInv, TypeOK, TokensOK, RotationIsLinear, Unrevoked, RequestOK
<1> QED BY <1>1, <1>2, <1>3, <1>4, <1>5 DEF Next

\* The strengthened invariant holds in every reachable state.
THEOREM Inductive == Spec => []IInv
<1> QED BY InitIInv, NextIInv, PTL DEF Spec

\* A customer's refresh-token chains never fork, however refreshes race each
\* other, sign-outs, new passwords and deactivations.
THEOREM ChainsAreLinear == Spec => []RotationIsLinear
<1>1. IInv => RotationIsLinear
  BY DEF IInv
<1> QED BY <1>1, Inductive, PTL

-----------------------------------------------------------------------------
(* Refinement of SessionFamily                                              *)

\* No token means no session.
LEMMA RefineInit == Init => Family!Init
BY NoTokenAssumption DEF Init, FreeToken, Family!Init, SessionStatus

\* Revoking any set of tokens ends the sessions that had their last token in it.
LEMMA RefineRevoke ==
  ASSUME IInv, NEW S, token' = RevokeAll(S)
  PROVE  Family!Next
<1> DEFINE E == {s \in Tokens : SessionStatus(s) = "open" /\ SessionStatus(s)' # "open"}
<1>1. \A t \in Tokens : token'[t].fam = token[t].fam /\ (Unrevoked(t)' => Unrevoked(t))
  BY DEF RevokeAll, IInv, TypeOK, Token, Unrevoked
<1>2. \A s \in Tokens : SessionStatus(s)' = IF s \in E THEN "ended" ELSE SessionStatus(s)
  BY <1>1 DEF SessionStatus
<1>3. E \in SUBSET Tokens /\ \A s \in E : SessionStatus(s) = "open"
  OBVIOUS
<1> HIDE DEF E
<1>4. Family!End(E)
  BY <1>2, <1>3 DEF Family!End
<1> QED BY <1>3, <1>4 DEF Family!Next

\* An issued token opens the session it is the root of.
LEMMA RefineIssue ==
  ASSUME IInv, NEW r \in Reqs, NEW n \in Tokens, Issue(r, n)
  PROVE  Family!Next
<1>1. /\ token'[n].fam = n /\ Unrevoked(n)' /\ ~Unrevoked(n)
      /\ \A t \in Tokens \ {n} : token'[t] = token[t]
  BY DEF Issue, IInv, TypeOK, Unrevoked
<1>2. \A t \in Tokens : token[t].fam # n
  BY FreeTokenIsNew DEF Issue
<1>3. SessionStatus(n) = "absent" /\ SessionStatus(n)' = "open"
  BY <1>1, <1>2 DEF SessionStatus
<1>4. \A s \in Tokens \ {n} : SessionStatus(s)' = SessionStatus(s)
  <2>1. \A t \in Tokens \ {n} : Unrevoked(t)' <=> Unrevoked(t)
    BY <1>1 DEF Unrevoked
  <2> QED BY <1>1, <2>1 DEF SessionStatus
<1>5. Family!Open(n)
  BY <1>3, <1>4 DEF Family!Open
<1> QED BY <1>5 DEF Family!Next

\* A rotation moves the one unrevoked token of a session, which stays open.
LEMMA RefineRotate ==
  ASSUME IInv, NEW r \in Reqs, NEW n \in Tokens, Rotate(r, n)
  PROVE  \A s \in Tokens : SessionStatus(s)' = SessionStatus(s)
<1> PICK t : t = req[r].tok
  OBVIOUS
<1>1. /\ t \in Tokens /\ t # n /\ Unrevoked(t) /\ ~Unrevoked(n)
      /\ token[t].fam # n /\ token[n].fam = NoToken
  BY FreeTokenIsNew DEF Rotate, IInv, RequestOK, TokensOK, FreeToken, Unrevoked
<1>2. /\ token'[n].fam = token[t].fam /\ Unrevoked(n)'
      /\ token'[t].fam = token[t].fam /\ ~Unrevoked(t)'
      /\ \A s \in Tokens \ {n, t} : token'[s] = token[s]
  BY <1>1 DEF Rotate, IInv, TypeOK, Token, Unrevoked
<1> TAKE s \in Tokens
<1>3. \A v \in Tokens \ {n, t} : (Unrevoked(v)' <=> Unrevoked(v)) /\ token'[v].fam = token[v].fam
  BY <1>2 DEF Unrevoked
<1>4. token'[s].fam = s <=> token[s].fam = s
  BY <1>1, <1>2, NoTokenAssumption
<1>5. (\E v \in Tokens : token'[v].fam = s /\ Unrevoked(v)')
        <=> (\E v \in Tokens : token[v].fam = s /\ Unrevoked(v))
  <2>1. CASE s = token[t].fam
    BY <1>1, <1>2, <2>1
  <2>2. CASE s # token[t].fam
    BY <1>1, <1>2, <1>3, <2>2
  <2> QED BY <2>1, <2>2
<1> QED BY <1>4, <1>5 DEF SessionStatus

\* Every step opens a session, ends some, or leaves all as they are.
LEMMA RefineNext == IInv /\ [Next]_vars => [Family!Next]_([s \in Tokens |-> SessionStatus(s)])
<1> DEFINE Status == [s \in Tokens |-> SessionStatus(s)]
<1> SUFFICES ASSUME IInv, [Next]_vars PROVE Family!Next \/ UNCHANGED Status
  OBVIOUS
<1>1. ASSUME UNCHANGED token PROVE UNCHANGED Status
  BY <1>1 DEF SessionStatus, Unrevoked
<1>2. CASE \E r \in Reqs : Arrive(r)
  <2>1. UNCHANGED token
    BY <1>2 DEF Arrive, Login, RefreshLookup, ResetLookup, ChangeVerify, SetActive
  <2> QED BY <1>1, <2>1
<1>3. CASE \E r \in Reqs : Step(r)
  <2> PICK r \in Reqs : Step(r)
    BY <1>3
  <2>1. CASE \E n \in Tokens : Issue(r, n) \/ Rotate(r, n)
    BY <2>1, RefineIssue, RefineRotate
  <2>2. CASE \/ RotateLost(r) \/ RefreshCheck(r) \/ Activate(r) \/ Deactivate(r)
             \/ ResetCommit(r) \/ ChangeWrite(r) \/ RevokeScan(r) \/ Crash(r)
    BY <1>1, <2>2 DEF RotateLost, RefreshCheck, Activate, Deactivate, ResetCommit, ChangeWrite,
                      RevokeScan, Crash
  <2>3. CASE RevokeWrite(r)
    BY <2>3, RefineRevoke DEF RevokeWrite
  <2> QED BY <2>1, <2>2, <2>3 DEF Step
<1>4. CASE \E t \in Tokens : Logout(t)
  BY <1>4, RefineRevoke DEF Logout
<1>5. CASE \E t \in Tokens : TokenExpires(t)
  <2> PICK t \in Tokens : TokenExpires(t)
    BY <1>5
  <2>1. \A s \in Tokens : token'[s].fam = token[s].fam /\ (Unrevoked(s)' <=> Unrevoked(s))
    BY DEF TokenExpires, IInv, TypeOK, Token, Unrevoked
  <2> QED BY <2>1 DEF SessionStatus
<1>6. CASE (\E p \in Resets : IssueReset(p) \/ ResetExpires(p)) \/ UNCHANGED vars
  BY <1>1, <1>6 DEF IssueReset, ResetExpires, vars
<1> QED BY <1>2, <1>3, <1>4, <1>5, <1>6 DEF Next

\* The customer's refresh tokens implement SessionFamily: no interleaving of
\* rotations, sign-outs, resets, changes and deactivations resumes an ended session.
THEOREM ImplementsSessionFamily == Spec => SessionsNeverResume
<1> QED BY RefineInit, RefineNext, Inductive, PTL DEF Spec, SessionsNeverResume, Family!Spec
=============================================================================
