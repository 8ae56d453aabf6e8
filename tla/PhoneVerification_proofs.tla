----------------------- MODULE PhoneVerification_proofs -----------------------
(***************************************************************************)
(* Proofs about PhoneVerification, for any number of phones, accounts,      *)
(* codes, tokens and concurrent requests, and any number of attempts.       *)
(***************************************************************************)
EXTENDS PhoneVerification, FiniteSetTheorems, TLAPS

\* What no step may do to a row: a code is never taken back once consumed, or
\* given another phone, purpose or owner; a token keeps its phone; an account
\* keeps the path it was made by.
OtpKept ==
  \A o \in Otps : otp[o].status # "free" =>
    /\ otp'[o].status # "free" /\ (otp[o].status = "consumed" => otp'[o].status = "consumed")
    /\ otp'[o].phone = otp[o].phone /\ otp'[o].purpose = otp[o].purpose
    /\ otp'[o].customer = otp[o].customer
VmtKept ==
  \A v \in Vmts : vmt[v].status # "free" =>
    vmt'[v].status # "free" /\ vmt'[v].phone = vmt[v].phone
PathKept ==
  \A c \in Customers : customer[c].path # "none" => customer'[c].path = customer[c].path

-----------------------------------------------------------------------------
(* Lemmas                                                                   *)

\* The state of a request slot between two calls is well typed, and fine.
LEMMA IdleType == Idle \in Request /\ RequestOK(Idle)
BY DEF Idle, Request, AllPurposes, RequestOK

\* What has been proved stays proved.
LEMMA ProofsLast ==
  ASSUME OtpKept, NEW o \in Otps, NEW p, NEW c, Proves(o, p, c)
  PROVE  /\ otp'[o].status = "consumed" /\ otp'[o].phone = p
         /\ IF c = NoCustomer THEN otp'[o].purpose \in TokenPurposes
            ELSE otp'[o].purpose = "PROFILE_MOBILE" /\ otp'[o].customer = c
BY DEF OtpKept, Proves

\* The requests that a step does not move stay fine.
LEMMA OthersFine ==
  ASSUME IInv, NEW r \in Reqs, NEW m \in Request, Goto(r, m), OtpKept, VmtKept, PathKept
  PROVE  /\ req' \in [Reqs -> Request] /\ req'[r] = m
         /\ \A q \in Reqs \ {r} : RequestOK(req[q])'
<1>1. req' = [req EXCEPT ![r] = m] /\ req \in [Reqs -> Request]
  BY DEF Goto, IInv, TypeOK
<1>2. ASSUME NEW q \in Reqs \ {r} PROVE RequestOK(req[q])'
  <2>1. req'[q] = req[q] /\ RequestOK(req[q]) /\ req[q] \in Request
    BY <1>1 DEF IInv
  <2>2. req[q].customer \in Customers \cup {NoCustomer}
    BY <2>1 DEF Request
  <2>3. req[q].pc = "issue" => \E o \in Otps : Proves(o, req[q].phone, NoCustomer)'
    BY <2>1, ProofsLast DEF RequestOK, Proves
  <2>4. req[q].pc = "bind" => \E o \in Otps : Proves(o, req[q].phone, req[q].customer)'
    BY <2>1, ProofsLast DEF RequestOK, Proves
  <2>5. req[q].pc = "compare" =>
          /\ req[q].id \in Otps /\ otp'[req[q].id].status # "free"
          /\ otp'[req[q].id].phone = req[q].phone /\ otp'[req[q].id].purpose = req[q].purpose
    BY <2>1 DEF RequestOK, OtpKept
  <2>6. req[q].pc = "create" =>
          /\ req[q].id \in Vmts /\ vmt'[req[q].id].status # "free"
          /\ vmt'[req[q].id].phone = req[q].phone
    BY <2>1 DEF RequestOK, VmtKept
  <2>7. req[q].pc \in {"compare", "bind"} /\ req[q].customer # NoCustomer =>
          customer'[req[q].customer].path = "SOCIAL"
    BY <2>1, <2>2 DEF RequestOK, PathKept
  <2> QED BY <2>1, <2>3, <2>4, <2>5, <2>6, <2>7 DEF RequestOK
<1> QED BY <1>1, <1>2

\* A write of the codes alone: what rests on consumed codes still does.
LEMMA CodesWritten ==
  ASSUME IInv, OtpKept, otp' \in [Otps -> Otp], UNCHANGED <<customer, vmt>>,
         \A o \in Otps : otp'[o].status # "free" => otp'[o].phone \in Phones
  PROVE  RowsOK' /\ PhonesAreVerified' /\ SpentTokenMadeAccount' /\ VmtKept /\ PathKept
<1>1. \A p, c : (\E o \in Otps : Proves(o, p, c)) => \E o \in Otps : Proves(o, p, c)'
  BY ProofsLast DEF Proves
<1>2. RowsOK'
  BY <1>1 DEF IInv, RowsOK
<1>3. PhonesAreVerified'
  <2>1. \A c \in Customers : ProofFor(c)' = ProofFor(c)
    BY DEF ProofFor
  <2>2. ASSUME NEW c \in Customers, customer[c].phone # NoPhone
        PROVE  \E o \in Otps : Proves(o, customer[c].phone, ProofFor(c))'
    <3>1. PICK o \in Otps : Proves(o, customer[c].phone, ProofFor(c))
      BY <2>2 DEF IInv, PhonesAreVerified
    <3>2. /\ otp'[o].status = "consumed" /\ otp'[o].phone = customer[c].phone
          /\ IF ProofFor(c) = NoCustomer THEN otp'[o].purpose \in TokenPurposes
             ELSE otp'[o].purpose = "PROFILE_MOBILE" /\ otp'[o].customer = ProofFor(c)
      BY <3>1, ProofsLast
    <3> QED BY <2>1, <3>2 DEF Proves
  <2> QED BY <2>2 DEF IInv, PhonesAreVerified
<1>4. SpentTokenMadeAccount' /\ VmtKept /\ PathKept
  BY DEF IInv, SpentTokenMadeAccount, VmtKept, PathKept
<1> QED BY <1>2, <1>3, <1>4

-----------------------------------------------------------------------------
(* The inductive invariant                                                  *)

\* The initial state, without rows or requests, satisfies it.
LEMMA InitIInv == Init => IInv
<1> SUFFICES ASSUME Init PROVE IInv
  OBVIOUS
<1>1. TypeOK
  BY IdleType, MaxAttemptsAssumption
     DEF Init, TypeOK, Absent, FreeOtp, FreeVmt, Customer, Otp, Vmt, AllPurposes
<1>2. RowsOK /\ PhonesAreVerified /\ SpentTokenMadeAccount
  BY DEF Init, RowsOK, PhonesAreVerified, SpentTokenMadeAccount, Absent, FreeOtp, FreeVmt
<1>3. \A r \in Reqs : RequestOK(req[r])
  BY IdleType DEF Init
<1> QED BY <1>1, <1>2, <1>3 DEF IInv

\* A step that moves one request and writes no row.
LEMMA Move ==
  ASSUME IInv, NEW r \in Reqs, NEW m \in Request, Goto(r, m), RequestOK(m),
         UNCHANGED <<customer, otp, vmt>>
  PROVE  IInv'
<1>1. OtpKept /\ VmtKept /\ PathKept
  BY DEF OtpKept, VmtKept, PathKept
<1>2. /\ req' \in [Reqs -> Request] /\ req'[r] = m
      /\ \A q \in Reqs \ {r} : RequestOK(req[q])'
  BY <1>1, OthersFine
<1>3. RequestOK(req[r])'
  BY <1>2 DEF RequestOK, Proves
<1>4. RowsOK' /\ PhonesAreVerified' /\ SpentTokenMadeAccount'
  BY DEF IInv, RowsOK, PhonesAreVerified, SpentTokenMadeAccount, Proves, ProofFor
<1> QED BY <1>2, <1>3, <1>4 DEF IInv, TypeOK

\* A request that arrives reads rows and writes none.
LEMMA StepArrive ==
  ASSUME IInv, NEW r \in Reqs, Arrive(r)
  PROVE  IInv'
<1>0. TypeOK /\ RowsOK /\ Idle \in Request
  BY IdleType DEF IInv
<1>1. CASE \E p \in Phones : SignupStart(r, p)
  <2> PICK p \in Phones : SignupStart(r, p)
    BY <1>1
  <2> DEFINE m == [Idle EXCEPT !.pc = "send", !.purpose = "SIGNUP", !.phone = p]
  <2>1. m \in Request /\ RequestOK(m)
    BY <1>0 DEF Request, RequestOK, Idle, AllPurposes
  <2> QED BY <2>1, Move DEF SignupStart
<1>2. CASE \E q \in Purposes, p \in Phones : RequestOtp(r, q, p)
  <2> PICK q \in Purposes, p \in Phones : RequestOtp(r, q, p)
    BY <1>2
  <2> DEFINE m == [Idle EXCEPT !.pc = "send", !.purpose = q, !.phone = p]
  <2>1. m \in Request /\ RequestOK(m)
    BY <1>0, PurposesAssumption DEF Request, RequestOK, Idle
  <2> QED BY <2>1, Move DEF RequestOtp
<1>3. CASE \E c \in Customers, p \in Phones : ProfileRequestOtp(r, c, p)
  <2> PICK c \in Customers, p \in Phones : ProfileRequestOtp(r, c, p)
    BY <1>3
  <2> DEFINE m == [Idle EXCEPT !.pc = "send", !.purpose = "PROFILE_MOBILE",
                               !.phone = p, !.customer = c]
  <2>1. m \in Request /\ RequestOK(m)
    BY <1>0 DEF Request, RequestOK, Idle, AllPurposes
  <2> QED BY <2>1, Move DEF ProfileRequestOtp
<1>4. CASE \E o \in Otps : VerifyOtp(r, o)
  <2> PICK o \in Otps : VerifyOtp(r, o)
    BY <1>4
  <2> DEFINE m == [Idle EXCEPT !.pc = "compare", !.purpose = otp[o].purpose,
                               !.phone = otp[o].phone, !.customer = NoCustomer, !.id = o]
  <2>1. otp[o].status = "open" /\ otp[o] \in Otp /\ otp[o].phone \in Phones
    BY <1>0 DEF VerifyOtp, Compare, Usable, TypeOK, RowsOK
  <2>2. m \in Request /\ RequestOK(m)
    BY <1>0, <2>1 DEF Request, RequestOK, Idle, Otp
  <2> QED BY <2>2, Move DEF VerifyOtp, Compare
<1>5. CASE \E c \in Customers, o \in Otps : ProfileVerifyOtp(r, c, o)
  <2> PICK c \in Customers, o \in Otps : ProfileVerifyOtp(r, c, o)
    BY <1>5
  <2> DEFINE m == [Idle EXCEPT !.pc = "compare", !.purpose = otp[o].purpose,
                               !.phone = otp[o].phone, !.customer = c, !.id = o]
  <2>1. /\ otp[o].status = "open" /\ otp[o] \in Otp /\ otp[o].phone \in Phones
        /\ otp[o].purpose = "PROFILE_MOBILE"
    BY <1>0 DEF ProfileVerifyOtp, Compare, Usable, TypeOK, RowsOK
  <2>2. customer[c].path = "SOCIAL"
    BY <1>0, NoPhoneAssumption DEF ProfileVerifyOtp, RowsOK, TypeOK, Customer
  <2>3. m \in Request /\ RequestOK(m)
    BY <1>0, <2>1, <2>2 DEF Request, RequestOK, Idle, Otp
  <2> QED BY <2>3, Move DEF ProfileVerifyOtp, Compare
<1>6. CASE \E v \in Vmts : SignupLookup(r, v)
  <2> PICK v \in Vmts : SignupLookup(r, v)
    BY <1>6
  <2> DEFINE m == [Idle EXCEPT !.pc = "create", !.phone = vmt[v].phone, !.id = v]
  <2>1. vmt[v].status = "open" /\ vmt[v].phone \in Phones
    BY <1>0 DEF SignupLookup, RowsOK
  <2>2. m \in Request /\ RequestOK(m)
    BY <1>0, <2>1 DEF Request, RequestOK, Idle
  <2> QED BY <2>2, Move DEF SignupLookup
<1> QED BY <1>1, <1>2, <1>3, <1>4, <1>5, <1>6 DEF Arrive

\* A code is written: sent, guessed wrong or guessed right.
LEMMA StepCode ==
  ASSUME IInv, NEW r \in Reqs, (\E o \in Otps : SendOtp(r, o)) \/ WrongCode(r) \/ RightCode(r)
  PROVE  IInv'
<1> DEFINE m == req[r]
<1>0. TypeOK /\ RowsOK /\ m \in Request /\ RequestOK(m) /\ Idle \in Request
  BY IdleType DEF IInv, TypeOK
<1>1. CASE \E o \in Otps : SendOtp(r, o)
  <2> PICK o \in Otps : SendOtp(r, o)
    BY <1>1
  <2> DEFINE new == [status |-> "open", purpose |-> m.purpose, phone |-> m.phone,
                     customer |-> m.customer, attemptsLeft |-> MaxAttempts]
  <2>1. new \in Otp /\ new.phone \in Phones
    BY <1>0, MaxAttemptsAssumption DEF Otp, Request, RequestOK, SendOtp
  <2>2. otp' = [otp EXCEPT ![o] = new]
    BY DEF SendOtp
  <2> HIDE DEF new
  <2>3. otp' \in [Otps -> Otp] /\ OtpKept
        /\ \A x \in Otps : otp'[x].status # "free" => otp'[x].phone \in Phones
    BY <1>0, <2>1, <2>2 DEF TypeOK, RowsOK, OtpKept, SendOtp
  <2>4. RowsOK' /\ PhonesAreVerified' /\ SpentTokenMadeAccount' /\ VmtKept /\ PathKept
    BY <2>3, CodesWritten DEF SendOtp
  <2>5. /\ req' \in [Reqs -> Request] /\ req'[r] = Idle
        /\ \A q \in Reqs \ {r} : RequestOK(req[q])'
    BY <1>0, <2>3, <2>4, OthersFine DEF SendOtp
  <2>6. RequestOK(req[r])'
    BY <2>5 DEF RequestOK, Idle
  <2> QED BY <1>0, <2>3, <2>4, <2>5, <2>6 DEF IInv, TypeOK, SendOtp
<1>2. CASE WrongCode(r)
  <2>1. m.id \in Otps
    BY <1>0, <1>2 DEF RequestOK, WrongCode
  <2>2. otp' \in [Otps -> Otp] /\ OtpKept
        /\ \A x \in Otps : otp'[x].status # "free" => otp'[x].phone \in Phones
    BY <1>0, <1>2, <2>1 DEF WrongCode, TypeOK, RowsOK, OtpKept, Otp
  <2>3. RowsOK' /\ PhonesAreVerified' /\ SpentTokenMadeAccount' /\ VmtKept /\ PathKept
    BY <1>2, <2>2, CodesWritten DEF WrongCode
  <2>4. /\ req' \in [Reqs -> Request] /\ req'[r] = Idle
        /\ \A q \in Reqs \ {r} : RequestOK(req[q])'
    BY <1>0, <1>2, <2>2, <2>3, OthersFine DEF WrongCode
  <2>5. RequestOK(req[r])'
    BY <2>4 DEF RequestOK, Idle
  <2> QED BY <1>0, <1>2, <2>2, <2>3, <2>4, <2>5 DEF IInv, TypeOK, WrongCode
<1>3. CASE RightCode(r)
  <2> PICK o \in Otps : o = m.id
    BY <1>0, <1>3 DEF RequestOK, RightCode
  <2>1. /\ otp[o].status # "free" /\ otp[o].phone = m.phone /\ otp[o].purpose = m.purpose
        /\ m.phone \in Phones /\ m.pc = "compare"
        /\ m.customer # NoCustomer =>
             m.purpose = "PROFILE_MOBILE" /\ customer[m.customer].path = "SOCIAL"
    BY <1>0, <1>3 DEF RequestOK, RightCode
  <2>2. otp' \in [Otps -> Otp] /\ OtpKept /\ otp'[o].status = "consumed"
        /\ \A x \in Otps : otp'[x].status # "free" => otp'[x].phone \in Phones
    <3> DEFINE new == [otp[o] EXCEPT !.status = "consumed"]
    <3>1. /\ new \in Otp /\ new.status = "consumed" /\ new.phone = otp[o].phone
          /\ new.purpose = otp[o].purpose /\ new.customer = otp[o].customer
      BY <1>0 DEF TypeOK, Otp
    <3>2. otp' = [otp EXCEPT ![o] = new]
      BY <1>3 DEF RightCode
    <3> HIDE DEF new
    <3>3. otp'[o] = new /\ \A x \in Otps \ {o} : otp'[x] = otp[x]
      BY <1>0, <3>2 DEF TypeOK
    <3>4. otp' \in [Otps -> Otp]
      BY <1>0, <3>1, <3>2 DEF TypeOK
    <3> QED BY <1>0, <2>1, <3>1, <3>3, <3>4 DEF RowsOK, OtpKept
  <2>3. RowsOK' /\ PhonesAreVerified' /\ SpentTokenMadeAccount' /\ VmtKept /\ PathKept
    BY <1>3, <2>2, CodesWritten DEF RightCode
  <2> DEFINE next == AfterVerify(m, otp[o].customer)
  <2>4. \/ next = Idle
        \/ /\ next = [m EXCEPT !.pc = "bind"]
           /\ m.customer # NoCustomer /\ otp[o].customer = m.customer
        \/ /\ next = [m EXCEPT !.pc = "issue"]
           /\ m.customer = NoCustomer /\ m.purpose \in TokenPurposes
    BY DEF AfterVerify
  <2>5. next \in Request /\ Goto(r, next)
    BY <1>0, <1>3, <2>4 DEF Request, RightCode
  <2>6. /\ req' \in [Reqs -> Request] /\ req'[r] = next
        /\ \A q \in Reqs \ {r} : RequestOK(req[q])'
    BY <2>2, <2>3, <2>5, OthersFine
  <2>7. /\ otp'[o].phone = m.phone /\ otp'[o].purpose = m.purpose
        /\ otp'[o].customer = otp[o].customer
    BY <2>1, <2>2 DEF OtpKept
  <2>8. RequestOK(req[r])'
    <3>1. CASE next = Idle
      BY <2>6, <3>1 DEF RequestOK, Idle
    <3>2. CASE /\ next = [m EXCEPT !.pc = "bind"]
               /\ m.customer # NoCustomer /\ otp[o].customer = m.customer
      <4>1. /\ req'[r].pc = "bind" /\ req'[r].phone = m.phone
            /\ req'[r].customer = m.customer /\ m.customer \in Customers
        BY <1>0, <2>6, <3>2 DEF Request
      <4>2. Proves(o, req[r].phone, req[r].customer)'
        BY <2>1, <2>2, <2>7, <3>2, <4>1 DEF Proves
      <4>3. customer'[m.customer].path = "SOCIAL"
        BY <1>3, <2>1, <3>2 DEF RightCode
      <4> QED BY <2>1, <4>1, <4>2, <4>3 DEF RequestOK
    <3>3. CASE /\ next = [m EXCEPT !.pc = "issue"]
               /\ m.customer = NoCustomer /\ m.purpose \in TokenPurposes
      <4>1. req'[r].pc = "issue" /\ req'[r].phone = m.phone
        BY <1>0, <2>6, <3>3 DEF Request
      <4>2. Proves(o, req[r].phone, NoCustomer)'
        BY <2>2, <2>7, <3>3, <4>1 DEF Proves
      <4> QED BY <2>1, <4>1, <4>2 DEF RequestOK
    <3> QED BY <2>4, <3>1, <3>2, <3>3
  <2> QED BY <1>0, <1>3, <2>2, <2>3, <2>6, <2>8 DEF IInv, TypeOK, RightCode
<1> QED BY <1>1, <1>2, <1>3

\* A token is issued on the code that was just verified.
LEMMA StepIssueVmt ==
  ASSUME IInv, NEW r \in Reqs, NEW v \in Vmts, IssueVmt(r, v)
  PROVE  IInv'
<1> DEFINE new == [status |-> "open", phone |-> req[r].phone]
<1>0. /\ TypeOK /\ RowsOK /\ Idle \in Request
      /\ req[r].phone \in Phones /\ \E o \in Otps : Proves(o, req[r].phone, NoCustomer)
  BY IdleType DEF IInv, RequestOK, IssueVmt
<1>1. vmt' = [vmt EXCEPT ![v] = new] /\ new \in Vmt
  BY <1>0 DEF IssueVmt, Vmt
<1>2. /\ vmt'[v].status = "open" /\ vmt'[v].phone = req[r].phone
      /\ \A x \in Vmts \ {v} : vmt'[x] = vmt[x]
  BY <1>0, <1>1 DEF TypeOK
<1>3. vmt' \in [Vmts -> Vmt]
  <2> HIDE DEF new
  <2> QED BY <1>0, <1>1 DEF TypeOK
<1>4. OtpKept /\ VmtKept /\ PathKept
  BY <1>2 DEF IssueVmt, OtpKept, VmtKept, PathKept
<1>5. RowsOK' /\ PhonesAreVerified' /\ SpentTokenMadeAccount'
  <2>1. UNCHANGED <<customer, otp>>
    BY DEF IssueVmt
  <2>2. RowsOK'
    BY <1>0, <1>2, <2>1 DEF RowsOK, Proves
  <2>3. PhonesAreVerified'
    BY <2>1 DEF IInv, PhonesAreVerified, Proves, ProofFor
  <2>4. SpentTokenMadeAccount'
    BY <1>2, <2>1 DEF IInv, SpentTokenMadeAccount
  <2> QED BY <2>2, <2>3, <2>4
<1>6. /\ req' \in [Reqs -> Request] /\ req'[r] = Idle
      /\ \A q \in Reqs \ {r} : RequestOK(req[q])'
  BY <1>0, <1>4, OthersFine DEF IssueVmt
<1>7. RequestOK(req[r])'
  BY <1>6 DEF RequestOK, Idle
<1> QED BY <1>0, <1>3, <1>5, <1>6, <1>7 DEF IInv, TypeOK, IssueVmt

\* A phone is bound to the account that asked for its code, which never signs
\* up by phone; UNIQUE(phone) keeps it from every other account.
LEMMA StepBind ==
  ASSUME IInv, NEW r \in Reqs, BindMobile(r)
  PROVE  IInv'
<1> DEFINE c == req[r].customer
           p == req[r].phone
<1>0. /\ TypeOK /\ RowsOK /\ Idle \in Request
      /\ c \in Customers /\ p \in Phones /\ \E o \in Otps : Proves(o, p, c)
      /\ customer[c].path = "SOCIAL"
  <2>1. RequestOK(req[r]) /\ req[r].pc = "bind" /\ TypeOK /\ RowsOK
    BY DEF IInv, BindMobile
  <2> QED BY <2>1, IdleType, NoCustomerAssumption DEF RequestOK
<1>1. /\ customer' \in [Customers -> Customer]
      /\ customer'[c].path = "SOCIAL" /\ customer'[c].phone = p
      /\ \A d \in Customers \ {c} : customer'[d] = customer[d]
  BY <1>0 DEF BindMobile, TypeOK, Customer
<1>2. UNCHANGED <<otp, vmt>> /\ \A d \in Customers \ {c} : customer[d].phone # p
  BY DEF BindMobile
<1> HIDE DEF c, p
<1>3. OtpKept /\ VmtKept /\ PathKept
  BY <1>0, <1>1, <1>2 DEF OtpKept, VmtKept, PathKept
<1>4. RowsOK'
  BY <1>0, <1>1, <1>2 DEF RowsOK, Proves
<1>5. PhonesAreVerified'
  <2>1. ASSUME NEW d \in Customers, customer'[d].phone # NoPhone
        PROVE  \E o \in Otps : Proves(o, customer[d].phone, ProofFor(d))'
    <3>1. CASE d = c
      BY <1>0, <1>1, <1>2, <3>1 DEF Proves, ProofFor
    <3>2. CASE d # c
      <4>1. \E o \in Otps : Proves(o, customer[d].phone, ProofFor(d))
        BY <1>1, <2>1, <3>2 DEF IInv, PhonesAreVerified
      <4> QED BY <1>1, <1>2, <3>2, <4>1 DEF Proves, ProofFor
    <3> QED BY <3>1, <3>2
  <2>2. \A d, e \in Customers :
          customer'[d].phone = customer'[e].phone /\ customer'[d].phone # NoPhone => d = e
    BY <1>1, <1>2 DEF IInv, PhonesAreVerified
  <2> QED BY <2>1, <2>2 DEF PhonesAreVerified
<1>6. SpentTokenMadeAccount'
  <2>1. \A d \in Customers : customer[d].path = "PHONE" => customer'[d] = customer[d]
    BY <1>0, <1>1
  <2> QED BY <1>2, <2>1 DEF IInv, SpentTokenMadeAccount
<1>7. /\ req' \in [Reqs -> Request] /\ req'[r] = Idle
      /\ \A q \in Reqs \ {r} : RequestOK(req[q])'
  BY <1>0, <1>3, OthersFine DEF BindMobile
<1>8. RequestOK(req[r])'
  BY <1>7 DEF RequestOK, Idle
<1> QED BY <1>0, <1>1, <1>2, <1>4, <1>5, <1>6, <1>7, <1>8 DEF IInv, TypeOK

\* A sign-up makes an account for the phone of its token, in the transaction
\* that consumes the token.
LEMMA StepSignup ==
  ASSUME IInv, NEW r \in Reqs, NEW c \in Customers, SignupCommit(r, c)
  PROVE  IInv'
<1> DEFINE p == req[r].phone
           v == req[r].id
<1>0. /\ TypeOK /\ RowsOK /\ Idle \in Request
      /\ v \in Vmts /\ vmt[v].status # "free" /\ vmt[v].phone = p
  BY IdleType DEF IInv, RequestOK, SignupCommit
<1>1. p \in Phones /\ \E o \in Otps : Proves(o, p, NoCustomer)
  BY <1>0 DEF RowsOK
<1>2. /\ customer' \in [Customers -> Customer]
      /\ customer'[c].path = "PHONE" /\ customer'[c].phone = p
      /\ \A d \in Customers \ {c} : customer'[d] = customer[d]
  <2>1. [path |-> "PHONE", phone |-> p] \in Customer
    BY <1>1 DEF Customer
  <2> QED BY <1>0, <2>1 DEF SignupCommit, TypeOK
<1>3. /\ vmt' \in [Vmts -> Vmt]
      /\ vmt'[v].status = "consumed" /\ vmt'[v].phone = p
      /\ \A x \in Vmts \ {v} : vmt'[x] = vmt[x]
  BY <1>0 DEF SignupCommit, TypeOK, Vmt
<1>4. otp' = otp /\ customer[c].path = "none" /\ \A d \in Customers : customer[d].phone # p
  BY DEF SignupCommit, Taken
<1> HIDE DEF p, v
<1>5. OtpKept /\ VmtKept /\ PathKept
  BY <1>0, <1>2, <1>3, <1>4 DEF OtpKept, VmtKept, PathKept
<1>6. RowsOK'
  BY <1>0, <1>1, <1>2, <1>3, <1>4 DEF RowsOK, Proves
<1>7. PhonesAreVerified'
  <2>1. ASSUME NEW d \in Customers, customer'[d].phone # NoPhone
        PROVE  \E o \in Otps : Proves(o, customer[d].phone, ProofFor(d))'
    <3>1. CASE d = c
      BY <1>1, <1>2, <1>4, <3>1 DEF Proves, ProofFor
    <3>2. CASE d # c
      <4>1. \E o \in Otps : Proves(o, customer[d].phone, ProofFor(d))
        BY <1>2, <2>1, <3>2 DEF IInv, PhonesAreVerified
      <4> QED BY <1>2, <1>4, <3>2, <4>1 DEF Proves, ProofFor
    <3> QED BY <3>1, <3>2
  <2>2. \A d, e \in Customers :
          customer'[d].phone = customer'[e].phone /\ customer'[d].phone # NoPhone => d = e
    BY <1>2, <1>4 DEF IInv, PhonesAreVerified
  <2> QED BY <2>1, <2>2 DEF PhonesAreVerified
<1>8. SpentTokenMadeAccount'
  <2>1. \A d \in Customers : customer[d].path = "PHONE" => customer'[d] = customer[d]
    BY <1>2, <1>4
  <2> SUFFICES ASSUME NEW x \in Vmts, vmt'[x].status = "consumed"
               PROVE  \E d \in Customers : /\ customer'[d].path = "PHONE"
                                           /\ customer'[d].phone = vmt'[x].phone
    BY DEF SpentTokenMadeAccount
  <2>2. CASE x = v
    BY <1>2, <1>3, <2>2
  <2>3. CASE x # v
    BY <1>3, <2>1, <2>3 DEF IInv, SpentTokenMadeAccount
  <2> QED BY <2>2, <2>3
<1>9. /\ req' \in [Reqs -> Request] /\ req'[r] = Idle
      /\ \A q \in Reqs \ {r} : RequestOK(req[q])'
  BY <1>0, <1>5, OthersFine DEF SignupCommit
<1>10. RequestOK(req[r])'
  BY <1>9 DEF RequestOK, Idle
<1> QED BY <1>0, <1>2, <1>3, <1>4, <1>6, <1>7, <1>8, <1>9, <1>10 DEF IInv, TypeOK

\* What happens to rows with no request in flight behind it.
LEMMA StepAlone ==
  ASSUME IInv,
         \/ \E c \in Customers : SocialSignUp(c)
         \/ \E o \in Otps : OtpExpires(o)
         \/ \E v \in Vmts : VmtExpires(v)
  PROVE  IInv'
<1>0. TypeOK /\ RowsOK
  BY DEF IInv
<1>1. CASE \E c \in Customers : SocialSignUp(c)
  <2> PICK c \in Customers : SocialSignUp(c)
    BY <1>1
  <2>1. /\ customer' \in [Customers -> Customer]
        /\ customer'[c].path = "SOCIAL" /\ customer'[c].phone = NoPhone
        /\ \A d \in Customers \ {c} : customer'[d] = customer[d]
        /\ customer[c].path = "none" /\ customer[c].phone = NoPhone
        /\ UNCHANGED <<otp, vmt, req>>
    BY <1>0 DEF SocialSignUp, TypeOK, Customer, RowsOK
  <2>2. RowsOK'
    BY <1>0, <2>1 DEF RowsOK, Proves
  <2>3. PhonesAreVerified'
    <3>1. ASSUME NEW d \in Customers, customer'[d].phone # NoPhone
          PROVE  \E o \in Otps : Proves(o, customer[d].phone, ProofFor(d))'
      <4>1. d # c /\ \E o \in Otps : Proves(o, customer[d].phone, ProofFor(d))
        BY <2>1, <3>1 DEF IInv, PhonesAreVerified
      <4> QED BY <2>1, <4>1 DEF Proves, ProofFor
    <3>2. \A d, e \in Customers :
            customer'[d].phone = customer'[e].phone /\ customer'[d].phone # NoPhone => d = e
      BY <2>1 DEF IInv, PhonesAreVerified
    <3> QED BY <3>1, <3>2 DEF PhonesAreVerified
  <2>4. SpentTokenMadeAccount'
    BY <2>1 DEF IInv, SpentTokenMadeAccount
  <2>5. \A q \in Reqs : RequestOK(req[q])'
    <3> TAKE q \in Reqs
    <3>1. RequestOK(req[q]) /\ req[q].customer \in Customers \cup {NoCustomer}
      BY DEF IInv, TypeOK, Request
    <3> QED BY <2>1, <3>1 DEF RequestOK, Proves
  <2> QED BY <1>0, <2>1, <2>2, <2>3, <2>4, <2>5 DEF IInv, TypeOK
<1>2. CASE \E o \in Otps : OtpExpires(o)
  <2> PICK o \in Otps : OtpExpires(o)
    BY <1>2
  <2>1. otp' \in [Otps -> Otp] /\ OtpKept
        /\ \A x \in Otps : otp'[x].status # "free" => otp'[x].phone \in Phones
    BY <1>0 DEF OtpExpires, TypeOK, RowsOK, OtpKept, Otp
  <2>2. RowsOK' /\ PhonesAreVerified' /\ SpentTokenMadeAccount' /\ VmtKept /\ PathKept
    BY <2>1, CodesWritten DEF OtpExpires
  <2>3. \A q \in Reqs : RequestOK(req[q])'
    <3> TAKE q \in Reqs
    <3>1. RequestOK(req[q]) /\ req'[q] = req[q] /\ UNCHANGED <<customer, vmt>>
      BY DEF IInv, OtpExpires
    <3>2. \A p, c : (\E x \in Otps : Proves(x, p, c)) => \E x \in Otps : Proves(x, p, c)'
      BY <2>1, ProofsLast DEF Proves
    <3>3. req[q].pc = "issue" => \E x \in Otps : Proves(x, req[q].phone, NoCustomer)'
      BY <3>1, <3>2 DEF RequestOK, Proves
    <3>4. req[q].pc = "bind" => \E x \in Otps : Proves(x, req[q].phone, req[q].customer)'
      BY <3>1, <3>2 DEF RequestOK, Proves
    <3> QED BY <2>1, <3>1, <3>3, <3>4 DEF RequestOK, OtpKept
  <2> QED BY <1>0, <2>1, <2>2, <2>3 DEF IInv, TypeOK, OtpExpires
<1>3. CASE \E v \in Vmts : VmtExpires(v)
  <2> PICK v \in Vmts : VmtExpires(v)
    BY <1>3
  <2>1. /\ vmt' \in [Vmts -> Vmt]
        /\ \A x \in Vmts : /\ vmt'[x].phone = vmt[x].phone
                           /\ vmt[x].status = "free" <=> vmt'[x].status = "free"
                           /\ vmt'[x].status = "consumed" => vmt[x].status = "consumed"
        /\ UNCHANGED <<customer, otp, req>>
    BY <1>0 DEF VmtExpires, TypeOK, Vmt
  <2>2. RowsOK' /\ SpentTokenMadeAccount'
    BY <1>0, <2>1 DEF IInv, RowsOK, SpentTokenMadeAccount, Proves
  <2>3. PhonesAreVerified'
    BY <2>1 DEF IInv, PhonesAreVerified, Proves, ProofFor
  <2>4. \A q \in Reqs : RequestOK(req[q])'
    BY <2>1 DEF IInv, RequestOK, Proves
  <2> QED BY <1>0, <2>1, <2>2, <2>3, <2>4 DEF IInv, TypeOK
<1> QED BY <1>1, <1>2, <1>3

-----------------------------------------------------------------------------
(* Theorems                                                                 *)

\* Every step keeps the inductive invariant.
LEMMA NextIInv == IInv /\ [Next]_vars => IInv'
<1> SUFFICES ASSUME IInv, [Next]_vars PROVE IInv'
  OBVIOUS
<1>1. CASE \E r \in Reqs : Arrive(r)
  BY <1>1, StepArrive
<1>2. CASE \E r \in Reqs : Step(r)
  <2> PICK r \in Reqs : Step(r)
    BY <1>2
  <2>1. CASE (\E o \in Otps : SendOtp(r, o)) \/ WrongCode(r) \/ RightCode(r)
    BY <2>1, StepCode
  <2>2. CASE \E v \in Vmts : IssueVmt(r, v)
    BY <2>2, StepIssueVmt
  <2>3. CASE BindMobile(r)
    BY <2>3, StepBind
  <2>4. CASE \E c \in Customers : SignupCommit(r, c)
    BY <2>4, StepSignup
  <2>5. CASE BindConflict(r) \/ SignupConflict(r) \/ Crash(r)
    BY <2>5, IdleType, Move DEF BindConflict, SignupConflict, Crash
  <2> QED BY <2>1, <2>2, <2>3, <2>4, <2>5 DEF Step
<1>3. CASE \/ \E c \in Customers : SocialSignUp(c)
           \/ \E o \in Otps : OtpExpires(o)
           \/ \E v \in Vmts : VmtExpires(v)
  BY <1>3, StepAlone
<1>4. CASE UNCHANGED vars
  BY <1>4 DEF vars, IInv, TypeOK, RowsOK, PhonesAreVerified, SpentTokenMadeAccount, RequestOK,
              Proves, ProofFor
<1> QED BY <1>1, <1>2, <1>3, <1>4 DEF Next

\* The strengthened invariant holds in every reachable state.
THEOREM Inductive == Spec => []IInv
<1> QED BY InitIInv, NextIInv, PTL DEF Spec

\* No account ever has a phone whose code nobody typed for it, however many
\* sign-ups and bindings race for however many phones.
THEOREM PhonesStayVerified == Spec => []PhonesAreVerified
<1>1. IInv => PhonesAreVerified
  BY DEF IInv
<1> QED BY <1>1, Inductive, PTL

\* A token is spent only on an account for its phone.
THEOREM TokensAreWellSpent == Spec => []SpentTokenMadeAccount
<1>1. IInv => SpentTokenMadeAccount
  BY DEF IInv
<1> QED BY <1>1, Inductive, PTL

-----------------------------------------------------------------------------
(* Guesses                                                                  *)

\* At most every request compares a guess at the same time.
LEMMA SomeRequests ==
  ASSUME NEW S \in SUBSET Reqs
  PROVE  /\ IsFiniteSet(S) /\ Cardinality(S) \in Nat /\ Cardinality(Reqs) \in Nat
         /\ Cardinality(S) <= Cardinality(Reqs)
         /\ \A T \in SUBSET S : Cardinality(T) \in Nat /\ Cardinality(T) <= Cardinality(S)
<1>1. IsFiniteSet(S) /\ Cardinality(S) <= Cardinality(Reqs)
  BY FS_Subset, ReqsAssumption
<1>2. \A T \in SUBSET S : IsFiniteSet(T) /\ Cardinality(T) <= Cardinality(S)
  BY <1>1, FS_Subset
<1> QED BY <1>1, <1>2, FS_CardinalityType, ReqsAssumption

\* A code with an attempt left, or one that lost none and is guessed at by no
\* more requests than before, keeps the bound.
LEMMA GuessesKept ==
  ASSUME IInv, GuessesBounded, NEW o \in Otps, otp'[o].attemptsLeft \in Int,
         \/ otp'[o].attemptsLeft >= 1
         \/ /\ otp'[o].attemptsLeft >= otp[o].attemptsLeft
            /\ Comparing(o)' \subseteq Comparing(o)
  PROVE  otp'[o].attemptsLeft - Cardinality(Comparing(o)') >= 1 - Cardinality(Reqs)
<1>1. Comparing(o) \in SUBSET Reqs /\ Comparing(o)' \in SUBSET Reqs
  BY DEF Comparing
<1>2. otp[o].attemptsLeft \in Int
  BY DEF IInv, TypeOK, Otp
<1>3. /\ Cardinality(Comparing(o)) \in Nat /\ Cardinality(Comparing(o)') \in Nat
      /\ Cardinality(Reqs) \in Nat /\ Cardinality(Comparing(o)') <= Cardinality(Reqs)
  BY <1>1, SomeRequests
<1>4. otp[o].attemptsLeft - Cardinality(Comparing(o)) >= 1 - Cardinality(Reqs)
  BY DEF GuessesBounded
<1>5. CASE otp'[o].attemptsLeft >= 1
  BY <1>3, <1>5
<1>6. CASE /\ otp'[o].attemptsLeft >= otp[o].attemptsLeft
           /\ Comparing(o)' \subseteq Comparing(o)
  <2>1. Cardinality(Comparing(o)') <= Cardinality(Comparing(o))
    BY <1>1, <1>6, SomeRequests
  <2> QED BY <1>2, <1>3, <1>4, <1>6, <2>1
<1> QED BY <1>5, <1>6

\* Only a guess that has begun and the code it found usable move the bound.
LEMMA NextGuesses == IInv /\ GuessesBounded /\ [Next]_vars => GuessesBounded'
<1> SUFFICES ASSUME IInv, GuessesBounded, [Next]_vars, NEW o \in Otps
             PROVE  otp'[o].attemptsLeft - Cardinality(Comparing(o)') >= 1 - Cardinality(Reqs)
  BY DEF GuessesBounded
<1>0. TypeOK /\ TypeOK' /\ otp[o].attemptsLeft \in Int /\ otp'[o].attemptsLeft \in Int
  BY NextIInv DEF IInv, TypeOK, Otp
<1>1. ASSUME NEW r \in Reqs, NEW m, Goto(r, m), m.pc = "compare" => m.id # o
      PROVE  Comparing(o)' \subseteq Comparing(o)
  BY <1>0, <1>1 DEF Goto, Comparing, TypeOK
<1>2. ASSUME UNCHANGED otp, Comparing(o)' \subseteq Comparing(o)
      PROVE  otp'[o].attemptsLeft - Cardinality(Comparing(o)') >= 1 - Cardinality(Reqs)
  BY <1>0, <1>2, GuessesKept
<1>3. ASSUME NEW r \in Reqs, NEW x \in Otps, NEW c, Compare(r, x, c)
      PROVE  otp'[o].attemptsLeft - Cardinality(Comparing(o)') >= 1 - Cardinality(Reqs)
  <2>1. CASE x = o
    BY <1>0, <1>3, <2>1, GuessesKept DEF Compare, Usable
  <2>2. CASE x # o
    <3>1. Comparing(o)' \subseteq Comparing(o)
      BY <1>1, <1>3, <2>2 DEF Compare, Idle
    <3> QED BY <1>2, <1>3, <3>1 DEF Compare
  <2> QED BY <2>1, <2>2
<1>4. CASE \E r \in Reqs : Arrive(r)
  <2> PICK r \in Reqs : Arrive(r)
    BY <1>4
  <2>1. CASE \/ \E x \in Otps : VerifyOtp(r, x)
             \/ \E c \in Customers, x \in Otps : ProfileVerifyOtp(r, c, x)
    BY <1>3, <2>1 DEF VerifyOtp, ProfileVerifyOtp
  <2>2. CASE \/ \E p \in Phones : SignupStart(r, p)
             \/ \E q \in Purposes, p \in Phones : RequestOtp(r, q, p)
             \/ \E c \in Customers, p \in Phones : ProfileRequestOtp(r, c, p)
             \/ \E v \in Vmts : SignupLookup(r, v)
    <3>1. Comparing(o)' \subseteq Comparing(o)
      <4>1. req'[r].pc # "compare" /\ \A q \in Reqs \ {r} : req'[q] = req[q]
        BY <1>0, <2>2 DEF SignupStart, RequestOtp, ProfileRequestOtp, SignupLookup, Idle, Goto,
                          TypeOK
      <4> QED BY <4>1 DEF Comparing
    <3>2. UNCHANGED otp
      BY <2>2 DEF SignupStart, RequestOtp, ProfileRequestOtp, SignupLookup
    <3> QED BY <1>2, <3>1, <3>2
  <2> QED BY <2>1, <2>2 DEF Arrive
<1>5. CASE \E r \in Reqs : Step(r)
  <2> PICK r \in Reqs : Step(r)
    BY <1>5
  <2>0. Idle.pc # "compare"
    BY DEF Idle
  <2>1. CASE \E x \in Otps : SendOtp(r, x)
    <3> PICK x \in Otps : SendOtp(r, x)
      BY <2>1
    <3>1. Comparing(o)' \subseteq Comparing(o)
      BY <1>1, <2>0 DEF SendOtp
    <3>2. CASE x = o
      BY <1>0, <3>2, MaxAttemptsAssumption, GuessesKept DEF SendOtp, TypeOK
    <3>3. CASE x # o
      <4>1. otp'[o] = otp[o]
        BY <1>0, <3>3 DEF SendOtp, TypeOK
      <4> QED BY <1>0, <3>1, <4>1, GuessesKept
    <3> QED BY <3>2, <3>3
  <2>2. CASE WrongCode(r)
    <3>1. Comparing(o)' \subseteq Comparing(o)
      BY <1>1, <2>0, <2>2 DEF WrongCode
    <3>2. CASE req[r].id = o
      <4>1. r \in Comparing(o) /\ Comparing(o)' = Comparing(o) \ {r}
        BY <1>0, <2>0, <2>2, <3>2 DEF Comparing, WrongCode, Goto, TypeOK
      <4>2. otp'[o].attemptsLeft = otp[o].attemptsLeft - 1
        BY <1>0, <2>2, <3>2 DEF WrongCode, TypeOK, Otp
      <4>3. IsFiniteSet(Comparing(o)) /\ Cardinality(Comparing(o)) \in Nat
            /\ Cardinality(Reqs) \in Nat
        BY SomeRequests DEF Comparing
      <4>4. Cardinality(Comparing(o)') = Cardinality(Comparing(o)) - 1
        BY <4>1, <4>3, FS_RemoveElement
      <4>5. otp[o].attemptsLeft - Cardinality(Comparing(o)) >= 1 - Cardinality(Reqs)
        BY DEF GuessesBounded
      <4> QED BY <1>0, <4>2, <4>3, <4>4, <4>5
    <3>3. CASE req[r].id # o
      <4>1. otp'[o] = otp[o]
        BY <1>0, <2>2, <3>3 DEF WrongCode, TypeOK
      <4> QED BY <1>0, <3>1, <4>1, GuessesKept
    <3> QED BY <3>2, <3>3
  <2>3. CASE RightCode(r)
    <3>1. req[r].pc = "compare" /\ AfterVerify(req[r], otp[req[r].id].customer).pc # "compare"
      BY <1>0, <2>0, <2>3 DEF RightCode, AfterVerify, TypeOK, Request
    <3>2. Comparing(o)' \subseteq Comparing(o)
      BY <1>1, <2>3, <3>1 DEF RightCode
    <3>3. otp'[o].attemptsLeft = otp[o].attemptsLeft
      BY <1>0, <2>3 DEF RightCode, TypeOK, Otp
    <3> QED BY <1>0, <3>2, <3>3, GuessesKept
  <2>4. CASE \/ \E v \in Vmts : IssueVmt(r, v)
             \/ BindMobile(r) \/ BindConflict(r)
             \/ \E c \in Customers : SignupCommit(r, c)
             \/ SignupConflict(r) \/ Crash(r)
    <3>1. UNCHANGED otp /\ Goto(r, Idle)
      BY <2>4 DEF IssueVmt, BindMobile, BindConflict, SignupCommit, SignupConflict, Crash
    <3> QED BY <1>1, <1>2, <2>0, <3>1
  <2> QED BY <2>1, <2>2, <2>3, <2>4 DEF Step
<1>6. CASE \E x \in Otps : OtpExpires(x)
  <2>1. otp'[o].attemptsLeft = otp[o].attemptsLeft /\ Comparing(o)' = Comparing(o)
    BY <1>0, <1>6 DEF OtpExpires, TypeOK, Otp, Comparing
  <2> QED BY <1>0, <2>1, GuessesKept
<1>7. CASE \/ \E c \in Customers : SocialSignUp(c)
           \/ \E v \in Vmts : VmtExpires(v)
           \/ UNCHANGED vars
  <2>1. UNCHANGED otp /\ Comparing(o)' = Comparing(o)
    BY <1>7 DEF SocialSignUp, VmtExpires, vars, Comparing
  <2> QED BY <1>2, <2>1
<1> QED BY <1>4, <1>5, <1>6, <1>7 DEF Next

\* However many requests guess at once, no code is guessed at more often than
\* it has attempts and the requests in flight have guesses.
THEOREM GuessesStayBounded == Spec => []GuessesBounded
<1>1. Init => GuessesBounded
  <2> SUFFICES ASSUME Init, NEW o \in Otps
               PROVE  otp[o].attemptsLeft - Cardinality(Comparing(o)) >= 1 - Cardinality(Reqs)
    BY DEF GuessesBounded
  <2>1. otp[o].attemptsLeft = MaxAttempts /\ Comparing(o) \in SUBSET Reqs
    BY DEF Init, FreeOtp, Comparing
  <2> QED BY <2>1, SomeRequests, MaxAttemptsAssumption
<1> QED BY <1>1, NextGuesses, Inductive, PTL DEF Spec
=============================================================================
