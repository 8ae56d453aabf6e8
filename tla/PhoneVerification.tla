-------------------------- MODULE PhoneVerification --------------------------
(***************************************************************************)
(* How a customer account comes by its phone number: SMS one-time codes,    *)
(* the verified-mobile token a code is exchanged for, and the two ways to   *)
(* use them, the phone sign-up and the binding of a phone to an account     *)
(* made by social sign-in.  A request is a process whose awaits are step    *)
(* boundaries; a database statement, or a transaction, is one step.         *)
(* How often codes may be sent is the concern of OtpSends.                  *)
(***************************************************************************)
EXTENDS Integers, FiniteSets

CONSTANTS
  Phones, Customers, Otps, Vmts, Reqs,
  Purposes,     \* the purposes an instance asks codes for
  MaxAttempts,  \* attemptsLeft of a new challenge
  NoPhone, NoCustomer

AllPurposes == {"SIGNUP", "MOBILE_CHANGE", "PROFILE_MOBILE", "FORGOT_PASSWORD"}

ASSUME PurposesAssumption == Purposes \subseteq AllPurposes
ASSUME MaxAttemptsAssumption == MaxAttempts \in Nat \ {0}
ASSUME NoPhoneAssumption == NoPhone \notin Phones
ASSUME NoCustomerAssumption == NoCustomer \notin Customers
ASSUME ReqsAssumption == IsFiniteSet(Reqs) /\ Reqs # {}

VARIABLES
  customer,  \* customer_account rows: how registered, and the verified phone
  otp,       \* otp_challenge rows
  vmt,       \* verified_mobile_token rows
  req        \* requests in flight

vars == <<customer, otp, vmt, req>>

Customer == [path : {"none", "PHONE", "SOCIAL"}, phone : Phones \cup {NoPhone}]
Otp == [status : {"free", "open", "expired", "consumed"},
        purpose : AllPurposes, phone : Phones \cup {NoPhone},
        customer : Customers \cup {NoCustomer}, attemptsLeft : Int]
Vmt == [status : {"free", "open", "expired", "consumed"}, phone : Phones \cup {NoPhone}]
Request == [pc : {"idle", "send", "compare", "issue", "bind", "create"},
            purpose : AllPurposes, phone : Phones \cup {NoPhone},
            customer : Customers \cup {NoCustomer},
            id : Otps \cup Vmts \cup {NoCustomer}]

TypeOK ==
  /\ customer \in [Customers -> Customer]
  /\ otp \in [Otps -> Otp]
  /\ vmt \in [Vmts -> Vmt]
  /\ req \in [Reqs -> Request]

Absent == [path |-> "none", phone |-> NoPhone]
FreeOtp == [status |-> "free", purpose |-> "SIGNUP", phone |-> NoPhone,
            customer |-> NoCustomer, attemptsLeft |-> MaxAttempts]
FreeVmt == [status |-> "free", phone |-> NoPhone]
Idle == [pc |-> "idle", purpose |-> "SIGNUP", phone |-> NoPhone,
         customer |-> NoCustomer, id |-> NoCustomer]

Goto(r, m) == req' = [req EXCEPT ![r] = m]
Taken(p) == \E c \in Customers : customer[c].phone = p
TokenPurposes == {"SIGNUP", "MOBILE_CHANGE"}

Init ==
  /\ customer = [c \in Customers |-> Absent]
  /\ otp = [o \in Otps |-> FreeOtp]
  /\ vmt = [v \in Vmts |-> FreeVmt]
  /\ req = [r \in Reqs |-> Idle]

-----------------------------------------------------------------------------
(* Asking for a code                                                        *)

\* POST /auth/signup/phone/start refuses a phone that has an account.
SignupStart(r, p) ==
  /\ "SIGNUP" \in Purposes
  /\ req[r].pc = "idle"
  /\ ~Taken(p)
  /\ Goto(r, [Idle EXCEPT !.pc = "send", !.purpose = "SIGNUP", !.phone = p])
  /\ UNCHANGED <<customer, otp, vmt>>

\* POST /auth/otp/request: any purpose, any phone.
RequestOtp(r, q, p) ==
  /\ req[r].pc = "idle"
  /\ Goto(r, [Idle EXCEPT !.pc = "send", !.purpose = q, !.phone = p])
  /\ UNCHANGED <<customer, otp, vmt>>

ProfileRequestOtp(r, c, p) ==
  /\ "PROFILE_MOBILE" \in Purposes
  /\ req[r].pc = "idle"
  /\ customer[c].path # "none" /\ customer[c].phone = NoPhone
  /\ ~Taken(p)
  /\ Goto(r, [Idle EXCEPT !.pc = "send", !.purpose = "PROFILE_MOBILE",
                          !.phone = p, !.customer = c])
  /\ UNCHANGED <<customer, otp, vmt>>

\* otpRepo.create
SendOtp(r, o) ==
  LET m == req[r] IN
  /\ m.pc = "send"
  /\ otp[o].status = "free"
  /\ otp' = [otp EXCEPT ![o] = [status |-> "open", purpose |-> m.purpose, phone |-> m.phone,
                                customer |-> m.customer, attemptsLeft |-> MaxAttempts]]
  /\ Goto(r, Idle)
  /\ UNCHANGED <<customer, vmt>>

-----------------------------------------------------------------------------
(* Verifying a code                                                         *)

\* Mutant of Usable: the attempts left are not looked at.
UsableAnyAttempts(o) == otp[o].status = "open"

\* The checks verify makes on the row it has read.
Usable(o) == otp[o].status = "open" /\ otp[o].attemptsLeft > 0

Compare(r, o, c) ==
  /\ req[r].pc = "idle"
  /\ Usable(o)
  /\ Goto(r, [Idle EXCEPT !.pc = "compare", !.purpose = otp[o].purpose,
                          !.phone = otp[o].phone, !.customer = c, !.id = o])
  /\ UNCHANGED <<customer, otp, vmt>>

VerifyOtp(r, o) == Compare(r, o, NoCustomer)

ProfileVerifyOtp(r, c, o) ==
  /\ customer[c].path # "none" /\ customer[c].phone = NoPhone
  /\ otp[o].purpose = "PROFILE_MOBILE"
  /\ Compare(r, o, c)

WrongCode(r) ==
  LET o == req[r].id IN
  /\ req[r].pc = "compare"
  /\ otp' = [otp EXCEPT ![o].attemptsLeft = @ - 1]
  /\ Goto(r, Idle)
  /\ UNCHANGED <<customer, vmt>>

\* Mutant of AfterVerify: whose code it was is not compared with the caller.
AfterVerifyAnyOwner(m, owner) ==
  IF m.customer # NoCustomer THEN [m EXCEPT !.pc = "bind"]
  ELSE IF m.purpose \in TokenPurposes THEN [m EXCEPT !.pc = "issue"] ELSE Idle

\* What follows a verified code: the binding, for its owner only; a token; or
\* nothing (a reset token, see CustomerCredentials, or OTP_INVALID: by now the
\* code is spent either way).
AfterVerify(m, owner) ==
  IF m.customer # NoCustomer
  THEN IF owner = m.customer THEN [m EXCEPT !.pc = "bind"] ELSE Idle
  ELSE IF m.purpose \in TokenPurposes THEN [m EXCEPT !.pc = "issue"] ELSE Idle

\* Mutant of RightCode: the code is not consumed.
RightCodeStaysOpen(r) ==
  /\ req[r].pc = "compare"
  /\ Goto(r, AfterVerify(req[r], otp[req[r].id].customer))
  /\ UNCHANGED <<customer, otp, vmt>>

\* consume does not look at what became of the row since it was read.
RightCode(r) ==
  LET o == req[r].id IN
  /\ req[r].pc = "compare"
  /\ otp' = [otp EXCEPT ![o].status = "consumed"]
  /\ Goto(r, AfterVerify(req[r], otp[o].customer))
  /\ UNCHANGED <<customer, vmt>>

IssueVmt(r, v) ==
  /\ req[r].pc = "issue"
  /\ vmt[v].status = "free"
  /\ vmt' = [vmt EXCEPT ![v] = [status |-> "open", phone |-> req[r].phone]]
  /\ Goto(r, Idle)
  /\ UNCHANGED <<customer, otp>>

\* bindMobileVerified: an UPDATE by id, refused by UNIQUE(phone) only.
BindMobile(r) ==
  LET m == req[r] IN
  /\ m.pc = "bind"
  /\ \A c \in Customers \ {m.customer} : customer[c].phone # m.phone
  /\ customer' = [customer EXCEPT ![m.customer].phone = m.phone]
  /\ Goto(r, Idle)
  /\ UNCHANGED <<otp, vmt>>

BindConflict(r) ==
  LET m == req[r] IN
  /\ m.pc = "bind"
  /\ \E c \in Customers \ {m.customer} : customer[c].phone = m.phone
  /\ Goto(r, Idle)
  /\ UNCHANGED <<customer, otp, vmt>>

-----------------------------------------------------------------------------
(* Accounts                                                                 *)

\* POST /auth/signup/phone/verify reads the token outside its transaction.
SignupLookup(r, v) ==
  /\ req[r].pc = "idle"
  /\ vmt[v].status = "open"
  /\ Goto(r, [Idle EXCEPT !.pc = "create", !.phone = vmt[v].phone, !.id = v])
  /\ UNCHANGED <<customer, otp, vmt>>

\* The transaction: mark the token consumed and insert the account.
SignupCommit(r, c) ==
  LET m == req[r] IN
  /\ m.pc = "create"
  /\ customer[c].path = "none" /\ ~Taken(m.phone)
  /\ vmt' = [vmt EXCEPT ![m.id].status = "consumed"]
  /\ customer' = [customer EXCEPT ![c] = [path |-> "PHONE", phone |-> m.phone]]
  /\ Goto(r, Idle)
  /\ UNCHANGED otp

\* Mutant of SignupConflict: the token is consumed outside the transaction.
SignupConflictSpends(r) ==
  /\ req[r].pc = "create"
  /\ Taken(req[r].phone)
  /\ vmt' = [vmt EXCEPT ![req[r].id].status = "consumed"]
  /\ Goto(r, Idle)
  /\ UNCHANGED <<customer, otp>>

\* UNIQUE(phone) refuses the insert and the token stays as it was.
SignupConflict(r) ==
  /\ req[r].pc = "create"
  /\ Taken(req[r].phone)
  /\ Goto(r, Idle)
  /\ UNCHANGED <<customer, otp, vmt>>

\* First sign-in with Google: an account without a phone.
SocialSignUp(c) ==
  /\ customer[c].path = "none"
  /\ customer' = [customer EXCEPT ![c] = [path |-> "SOCIAL", phone |-> NoPhone]]
  /\ UNCHANGED <<otp, vmt, req>>

-----------------------------------------------------------------------------

OtpExpires(o) ==
  /\ otp[o].status = "open"
  /\ otp' = [otp EXCEPT ![o].status = "expired"]
  /\ UNCHANGED <<customer, vmt, req>>

VmtExpires(v) ==
  /\ vmt[v].status = "open"
  /\ vmt' = [vmt EXCEPT ![v].status = "expired"]
  /\ UNCHANGED <<customer, otp, req>>

\* The process dies, or a statement fails, between two awaits.
Crash(r) ==
  /\ req[r].pc # "idle"
  /\ Goto(r, Idle)
  /\ UNCHANGED <<customer, otp, vmt>>

Arrive(r) ==
  \/ \E p \in Phones : SignupStart(r, p)
  \/ \E q \in Purposes, p \in Phones : RequestOtp(r, q, p)
  \/ \E c \in Customers, p \in Phones : ProfileRequestOtp(r, c, p)
  \/ \E o \in Otps : VerifyOtp(r, o)
  \/ \E c \in Customers, o \in Otps : ProfileVerifyOtp(r, c, o)
  \/ \E v \in Vmts : SignupLookup(r, v)

Step(r) ==
  \/ \E o \in Otps : SendOtp(r, o)
  \/ WrongCode(r) \/ RightCode(r)
  \/ \E v \in Vmts : IssueVmt(r, v)
  \/ BindMobile(r) \/ BindConflict(r)
  \/ \E c \in Customers : SignupCommit(r, c)
  \/ SignupConflict(r)
  \/ Crash(r)

Next ==
  \/ \E r \in Reqs : Arrive(r) \/ Step(r)
  \/ \E c \in Customers : SocialSignUp(c)
  \/ \E o \in Otps : OtpExpires(o)
  \/ \E v \in Vmts : VmtExpires(v)

Spec == Init /\ [][Next]_vars

-----------------------------------------------------------------------------
(* Properties                                                               *)

\* A consumed code that proves phone p for customer c (for anyone's sign-up, if
\* c is NoCustomer).
Proves(o, p, c) ==
  /\ otp[o].status = "consumed" /\ otp[o].phone = p
  /\ IF c = NoCustomer THEN otp[o].purpose \in TokenPurposes
     ELSE otp[o].purpose = "PROFILE_MOBILE" /\ otp[o].customer = c

ProofFor(c) == IF customer[c].path = "PHONE" THEN NoCustomer ELSE c

\* No account has a phone that nobody typed the SMS code of: a signed-up phone
\* was verified for a sign-up, a bound one for the very account it is bound to,
\* and no phone belongs to two accounts.
PhonesAreVerified ==
  /\ \A c \in Customers : customer[c].phone # NoPhone =>
       \E o \in Otps : Proves(o, customer[c].phone, ProofFor(c))
  /\ \A c, d \in Customers :
       customer[c].phone = customer[d].phone /\ customer[c].phone # NoPhone => c = d

\* A sign-up that fails leaves its token usable: a consumed token has made an
\* account for its phone.
SpentTokenMadeAccount ==
  \A v \in Vmts : vmt[v].status = "consumed" =>
    \E c \in Customers : customer[c].path = "PHONE" /\ customer[c].phone = vmt[v].phone

\* What each row and each request in flight rests on: a token on a consumed
\* code, a sign-up on its token, a binding on the code that its account asked for.
RowsOK ==
  /\ \A o \in Otps : otp[o].status # "free" => otp[o].phone \in Phones
  /\ \A v \in Vmts : vmt[v].status # "free" =>
       vmt[v].phone \in Phones /\ \E o \in Otps : Proves(o, vmt[v].phone, NoCustomer)
  /\ \A c \in Customers :
       /\ customer[c].path = "none" => customer[c].phone = NoPhone
       /\ customer[c].path = "PHONE" => customer[c].phone \in Phones
RequestOK(m) ==
  /\ m.pc # "idle" => m.phone \in Phones
  /\ m.pc = "compare" =>
       /\ m.id \in Otps /\ otp[m.id].status # "free"
       /\ otp[m.id].phone = m.phone /\ otp[m.id].purpose = m.purpose
       /\ m.customer # NoCustomer => m.purpose = "PROFILE_MOBILE"
  /\ m.pc = "issue" => \E o \in Otps : Proves(o, m.phone, NoCustomer)
  /\ m.pc = "bind" => m.customer \in Customers /\ \E o \in Otps : Proves(o, m.phone, m.customer)
  /\ m.pc = "create" =>
       m.id \in Vmts /\ vmt[m.id].status # "free" /\ vmt[m.id].phone = m.phone
  /\ m.pc \in {"compare", "bind"} /\ m.customer # NoCustomer => customer[m.customer].path = "SOCIAL"

\* Inductive strengthening: every phone on its way into an account is one whose
\* code was verified for that account, at each await of each request.
IInv ==
  /\ TypeOK /\ RowsOK /\ PhonesAreVerified /\ SpentTokenMadeAccount
  /\ \A r \in Reqs : RequestOK(req[r])

Comparing(o) == {r \in Reqs : req[r].pc = "compare" /\ req[r].id = o}

\* Guesses at one code are bounded although attemptsLeft is read before the
\* comparison and decremented after it: besides the attempts granted, only those
\* in flight at the same time get through.
GuessesBounded ==
  \A o \in Otps : otp[o].attemptsLeft - Cardinality(Comparing(o)) >= 1 - Cardinality(Reqs)

\* data-model.md: the mobile is immutable after its first non-null write.  Two
\* bindings that both saw the account without a phone break it.
MobileIsImmutable ==
  [][\A c \in Customers : customer[c].phone # NoPhone =>
       customer'[c].phone = customer[c].phone]_vars
=============================================================================
