------------------------------- MODULE Limits -------------------------------
(***************************************************************************)
(* The four limits side by side: the lockout of a staff account, that of a  *)
(* customer, one bucket of the rate limit and the codes sent to a phone.    *)
(* Each has its own keys or rows and none reads another, so that a          *)
(* behaviour of one at a time, with the others where they began, shows all  *)
(* there is to see.                                                         *)
(***************************************************************************)
EXTENDS Naturals

CONSTANTS
  Clients, Phones,                 \* concurrent sign-ins and calls, requests for a code
  Threshold, StaffWindow,          \* of the staff account
  MaxFailures, CustomerWindow,     \* of the customer
  Limit, GuardWindow,              \* of the bucket
  CodeTtl, Cooldown, ActiveWindow, ActiveMax, Hour, HourlyMax, Day, DailyMax,
  MaxFailuresPerTick, MaxDelay, MaxLost, MaxCodesPerTick   \* bounds

VARIABLES
  which,                           \* the limit that is tried
  staffFails, staffKeep, staffReq,
  failures, keep, lock, customerReq, lost,
  count, ttl, admitted, guardReq,
  open, spent, codeReq

Staff == INSTANCE StaffLockout WITH
  Reqs <- Clients, Window <- StaffWindow, MaxSame <- MaxFailuresPerTick,
  fails <- staffFails, keep <- staffKeep, req <- staffReq
Customer == INSTANCE CustomerLockout WITH
  Reqs <- Clients, Window <- CustomerWindow, MaxSame <- MaxFailuresPerTick,
  fails <- failures, req <- customerReq
Bucket == INSTANCE RateLimit WITH
  Reqs <- Clients, Window <- GuardWindow, req <- guardReq
Codes == INSTANCE OtpSends WITH
  Reqs <- Phones, MaxSame <- MaxCodesPerTick, req <- codeReq

ASSUME ConstantsAreSensible ==
  Staff!Sensible /\ Customer!Sensible /\ Bucket!Sensible /\ Codes!Sensible

staff == <<staffFails, staffKeep, staffReq>>
customer == <<failures, keep, lock, customerReq, lost>>
bucket == <<count, ttl, admitted, guardReq>>
codes == <<open, spent, codeReq>>
vars == <<which, staff, customer, bucket, codes>>

Init ==
  /\ which \in {"staff", "customer", "bucket", "codes"}
  /\ Staff!Init /\ Customer!Init /\ Bucket!Init /\ Codes!Init

OfStaff(A) == which = "staff" /\ A /\ UNCHANGED <<which, customer, bucket, codes>>
OfCustomer(A) == which = "customer" /\ A /\ UNCHANGED <<which, staff, bucket, codes>>
OfBucket(A) == which = "bucket" /\ A /\ UNCHANGED <<which, staff, customer, codes>>
OfCodes(A) == which = "codes" /\ A /\ UNCHANGED <<which, staff, customer, bucket>>

Next ==
  OfStaff(Staff!Next) \/ OfCustomer(Customer!Next) \/ OfBucket(Bucket!Next) \/ OfCodes(Codes!Next)

\* The fairness of each: time passes, and the requests that have begun to write end.
Spec ==
  /\ Init /\ [][Next]_vars
  /\ WF_vars(OfStaff(Staff!Tick))
  /\ WF_vars(OfCustomer(Customer!Tick))
  /\ WF_vars(OfCustomer(\E r \in Clients : Customer!Record(r)))
  /\ WF_vars(OfBucket(Bucket!Tick))
  /\ \A r \in Clients : WF_vars(OfBucket(Bucket!Finish(r)))
  /\ WF_vars(OfCodes(Codes!Tick))
  /\ \A r \in Phones : WF_vars(OfCodes(Codes!Work(r)))

\* Counts, ages and locks stay in range.
TypeOK == Staff!TypeOK /\ Customer!TypeOK /\ Bucket!TypeOK /\ Codes!TypeOK

\* LockoutService: requests that counted together overshoot the threshold by one each
\* at most, those about to write included.
StaffOvershootBounded == Staff!OvershootBounded

\* CustomerLoginLockoutService: the failures within a window exceed the limit by less than
\* the attempts admitted together and those lost between ZADD and SET, for whoever counts
\* the limit sets a lock that outlasts the window.
CustomerFailuresBounded == Customer!FailuresBounded

\* MobileRateLimitGuard: no window of time lets through more than twice the limit.
TwiceTheLimit == Bucket!TwiceTheLimit

\* CustomerOtpService.issue: the codes of the hour and of the day overshoot their
\* limits by one for each request in flight at most.
SendsBounded == Codes!SendsBounded

\* Attempts made while locked out never push the end of a staff lockout away.
StaffLockoutEnds == Staff!LockoutEnds

\* A locked customer account opens again, however many attempts keep coming.
CustomerLockEnds == Customer!LockEnds

\* A client over the limit is let in again, however hard it presses, unless its counter
\* was orphaned by a crash.
WindowEnds == Bucket!WindowEnds

\* A phone that is refused a code is not refused for ever.
SendingResumes == Codes!SendingResumes
=============================================================================
