------------------------------ MODULE OtpSends ------------------------------
(***************************************************************************)
(* How often one phone is sent a code: CustomerOtpService.issue and the     *)
(* otp_challenge rows of the phone, which it counts before it adds one.     *)
(* Each query is a step, and nothing ties the counts to the insert.  Time   *)
(* is counted in ticks; a row is known by its age.                          *)
(***************************************************************************)
EXTENDS Naturals, FiniteSets, Functions, FiniteSetsExt

CONSTANTS
  Reqs,                     \* concurrent requests for a code
  CodeTtl,                  \* CODE_TTL_MS, and below every duration in ticks
  Cooldown,                 \* RESEND_LOCK_MS
  ActiveWindow, ActiveMax,  \* ACTIVE_15M_MAX
  Hour, HourlyMax, Day, DailyMax,
  MaxDelay,                 \* bound: ticks a request takes
  MaxSame                   \* bound: rows kept per tick

\* What is assumed of the constants.
Sensible ==
  /\ IsFiniteSet(Reqs)
  /\ {CodeTtl, Cooldown, ActiveWindow, Hour, Day} \subseteq Nat \ {0}
  /\ ActiveWindow <= Hour /\ Hour <= Day
  /\ {ActiveMax, HourlyMax, DailyMax} \subseteq Nat \ {0}
  /\ MaxDelay \in Nat /\ MaxSame \in Nat \ {0}

VARIABLES
  open,   \* open[a]: unconsumed rows that are a ticks old
  spent,  \* spent[a]: consumed rows that are a ticks old
  req     \* requests in flight; age is the age of the "now" they hold

vars == <<open, spent, req>>

Ages == 0..Day + MaxDelay
None == [a \in Ages |-> 0]
Request == [pc : {"idle", "active", "caps", "create"}, age : 0..MaxDelay]
Idle == [pc |-> "idle", age |-> 0]

\* A row is consumed once: the two counts stay in range.
TypeOK ==
  /\ open \in [Ages -> 0..MaxSame] /\ spent \in [Ages -> 0..MaxSame]
  /\ req \in [Reqs -> Request]

\* Rows created in the last w ticks, as seen by a request whose "now" is d old.
Unconsumed(w, d) == SumFunctionOnSet(open, 0..w + d)
Sent(w, d) == SumFunctionOnSet([a \in Ages |-> open[a] + spent[a]], 0..w + d)
CoolingDown == Sent(Cooldown - 1, 0) > 0

Goto(r, pc) == req' = [req EXCEPT ![r].pc = pc]
Done(r) == req' = [req EXCEPT ![r] = Idle]

Init == open = None /\ spent = None /\ req = [r \in Reqs |-> Idle]

\* findMostRecentForPhone and the resend lock
PassCooldown(r) ==
  /\ req[r].pc = "idle"
  /\ ~CoolingDown
  /\ Goto(r, "active")
  /\ UNCHANGED <<open, spent>>

RefuseCooldown(r) ==
  /\ req[r].pc = "idle"
  /\ CoolingDown
  /\ UNCHANGED vars

\* countActiveForPhone
PassActive(r) ==
  /\ req[r].pc = "active"
  /\ Unconsumed(ActiveWindow, req[r].age) < ActiveMax
  /\ Goto(r, "caps")
  /\ UNCHANGED <<open, spent>>

\* Mutant of RefuseActive: a refusal leaves a row.
RefuseActiveRecorded(r) ==
  /\ req[r].pc = "active"
  /\ Unconsumed(ActiveWindow, req[r].age) >= ActiveMax
  /\ open' = [open EXCEPT ![0] = Min({MaxSame, @ + 1})]
  /\ Done(r)
  /\ UNCHANGED spent

RefuseActive(r) ==
  /\ req[r].pc = "active"
  /\ Unconsumed(ActiveWindow, req[r].age) >= ActiveMax
  /\ Done(r)
  /\ UNCHANGED <<open, spent>>

\* Mutant of OverCap: the comparison is off by one.
OverCapByOne(d) == Sent(Hour, d) > HourlyMax \/ Sent(Day, d) > DailyMax

\* countSentForPhone, over the hour and over the day
OverCap(d) == Sent(Hour, d) >= HourlyMax \/ Sent(Day, d) >= DailyMax

PassCaps(r) ==
  /\ req[r].pc = "caps"
  /\ ~OverCap(req[r].age)
  /\ Goto(r, "create")
  /\ UNCHANGED <<open, spent>>

RefuseCaps(r) ==
  /\ req[r].pc = "caps"
  /\ OverCap(req[r].age)
  /\ Done(r)
  /\ UNCHANGED <<open, spent>>

\* otpRepo.create stamps the row with the database's clock; then the SMS.
Create(r) ==
  /\ req[r].pc = "create"
  /\ open[0] < MaxSame
  /\ open' = [open EXCEPT ![0] = @ + 1]
  /\ Done(r)
  /\ UNCHANGED spent

\* A query fails or the process dies.
Fail(r) ==
  /\ req[r].pc # "idle"
  /\ Done(r)
  /\ UNCHANGED <<open, spent>>

\* Mutant of Consume: verify does not look at consumedAt.
ConsumeAgain(a) ==
  /\ a <= CodeTtl
  /\ spent[a] < MaxSame
  /\ open' = [open EXCEPT ![a] = @ - 1]
  /\ spent' = [spent EXCEPT ![a] = @ + 1]
  /\ UNCHANGED req

\* verify consumes a code that is neither expired nor consumed.
Consume(a) ==
  /\ a <= CodeTtl /\ open[a] > 0
  /\ spent[a] < MaxSame
  /\ open' = [open EXCEPT ![a] = @ - 1]
  /\ spent' = [spent EXCEPT ![a] = @ + 1]
  /\ UNCHANGED req

Aged(f) == [a \in Ages |-> IF a = 0 THEN 0 ELSE f[a - 1]]

Tick ==
  /\ \A r \in Reqs : req[r].pc # "idle" => req[r].age < MaxDelay
  /\ open' = Aged(open) /\ spent' = Aged(spent)
  /\ req' = [r \in Reqs |-> IF req[r].pc = "idle" THEN req[r]
                            ELSE [req[r] EXCEPT !.age = @ + 1]]

Work(r) ==
  \/ PassActive(r) \/ RefuseActive(r) \/ PassCaps(r) \/ RefuseCaps(r) \/ Create(r) \/ Fail(r)

Next ==
  \/ \E r \in Reqs : PassCooldown(r) \/ RefuseCooldown(r) \/ Work(r)
  \/ \E a \in Ages : Consume(a)
  \/ Tick

\* Time passes, and a request that has begun ends, one way or another.
Spec == Init /\ [][Next]_vars /\ WF_vars(Tick) /\ \A r \in Reqs : WF_vars(Work(r))

-----------------------------------------------------------------------------
(* Properties                                                               *)

Creating == Cardinality({r \in Reqs : req[r].pc = "create"})

\* Requests that counted together overshoot each limit by one each at most:
\* the codes of the hour, or of the day, and those about to be created stay
\* below the limit plus the number of requests.
SendsBounded ==
  /\ Sent(Hour, 0) + Creating < HourlyMax + Cardinality(Reqs)
  /\ Sent(Day, 0) + Creating < DailyMax + Cardinality(Reqs)

MaySend == ~CoolingDown /\ Unconsumed(ActiveWindow, 0) < ActiveMax /\ ~OverCap(0)

\* A phone that is refused a code is not refused for ever, however often the
\* client asks in between: a refusal leaves no row behind.
SendingResumes == ~MaySend ~> MaySend

\* FR-018: at most HourlyMax codes an hour.
HourlyLimit == Sent(Hour, 0) <= HourlyMax

\* FR-019: no second code within the cooldown.
CooldownKept == Sent(Cooldown - 1, 0) <= 1

\* FR-018 limits the active codes, non-consumed and non-expired; the code's
\* count knows no expiry and refuses while fewer are active.
RefusedForActiveCodes ==
  [][\A r \in Reqs : RefuseActive(r) /\ req[r].age = 0 => Unconsumed(CodeTtl, 0) >= ActiveMax]_vars
=============================================================================
