--------------------------- MODULE CustomerLockout ---------------------------
(***************************************************************************)
(* The e-mail + password lockout of one customer: the sorted set of failure *)
(* timestamps and the lock, two keys with a time to live each, and the      *)
(* sign-in requests that read and write them.  A step is one Redis command, *)
(* or two of which the second adds nothing between them; the request may    *)
(* die, or its command be lost, before any step, and the clock moves        *)
(* between any two.  Time is counted in ticks; a failure is known by its    *)
(* age and a key by what is left of its time.                               *)
(***************************************************************************)
EXTENDS Naturals, FiniteSets, Functions, FiniteSetsExt

CONSTANTS
  Reqs,         \* concurrent sign-in requests for the e-mail
  MaxFailures,  \* MAX_FAILURES
  Window,       \* WINDOW_MS in ticks; LOCK_TTL_S is twice as long
  MaxDelay,     \* bound: ticks from recordFailure's Date.now() to its ZCARD
  MaxLost,      \* bound: failures stored and not acted upon at a time
  MaxSame       \* bound: failures kept per tick

\* What is assumed of the constants.
Sensible ==
  /\ IsFiniteSet(Reqs)
  /\ MaxFailures \in Nat \ {0} /\ Window \in Nat \ {0}
  /\ MaxDelay \in Nat /\ MaxLost \in Nat
  /\ MaxSame \in Nat /\ MaxSame >= MaxFailures

VARIABLES
  fails,  \* fails[a]: members of the failure set that are a ticks old
  keep,   \* ticks until the failure set expires, 0 when it has no expiry
  lock,   \* ticks until the lock key expires, 0 when it is absent
  req,    \* requests in flight; age is the age of the Date.now() they hold
  lost    \* history: requests that stored a failure and died before they
          \* acted on the count, since the set was last empty

vars == <<fails, keep, lock, req, lost>>

\* A trim leaves no older failure.
Ages == 0..Window + MaxDelay

LockTtl == 2 * Window  \* of both keys

Recorded == {"trim", "count", "lock"}
Request == [pc : {"idle", "verify", "add", "clear"} \cup Recorded, age : 0..MaxDelay]
Idle == [pc |-> "idle", age |-> 0]

\* The counts, what is left of the keys and the clock a request holds stay in range.
TypeOK ==
  /\ fails \in [Ages -> 0..MaxSame] /\ keep \in 0..LockTtl /\ lock \in 0..LockTtl
  /\ req \in [Reqs -> Request] /\ lost \in 0..MaxLost

None == [a \in Ages |-> 0]
Count == SumFunctionOnSet(fails, Ages)

\* Mutant of AtLimit: the comparison is off by one.
AboveLimit == Count > MaxFailures

AtLimit == Count >= MaxFailures
Goto(r, pc) == req' = [req EXCEPT ![r].pc = pc]
Done(r) == req' = [req EXCEPT ![r] = Idle]
\* The set loses members, and the history begins anew when it loses the last.
Leave(f) == fails' = f /\ lost' = IF f = None THEN 0 ELSE lost

Init ==
  /\ fails = None /\ keep = 0 /\ lock = 0
  /\ req = [r \in Reqs |-> Idle]
  /\ lost = 0

\* assertNotLocked: while the lock key exists nothing else is looked at.
Admit(r) ==
  /\ req[r].pc = "idle"
  /\ lock = 0
  /\ Goto(r, "verify")
  /\ UNCHANGED <<fails, keep, lock, lost>>

\* Mutant of Refuse: a refused attempt starts the lock over.
RefuseAndRearm(r) ==
  /\ req[r].pc = "idle"
  /\ lock > 0
  /\ lock' = LockTtl
  /\ UNCHANGED <<fails, keep, req, lost>>

Refuse(r) ==
  /\ req[r].pc = "idle"
  /\ lock > 0
  /\ UNCHANGED vars

\* Unknown e-mail, social account or wrong password: recordFailure reads the clock.
Fail(r) ==
  /\ req[r].pc = "verify"
  /\ Goto(r, "add")
  /\ UNCHANGED <<fails, keep, lock, lost>>

\* ZADD, with the clock read on entry.  It leaves the expiry of the set alone.
AddFailure(r) ==
  LET a == req[r].age IN
  /\ req[r].pc = "add"
  /\ fails[a] < MaxSame
  /\ fails' = [fails EXCEPT ![a] = @ + 1]
  /\ Goto(r, "trim")
  /\ UNCHANGED <<keep, lock, lost>>

\* trimWindow, by the clock read on entry, and EXPIRE, which does nothing to a set
\* that the trim has emptied.
Trim(r) ==
  LET left == [a \in Ages |-> IF a > Window + req[r].age THEN 0 ELSE fails[a]] IN
  /\ req[r].pc = "trim"
  /\ Leave(left)
  /\ keep' = IF left = None THEN 0 ELSE LockTtl
  /\ Goto(r, "count")
  /\ UNCHANGED lock

\* ZCARD
CountFailures(r) ==
  /\ req[r].pc = "count"
  /\ req' = [req EXCEPT ![r] = IF AtLimit THEN [pc |-> "lock", age |-> 0] ELSE Idle]
  /\ UNCHANGED <<fails, keep, lock, lost>>

\* SET ... EX also renews a lock another request has set.
SetLock(r) ==
  /\ req[r].pc = "lock"
  /\ lock' = LockTtl
  /\ Done(r)
  /\ UNCHANGED <<fails, keep, lost>>

\* Correct password and an active account (an inactive one ends here too,
\* without a record and without a clear).
Succeed(r) ==
  /\ req[r].pc = "verify"
  /\ Goto(r, "clear")
  /\ UNCHANGED <<fails, keep, lock, lost>>

Inactive(r) ==
  /\ req[r].pc = "verify"
  /\ Done(r)
  /\ UNCHANGED <<fails, keep, lock, lost>>

\* Mutant of Clear: a success takes back one failure instead of all.
ClearOne(r) ==
  /\ req[r].pc = "clear"
  /\ fails' = [fails EXCEPT ![0] = @ - 1]
  /\ lock' = 0
  /\ Done(r)
  /\ UNCHANGED <<keep, lost>>

\* One DEL of both keys, whatever they hold by now.
Clear(r) ==
  /\ req[r].pc = "clear"
  /\ Leave(None)
  /\ keep' = 0 /\ lock' = 0
  /\ Done(r)

\* A Redis command is rejected or the process dies.  Nothing resumes recordFailure:
\* a failure that is stored stays, and nobody acts on the count it made.
Crash(r) ==
  /\ req[r].pc # "idle"
  /\ IF req[r].pc \in Recorded /\ fails # None
     THEN lost < MaxLost /\ lost' = lost + 1
     ELSE UNCHANGED lost
  /\ Done(r)
  /\ UNCHANGED <<fails, keep, lock>>

\* Redis drops a key when its time has run out.
Tick ==
  /\ \A r \in Reqs : req[r].pc \in {"add", "trim", "count"} => req[r].age < MaxDelay
  /\ Leave(IF keep = 1 THEN None
           ELSE [a \in Ages |-> IF a = 0 THEN 0 ELSE fails[a - 1]])
  /\ keep' = IF keep = 0 THEN 0 ELSE keep - 1
  /\ lock' = IF lock = 0 THEN 0 ELSE lock - 1
  /\ req' = [r \in Reqs |-> IF req[r].pc \in {"add", "trim", "count"}
                            THEN [req[r] EXCEPT !.age = @ + 1] ELSE req[r]]

Record(r) == AddFailure(r) \/ Trim(r) \/ CountFailures(r)
Step(r) ==
  \/ Admit(r) \/ Refuse(r) \/ Fail(r) \/ Record(r) \/ SetLock(r)
  \/ Succeed(r) \/ Inactive(r) \/ Clear(r) \/ Crash(r)

Next == Tick \/ \E r \in Reqs : Step(r)

\* Time passes, and while failures are being recorded one or another recording goes on.
Spec == Init /\ [][Next]_vars /\ WF_vars(Tick) /\ WF_vars(\E r \in Reqs : Record(r))

-----------------------------------------------------------------------------
(* Properties                                                               *)

InWindow == SumFunctionOnSet(fails, 0..Window)

\* However the attempts interleave and whatever commands are lost, the failures
\* within a window exceed the limit by less than the attempts that were admitted
\* together and the requests that died before they acted on their own: whoever
\* lives to count the limit sets a lock, and it outlasts the window it is set for.
FailuresBounded ==
  InWindow + Cardinality({r \in Reqs : req[r].pc = "add"})
    < MaxFailures + Cardinality(Reqs) + lost

\* A locked account opens again, however many attempts keep coming: refused
\* ones do not renew the lock.
LockEnds == lock > 0 ~> lock = 0

\* FR-022: the account stays locked for the whole period.  A sign-in admitted
\* before the lock and successful after it takes it away.
LockRunsOut == [][lock' < lock => Tick]_vars
=============================================================================
