---------------------------- MODULE StaffLockout ----------------------------
(***************************************************************************)
(* The sliding-window lockout of one staff account: the Redis sorted set    *)
(* signin:fail:<email> and the sign-in requests that read and write it.     *)
(* A step is one Redis command, or a trim and the count it is followed by;  *)
(* the request may die, or its command be lost, before any step.  Time is   *)
(* counted in ticks, and a failure is known by its age.  Entries older than *)
(* the window are dropped as they age: every count in the code trims them   *)
(* first, by a clock read just before.                                      *)
(***************************************************************************)
EXTENDS Naturals, FiniteSets, Functions, FiniteSetsExt

CONSTANTS
  Reqs,       \* concurrent sign-in requests for the account
  Threshold,  \* FAILS_THRESHOLD
  Window,     \* WINDOW_MS in ticks
  MaxSame     \* bound: failures kept per tick

\* What is assumed of the constants.
Sensible ==
  /\ IsFiniteSet(Reqs)
  /\ Threshold \in Nat \ {0} /\ Window \in Nat \ {0}
  /\ MaxSame \in Nat /\ MaxSame >= Threshold

VARIABLES
  fails,  \* fails[a]: members of the sorted set that are a ticks old
  keep,   \* ticks until the set expires, 0 when it has no expiry
  req     \* requests in flight; age is the age of the Date.now() they hold

vars == <<fails, keep, req>>

Ages == 0..Window
Eviction == 2 * Window  \* EVICTION_SECONDS
Request == [pc : {"idle", "verify", "record", "add", "expire", "clear"}, age : 0..Window + 1]
Idle == [pc |-> "idle", age |-> 0]

\* The counts, what is left of the key and the clock a request holds stay in range.
TypeOK ==
  /\ fails \in [Ages -> 0..MaxSame] /\ keep \in 0..Eviction
  /\ req \in [Reqs -> Request]

None == [a \in Ages |-> 0]
Count == SumFunctionOnSet(fails, Ages)
LockedOut == Count >= Threshold
Goto(r, pc) == req' = [req EXCEPT ![r] = [pc |-> pc, age |-> 0]]

\* A trim that leaves nothing removes the key and its expiry.
Trim == keep' = IF fails = None THEN 0 ELSE keep

Init == fails = None /\ keep = 0 /\ req = [r \in Reqs |-> Idle]

\* Mutant of Reject: the locked-out attempt is recorded as a failure too.
RejectAndRecord(r) ==
  /\ req[r].pc = "idle"
  /\ LockedOut
  /\ fails' = [fails EXCEPT ![0] = Min({MaxSame, @ + 1})]
  /\ UNCHANGED <<keep, req>>

\* isLockedOut: a locked-out attempt is answered and recorded nowhere here.
Reject(r) ==
  /\ req[r].pc = "idle"
  /\ LockedOut
  /\ UNCHANGED vars

Admit(r) ==
  /\ req[r].pc = "idle"
  /\ ~LockedOut
  /\ Trim
  /\ Goto(r, "verify")
  /\ UNCHANGED fails

\* Unknown e-mail, wrong password or inactive account: recordFailure.
Fail(r) ==
  /\ req[r].pc = "verify"
  /\ Goto(r, "record")
  /\ UNCHANGED <<fails, keep>>

\* recordFailure counts first and records nothing once the account is locked.
CountFailure(r) ==
  /\ req[r].pc = "record"
  /\ Trim
  /\ Goto(r, IF LockedOut THEN "idle" ELSE "add")
  /\ UNCHANGED fails

\* ZADD with the clock read before the count (an expired entry leaves no trace).
AddFailure(r) ==
  /\ req[r].pc = "add"
  /\ LET a == req[r].age IN
     IF a \in Ages THEN /\ fails[a] < MaxSame
                        /\ fails' = [fails EXCEPT ![a] = @ + 1]
     ELSE UNCHANGED fails
  /\ Goto(r, "expire")
  /\ UNCHANGED keep

\* EXPIRE does nothing to an absent key (a set whose members are all older than the
\* window is taken for one).
Expire(r) ==
  /\ req[r].pc = "expire"
  /\ keep' = IF fails = None THEN keep ELSE Eviction
  /\ Goto(r, "idle")
  /\ UNCHANGED fails

Succeed(r) ==
  /\ req[r].pc = "verify"
  /\ Goto(r, "clear")
  /\ UNCHANGED <<fails, keep>>

\* Mutant of Clear: a success takes back one failure instead of all.
ClearOne(r) ==
  /\ req[r].pc = "clear"
  /\ fails' = [fails EXCEPT ![0] = @ - 1]
  /\ Goto(r, "idle")
  /\ UNCHANGED keep

\* clearOnSuccess: DEL, whatever was recorded since the request was admitted.
Clear(r) ==
  /\ req[r].pc = "clear"
  /\ fails' = None /\ keep' = 0
  /\ Goto(r, "idle")

\* A Redis command is rejected or the process dies; what is written stays.
Crash(r) ==
  /\ req[r].pc # "idle"
  /\ Goto(r, "idle")
  /\ UNCHANGED <<fails, keep>>

\* Redis drops the set when its time has run out: an EXPIRE that was lost leaves
\* it the time of an earlier failure, or none.
Tick ==
  /\ fails' = IF keep = 1 THEN None
              ELSE [a \in Ages |-> IF a = 0 THEN 0 ELSE fails[a - 1]]
  /\ keep' = IF keep = 0 THEN 0 ELSE keep - 1
  /\ req' = [r \in Reqs |-> IF req[r].pc = "add"
                            THEN [req[r] EXCEPT !.age = Min({@ + 1, Window + 1})]
                            ELSE req[r]]

Step(r) ==
  \/ Reject(r) \/ Admit(r) \/ Fail(r) \/ CountFailure(r) \/ AddFailure(r)
  \/ Expire(r) \/ Succeed(r) \/ Clear(r) \/ Crash(r)

Next == Tick \/ \E r \in Reqs : Step(r)

\* Time passes.  Clients may keep trying, and need not.
Spec == Init /\ [][Next]_vars /\ WF_vars(Tick)

-----------------------------------------------------------------------------
(* Properties                                                               *)

\* Requests that counted together overshoot the threshold by one each at most:
\* the failures in the window and those about to be written stay below the
\* threshold plus the number of requests.
OvershootBounded ==
  Count + Cardinality({r \in Reqs : req[r].pc = "add"}) < Threshold + Cardinality(Reqs)

\* FR-031b: attempts made while locked out never push the end of the lockout
\* away; however many keep coming, it ends.
LockoutEnds == LockedOut ~> ~LockedOut

\* FR-031: the lockout clears once a whole window has passed since the most
\* recent failed attempt.  The code clears it when the failures that still lie
\* in the window are fewer than the threshold.
ClearsAfterLastFailure ==
  [][LockedOut /\ ~LockedOut' => fails' = None]_vars

\* FR-031a/FR-033: a success resets the count only of an account that is not
\* locked out.  An attempt admitted before the lockout began resets it too.
ActiveLockoutSurvivesSuccess ==
  [][\A r \in Reqs : req[r].pc = "clear" /\ req'[r].pc = "idle" => ~LockedOut]_vars
=============================================================================
