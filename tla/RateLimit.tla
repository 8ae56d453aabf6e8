------------------------------ MODULE RateLimit ------------------------------
(***************************************************************************)
(* One bucket of MobileRateLimitGuard: a Redis counter that INCR creates    *)
(* without an expiry and a second command, EXPIRE, gives its window.  The   *)
(* guard ticks the bucket of the customer and then that of the applicant;   *)
(* each behaves as this one.  Time is counted in ticks.                     *)
(***************************************************************************)
EXTENDS Naturals, FiniteSets, Functions, FiniteSetsExt

CONSTANTS
  Reqs,
  Limit,    \* MOBILE_RATE_LIMIT_PER_..._PER_HOUR
  Window    \* WINDOW_SECONDS in ticks

\* What is assumed of the constants.
Sensible == IsFiniteSet(Reqs) /\ Limit \in Nat \ {0} /\ Window \in Nat \ {0}

VARIABLES
  count,     \* the value of the key, 0 when it is absent
  ttl,       \* ticks until the key expires, 0 when it has no expiry
  admitted,  \* admitted[a]: requests let through a ticks ago
  req        \* requests in flight and the count INCR returned to them

vars == <<count, ttl, admitted, req>>

Ages == 0..Window
MaxCount == Limit + Cardinality(Reqs) + 1   \* bound: higher counts are all alike
Idle == [pc |-> "idle", count |-> 0, late |-> FALSE]
Request == [pc : {"idle", "expire", "decide"}, count : 0..MaxCount, late : BOOLEAN]

\* The requests of two windows at most are let through in one tick.
TypeOK ==
  /\ count \in 0..MaxCount /\ ttl \in Ages
  /\ admitted \in [Ages -> 0..2 * Limit]
  /\ req \in [Reqs -> Request]

Init ==
  /\ count = 0 /\ ttl = 0
  /\ admitted = [a \in Ages |-> 0]
  /\ req = [r \in Reqs |-> Idle]

\* Mutant of NeedsExpiry: every request renews the expiry.
NeedsExpiryAlways(n) == TRUE

NeedsExpiry(n) == n = 1

Incr(r) ==
  LET n == Min({MaxCount, count + 1}) IN
  /\ req[r].pc = "idle"
  /\ count' = n
  /\ req' = [req EXCEPT ![r] = [pc |-> IF NeedsExpiry(n) THEN "expire" ELSE "decide",
                                count |-> n, late |-> FALSE]]
  /\ UNCHANGED <<ttl, admitted>>

\* EXPIRE does nothing to an absent key.
Expire(r) ==
  /\ req[r].pc = "expire"
  /\ ttl' = IF count = 0 THEN 0 ELSE Window
  /\ req' = [req EXCEPT ![r].pc = "decide"]
  /\ UNCHANGED <<count, admitted>>

\* Mutant of Within: the comparison is off by one.
WithinOrOneMore(n) == n <= Limit + 1

Within(n) == n <= Limit

Decide(r) ==
  /\ req[r].pc = "decide"
  /\ admitted' = IF Within(req[r].count) THEN [admitted EXCEPT ![0] = @ + 1] ELSE admitted
  /\ req' = [req EXCEPT ![r] = Idle]
  /\ UNCHANGED <<count, ttl>>

Crash(r) ==
  /\ req[r].pc # "idle"
  /\ req' = [req EXCEPT ![r] = Idle]
  /\ UNCHANGED <<count, ttl, admitted>>

\* Redis drops the key when its time has run out.  A request ends at the latest
\* in the tick after the one it began in.
Tick ==
  /\ \A r \in Reqs : ~req[r].late
  /\ ttl' = IF ttl = 0 THEN 0 ELSE ttl - 1
  /\ count' = IF ttl = 1 THEN 0 ELSE count
  /\ admitted' = [a \in Ages |-> IF a = 0 THEN 0 ELSE admitted[a - 1]]
  /\ req' = [r \in Reqs |-> [req[r] EXCEPT !.late = req[r].pc # "idle"]]

Finish(r) == Expire(r) \/ Decide(r)

Next == Tick \/ \E r \in Reqs : Incr(r) \/ Finish(r) \/ Crash(r)

\* Time passes: clients may press as hard as they like, and a request that has
\* begun ends.
Spec == Init /\ [][Next]_vars /\ WF_vars(Tick) /\ \A r \in Reqs : WF_vars(Finish(r))

-----------------------------------------------------------------------------
(* Properties                                                               *)

InWindow == SumFunctionOnSet(admitted, 0..Window - 1)

\* In any window of time no more than two windows' worth is let through, however
\* requests race the expiry.
TwiceTheLimit == InWindow <= 2 * Limit

Exceeded == ~Within(count + 1)

\* A counter that nobody will give an expiry: the request that found it absent
\* died between INCR and EXPIRE.
Orphaned == count > 0 /\ ttl = 0 /\ \A r \in Reqs : req[r].pc # "expire"

\* A client over the limit is let in again some day, however hard it presses:
\* its refused requests count, but do not renew the window.  An orphaned counter
\* is the one exception.
WindowEnds == Exceeded ~> (~Exceeded \/ Orphaned)

\* "Uses Redis INCR with a 1 h TTL window": without the exception, it is false.
CounterExpires == Exceeded ~> ~Exceeded

\* FR-066: the limit holds for any rolling hour.  The counter's hour begins with
\* its first request, and the last of one hour meet the first of the next.
RollingLimit == InWindow <= Limit
=============================================================================
