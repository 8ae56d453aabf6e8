---------------------------- MODULE Applications ----------------------------
(***************************************************************************)
(* The loan applications of one customer: the submission and its            *)
(* idempotency key, the choice of one of the matched offers, and the lead   *)
(* status that staff keep on each application.  What the matching engine    *)
(* answers is left open.  A request is a process whose awaits are step      *)
(* boundaries; the offer is chosen in a SERIALIZABLE transaction that works *)
(* on what it has read and cannot commit once the row was written since     *)
(* (touched).                                                               *)
(***************************************************************************)
EXTENDS Naturals, FiniteSets

CONSTANTS
  Apps, Offers,    \* rows of application and bank_offer
  Keys, Bodies,    \* Idempotency-Key headers and request bodies
  Leads,           \* lead statuses; a new application has NewLead
  Reqs,            \* requests in flight
  Limit,           \* requests the rate-limit guard lets through in an hour
  NoApp, NoOffer, NoKey, NewLead

ASSUME NoneAssumption == NoApp \notin Apps /\ NoOffer \notin Offers /\ NoKey \notin Keys
ASSUME BodiesAssumption == Bodies # {}
ASSUME NewLeadAssumption == NewLead \in Leads
ASSUME LimitAssumption == Limit \in Nat \ {0}

VARIABLES
  app,     \* application rows
  offer,   \* bank_offer rows: the application of each
  answer,  \* what was answered to submissions with a key
  hits,    \* requests counted against the customer in this hour
  req      \* requests in flight

vars == <<app, offer, answer, hits, req>>

App == [status : {"free", "matched", "no_match"}, key : Keys \cup {NoKey}, body : Bodies,
        selected : Offers \cup {NoOffer}, lead : Leads]
Answer == [key : Keys, body : Bodies, app : Apps]
AnyBody == CHOOSE b \in Bodies : TRUE
Free == [status |-> "free", key |-> NoKey, body |-> AnyBody, selected |-> NoOffer,
         lead |-> NewLead]
Request == [pc : {"idle", "lookup", "engine", "gated", "tx", "lead"},
            key : Keys \cup {NoKey}, body : Bodies,
            app : Apps \cup {NoApp}, offer : Offers \cup {NoOffer}, lead : Leads,
            touched : BOOLEAN]

Idle == [pc |-> "idle", key |-> NoKey, body |-> AnyBody, app |-> NoApp,
         offer |-> NoOffer, lead |-> NewLead, touched |-> FALSE]
Submission(pc, k, b) ==
  [pc |-> pc, key |-> k, body |-> b, app |-> NoApp, offer |-> NoOffer,
   lead |-> NewLead, touched |-> FALSE]
Choice(pc, a, o) ==
  [pc |-> pc, key |-> NoKey, body |-> AnyBody, app |-> a, offer |-> o,
   lead |-> NewLead, touched |-> FALSE]

Goto(r, m) == req' = [req EXCEPT ![r] = m]

\* Request r is done; it wrote the row of a, which an open transaction has read.
DoneWriting(r, a) ==
  req' = [q \in Reqs |-> IF q = r THEN Idle
                         ELSE IF req[q].pc = "tx" /\ req[q].app = a
                         THEN [req[q] EXCEPT !.touched = TRUE] ELSE req[q]]

WithKey(k) == {a \in Apps : app[a].key = k /\ app[a].status # "free"}

Init ==
  /\ app = [a \in Apps |-> Free]
  /\ offer = [o \in Offers |-> NoApp]
  /\ answer = {}
  /\ hits = 0
  /\ req = [r \in Reqs |-> Idle]

-----------------------------------------------------------------------------
(* POST /v1/apply                                                           *)

\* The guard counts the request before anything is known of its key.  Without a
\* key there is nothing to look up.
Submit(r, k, b) ==
  /\ req[r].pc = "idle"
  /\ hits < Limit
  /\ hits' = hits + 1
  /\ Goto(r, Submission(IF k = NoKey THEN "engine" ELSE "lookup", k, b))
  /\ UNCHANGED <<app, offer, answer>>

\* Past the limit a request of either kind is refused.
RateLimited(r) ==
  /\ req[r].pc = "idle"
  /\ hits >= Limit
  /\ UNCHANGED vars

\* findByIdempotencyKey finds the application of an earlier submission.  The
\* controller hands down no payload hash, so that the bodies are not compared.
Replay(r) ==
  LET m == req[r] IN
  /\ m.pc = "lookup"
  /\ \E a \in WithKey(m.key) :
       answer' = answer \cup {[key |-> m.key, body |-> m.body, app |-> a]}
  /\ Goto(r, Idle)
  /\ UNCHANGED <<app, offer, hits>>

\* No earlier row: the scope, the answers and the engine run, which write nothing
\* and whose offers Persist leaves open.
Fresh(r) ==
  /\ req[r].pc = "lookup"
  /\ WithKey(req[r].key) = {}
  /\ Goto(r, Submission("engine", req[r].key, req[r].body))
  /\ UNCHANGED <<app, offer, answer, hits>>

\* Mutant of KeyIsFree: no UNIQUE (applicantUserId, idempotencyKey).
KeyIsFreeAlways(k) == TRUE

\* UNIQUE (applicantUserId, idempotencyKey), which a null key never violates.
KeyIsFree(k) == k = NoKey \/ WithKey(k) = {}

\* persistMatch: the application and its offers, in one transaction.
Persist(r, a, S) ==
  LET m == req[r] IN
  /\ m.pc = "engine"
  /\ app[a].status = "free" /\ KeyIsFree(m.key)
  /\ \A o \in S : offer[o] = NoApp
  /\ app' = [app EXCEPT ![a] = [status |-> IF S = {} THEN "no_match" ELSE "matched",
                                key |-> m.key, body |-> m.body, selected |-> NoOffer,
                                lead |-> NewLead]]
  /\ offer' = [o \in Offers |-> IF o \in S THEN a ELSE offer[o]]
  /\ answer' = IF m.key = NoKey THEN answer
               ELSE answer \cup {[key |-> m.key, body |-> m.body, app |-> a]}
  /\ Goto(r, Idle)
  /\ UNCHANGED hits

\* The unique index refuses the row; nobody catches that, and the request fails.
PersistConflict(r) ==
  /\ req[r].pc = "engine"
  /\ ~KeyIsFree(req[r].key)
  /\ Goto(r, Idle)
  /\ UNCHANGED <<app, offer, answer, hits>>

-----------------------------------------------------------------------------
(* POST /v1/applications/:id/select-offer                                   *)

\* The guard, and the document gate read before the transaction.
SelectOffer(r, a, o) ==
  /\ req[r].pc = "idle"
  /\ hits < Limit
  /\ hits' = hits + 1
  /\ Goto(r, Choice("gated", a, o))
  /\ UNCHANGED <<app, offer, answer>>

\* Mutant of Selectable: whose offer it is is not checked.
SelectableAnyOffer(a, o) ==
  app[a].status = "matched" /\ app[a].selected = NoOffer

\* The checks of the transaction, on its snapshot.
Selectable(a, o) ==
  app[a].status = "matched" /\ app[a].selected = NoOffer /\ offer[o] = a

SelectRead(r) ==
  LET m == req[r] IN
  /\ m.pc = "gated"
  /\ Selectable(m.app, m.offer)
  /\ Goto(r, Choice("tx", m.app, m.offer))
  /\ UNCHANGED <<app, offer, answer, hits>>

SelectRefused(r) ==
  LET m == req[r] IN
  /\ m.pc = "gated"
  /\ ~Selectable(m.app, m.offer)
  /\ Goto(r, Idle)
  /\ UNCHANGED <<app, offer, answer, hits>>

\* Mutant of SelectCommit: the transaction is READ COMMITTED.
SelectCommitStale(r) ==
  LET m == req[r] IN
  /\ m.pc = "tx"
  /\ app' = [app EXCEPT ![m.app].selected = m.offer]
  /\ DoneWriting(r, m.app)
  /\ UNCHANGED <<offer, answer, hits>>

SelectCommit(r) ==
  LET m == req[r] IN
  /\ m.pc = "tx" /\ ~m.touched
  /\ app' = [app EXCEPT ![m.app].selected = m.offer]
  /\ DoneWriting(r, m.app)
  /\ UNCHANGED <<offer, answer, hits>>

\* A serialization failure is not retried here.
SelectAborted(r) ==
  /\ req[r].pc = "tx" /\ req[r].touched
  /\ Goto(r, Idle)
  /\ UNCHANGED <<app, offer, answer, hits>>

-----------------------------------------------------------------------------
(* Staff: the lead status                                                   *)

\* setLeadStatus reads the status and stops when it is the one asked for.
LeadRead(r, a, l) ==
  /\ req[r].pc = "idle"
  /\ app[a].status # "free" /\ app[a].lead # l
  /\ Goto(r, [pc |-> "lead", key |-> NoKey, body |-> AnyBody, app |-> a,
              offer |-> NoOffer, lead |-> l, touched |-> FALSE])
  /\ UNCHANGED <<app, offer, answer, hits>>

\* The update and its audit row, in one transaction.
LeadCommit(r) ==
  LET m == req[r] IN
  /\ m.pc = "lead"
  /\ app' = [app EXCEPT ![m.app].lead = m.lead]
  /\ DoneWriting(r, m.app)
  /\ UNCHANGED <<offer, answer, hits>>

-----------------------------------------------------------------------------

\* A statement fails or the process dies; an open transaction is rolled back.
Crash(r) ==
  /\ req[r].pc # "idle"
  /\ Goto(r, Idle)
  /\ UNCHANGED <<app, offer, answer, hits>>

\* The hour of the counter ends (see RateLimit).
HourEnds ==
  /\ hits > 0
  /\ hits' = 0
  /\ UNCHANGED <<app, offer, answer, req>>

Arrive(r) ==
  \/ RateLimited(r)
  \/ \E k \in Keys \cup {NoKey}, b \in Bodies : Submit(r, k, b)
  \/ \E a \in Apps, o \in Offers : SelectOffer(r, a, o)
  \/ \E a \in Apps, l \in Leads : LeadRead(r, a, l)

Step(r) ==
  \/ Replay(r) \/ Fresh(r) \/ PersistConflict(r)
  \/ \E a \in Apps, S \in SUBSET Offers : Persist(r, a, S)
  \/ SelectRead(r) \/ SelectRefused(r) \/ SelectCommit(r) \/ SelectAborted(r)
  \/ LeadCommit(r) \/ Crash(r)

Next == HourEnds \/ \E r \in Reqs : Arrive(r) \/ Step(r)

Spec == Init /\ [][Next]_vars

-----------------------------------------------------------------------------
(* Properties                                                               *)

TypeOK ==
  /\ app \in [Apps -> App]
  /\ offer \in [Offers -> Apps \cup {NoApp}]
  /\ answer \subseteq Answer
  /\ hits \in 0..Limit
  /\ req \in [Reqs -> Request]

\* A double tap or a retried select-offer never changes the choice: once an
\* application has its offer, it keeps it, and a lead status written meanwhile
\* does not lose it.
OfferChosenOnce ==
  [][\A a \in Apps : app[a].selected # NoOffer => app'[a].selected = app[a].selected]_vars

\* Two submissions with one key, however they race, are never answered with
\* different applications.
AnswersAgree == \A x, y \in answer : x.key = y.key => x.app = y.app

KeysAreUnique ==
  \A a, b \in Apps : app[a].key = app[b].key /\ app[a].key # NoKey => a = b
AnswersAreRows == \A x \in answer : app[x.app].key = x.key
FreeRows == \A a \in Apps : app[a].status = "free" => app[a] = Free
OwnOffer(a, o) == app[a].status = "matched" /\ offer[o] = a
ChoicesAreOwn ==
  \A a \in Apps : app[a].selected # NoOffer => OwnOffer(a, app[a].selected)
RequestOK(m) ==
  /\ m.pc = "lookup" => m.key \in Keys
  /\ m.pc \in {"gated", "tx"} => m.app \in Apps /\ m.offer \in Offers
  /\ m.pc = "lead" => m.app \in Apps /\ app[m.app].status # "free"
  /\ m.pc = "tx" => /\ OwnOffer(m.app, m.offer)
                    /\ ~m.touched => app[m.app].selected = NoOffer

\* Inductive strengthening of the two: an answer names the one application of
\* its key, a chosen offer is one of the application's own, and a transaction
\* that can still commit has read an application without a choice.
IInv ==
  /\ TypeOK /\ KeysAreUnique /\ AnswersAreRows /\ FreeRows /\ ChoicesAreOwn
  /\ \A r \in Reqs : RequestOK(req[r])

\* FR-044: the same key with another body is refused.
MismatchRefused == \A x \in answer : x.body = app[x.app].body

\* FR-044: the same key with the same body is answered, also while the first
\* submission is still at work.
RetryAnswered ==
  [][\A r \in Reqs : PersistConflict(r) =>
       \A a \in WithKey(req[r].key) : app[a].body # req[r].body]_vars

\* FR-067: a re-submission does not count against the limit, so that none is
\* refused for it.
ReplaysAreFree ==
  [][\A r \in Reqs, k \in Keys, b \in Bodies :
       Submit(r, k, b) => \A a \in WithKey(k) : app[a].body # b]_vars

\* "No-op when unchanged - avoids a redundant audit row": the status a request
\* audits is a change of the status.
AuditIsAChange ==
  [][\A r \in Reqs : LeadCommit(r) => app[req[r].app].lead # req[r].lead]_vars
=============================================================================
