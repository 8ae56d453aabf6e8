------------------------ MODULE Applications_proofs ------------------------
(***************************************************************************)
(* Proofs about Applications, for any number of applications, offers, keys  *)
(* and concurrent requests.                                                 *)
(***************************************************************************)
EXTENDS Applications, TLAPS

\* Requests without a body of their own carry some legal body.
LEMMA AnyBodyType == AnyBody \in Bodies
BY BodiesAssumption DEF AnyBody

\* The state of a request slot between two calls is well typed.
LEMMA IdleType == Idle \in Request /\ Idle.pc = "idle"
BY AnyBodyType, NewLeadAssumption DEF Idle, Request

\* An application slot that holds no row yet is well typed.
LEMMA FreeType ==
  /\ Free \in App
  /\ Free.status = "free" /\ Free.key = NoKey /\ Free.selected = NoOffer
BY AnyBodyType, NewLeadAssumption DEF Free, App

\* A request that has just received POST /apply is well typed.
LEMMA SubmissionType ==
  ASSUME NEW pc \in {"lookup", "engine"}, NEW k \in Keys \cup {NoKey}, NEW b \in Bodies
  PROVE  /\ Submission(pc, k, b) \in Request
         /\ Submission(pc, k, b).pc = pc /\ Submission(pc, k, b).key = k
BY NewLeadAssumption DEF Submission, Request

\* A request that has just received POST select-offer is well typed.
LEMMA ChoiceType ==
  ASSUME NEW pc \in {"gated", "tx"}, NEW a \in Apps, NEW o \in Offers
  PROVE  /\ Choice(pc, a, o) \in Request
         /\ Choice(pc, a, o).pc = pc /\ Choice(pc, a, o).app = a /\ Choice(pc, a, o).offer = o
BY AnyBodyType, NewLeadAssumption DEF Choice, Request

\* A step that writes no row keeps the invariant if its request may go where it goes.
LEMMA QuietStep ==
  ASSUME IInv, NEW r \in Reqs, NEW m \in Request, Goto(r, m), RequestOK(m),
         UNCHANGED <<app, offer>>, answer' = answer, hits' \in 0..Limit
  PROVE  IInv'
<1>1. req' \in [Reqs -> Request] BY DEF IInv, TypeOK, Goto
<1>2. req'[r] = m /\ \A q \in Reqs : q # r => req'[q] = req[q]
  BY DEF IInv, TypeOK, Goto
<1>3. TypeOK' BY <1>1 DEF IInv, TypeOK
<1>4. KeysAreUnique' /\ AnswersAreRows' /\ FreeRows'
  BY DEF IInv, KeysAreUnique, AnswersAreRows, FreeRows
<1>5. ChoicesAreOwn' BY DEF IInv, ChoicesAreOwn, OwnOffer
<1>6. \A q \in Reqs : RequestOK(req[q])'
  BY <1>2 DEF IInv, RequestOK, OwnOffer
<1> QED BY <1>3, <1>4, <1>5, <1>6 DEF IInv

\* What the rest of the requests know survives a write to the row of one
\* application: an open transaction that has read it can no longer commit.
LEMMA DoneWritingRequests ==
  ASSUME TypeOK, NEW r \in Reqs, NEW a \in Apps, DoneWriting(r, a),
         \A q \in Reqs : RequestOK(req[q]),
         app' \in [Apps -> App], offer' = offer,
         \A b \in Apps : b # a => app'[b] = app[b],
         app'[a].status = app[a].status
  PROVE  req' \in [Reqs -> Request] /\ \A q \in Reqs : RequestOK(req[q])'
<1> DEFINE next(q) == IF q = r THEN Idle
                      ELSE IF req[q].pc = "tx" /\ req[q].app = a
                      THEN [req[q] EXCEPT !.touched = TRUE] ELSE req[q]
<1>1. ASSUME NEW q \in Reqs PROVE next(q) \in Request
  <2>1. [req[q] EXCEPT !.touched = TRUE] \in Request BY DEF TypeOK, Request
  <2> QED BY <2>1, IdleType DEF TypeOK
<1>2. req' = [q \in Reqs |-> next(q)] BY DEF DoneWriting
<1>3. req' \in [Reqs -> Request]
  <2> HIDE DEF next
  <2> QED BY <1>1, <1>2
<1>4. ASSUME NEW q \in Reqs PROVE RequestOK(req[q])'
  <2>1. req'[q] = next(q) BY <1>2
  <2>2. CASE q = r BY <2>1, <2>2, IdleType DEF RequestOK
  <2>3. CASE q # r /\ req[q].pc = "tx" /\ req[q].app = a
    <3>1. req'[q] = [req[q] EXCEPT !.touched = TRUE] BY <2>1, <2>3
    <3>2. /\ req'[q].pc = "tx" /\ req'[q].app = a /\ req'[q].touched
          /\ req'[q].offer = req[q].offer
      BY <3>1, <2>3 DEF TypeOK, Request
    <3> QED BY <2>3, <3>2 DEF RequestOK, OwnOffer
  <2>4. CASE q # r /\ ~(req[q].pc = "tx" /\ req[q].app = a)
    <3>1. req'[q] = req[q] BY <2>1, <2>4
    <3> QED BY <3>1, <2>4 DEF RequestOK, OwnOffer
  <2> QED BY <2>2, <2>3, <2>4
<1> QED BY <1>3, <1>4

\* The empty database satisfies the inductive invariant.
LEMMA InitIInv == Init => IInv
<1> SUFFICES ASSUME Init PROVE IInv OBVIOUS
<1>1. TypeOK BY IdleType, FreeType, LimitAssumption DEF Init, TypeOK
<1>2. \A a \in Apps : app[a] = Free BY DEF Init
<1>3. KeysAreUnique /\ AnswersAreRows /\ FreeRows /\ ChoicesAreOwn
  BY <1>2, FreeType DEF Init, KeysAreUnique, AnswersAreRows, FreeRows, ChoicesAreOwn
<1>4. \A r \in Reqs : RequestOK(req[r]) BY IdleType DEF Init, RequestOK
<1> QED BY <1>1, <1>3, <1>4 DEF IInv

-----------------------------------------------------------------------------
(* The steps that write no row                                              *)

\* A slot between two calls relies on no row.
LEMMA IdleOK == RequestOK(Idle)
BY IdleType DEF RequestOK

\* Receiving an application writes no row, whatever the key lookup found.
LEMMA SubmitKeeps ==
  ASSUME IInv, NEW r \in Reqs, NEW k \in Keys \cup {NoKey}, NEW b \in Bodies, Submit(r, k, b)
  PROVE  IInv'
<1> DEFINE pc == IF k = NoKey THEN "engine" ELSE "lookup"
<1>1. Submission(pc, k, b) \in Request /\ RequestOK(Submission(pc, k, b))
  BY SubmissionType DEF RequestOK
<1>2. hits' \in 0..Limit BY LimitAssumption DEF Submit, IInv, TypeOK
<1>3. Goto(r, Submission(pc, k, b)) /\ UNCHANGED <<app, offer>> /\ answer' = answer
  BY DEF Submit
<1> QED BY <1>1, <1>2, <1>3, QuietStep

\* Deciding that the key is new writes no row.
LEMMA FreshKeeps == ASSUME IInv, NEW r \in Reqs, Fresh(r) PROVE IInv'
<1> DEFINE m == Submission("engine", req[r].key, req[r].body)
<1>1. req[r].key \in Keys \cup {NoKey} /\ req[r].body \in Bodies
  BY DEF IInv, TypeOK, Request
<1>2. m \in Request /\ RequestOK(m) BY <1>1, SubmissionType DEF RequestOK
<1>3. Goto(r, m) /\ UNCHANGED <<app, offer>> /\ answer' = answer /\ hits' \in 0..Limit
  BY DEF Fresh, IInv, TypeOK
<1> QED BY <1>2, <1>3, QuietStep

\* A lost race, a refused or aborted choice and a crash write no row.
LEMMA GiveUpKeeps ==
  ASSUME IInv, NEW r \in Reqs,
         PersistConflict(r) \/ SelectRefused(r) \/ SelectAborted(r) \/ Crash(r)
  PROVE  IInv'
<1>1. Goto(r, Idle) /\ UNCHANGED <<app, offer>> /\ answer' = answer /\ hits' \in 0..Limit
  BY DEF PersistConflict, SelectRefused, SelectAborted, Crash, IInv, TypeOK
<1> QED BY <1>1, IdleType, IdleOK, QuietStep

\* Receiving an offer choice writes no row.
LEMMA SelectOfferKeeps ==
  ASSUME IInv, NEW r \in Reqs, NEW a \in Apps, NEW o \in Offers, SelectOffer(r, a, o)
  PROVE  IInv'
<1>1. Choice("gated", a, o) \in Request /\ RequestOK(Choice("gated", a, o))
  BY ChoiceType DEF RequestOK
<1>2. hits' \in 0..Limit BY LimitAssumption DEF SelectOffer, IInv, TypeOK
<1>3. Goto(r, Choice("gated", a, o)) /\ UNCHANGED <<app, offer>> /\ answer' = answer
  BY DEF SelectOffer
<1> QED BY <1>1, <1>2, <1>3, QuietStep

\* Reading the offer remembers the application that owns it.
LEMMA SelectReadKeeps == ASSUME IInv, NEW r \in Reqs, SelectRead(r) PROVE IInv'
<1> DEFINE m == Choice("tx", req[r].app, req[r].offer)
<1>1. req[r].app \in Apps /\ req[r].offer \in Offers
  BY DEF SelectRead, IInv, RequestOK
<1>2. m \in Request /\ m.pc = "tx" /\ m.app = req[r].app /\ m.offer = req[r].offer
  BY <1>1, ChoiceType
<1>3. RequestOK(m)
  <2> HIDE DEF m
  <2> QED BY <1>1, <1>2 DEF SelectRead, Selectable, RequestOK, OwnOffer
<1>4. Goto(r, m) /\ UNCHANGED <<app, offer>> /\ answer' = answer /\ hits' \in 0..Limit
  BY DEF SelectRead, IInv, TypeOK
<1> QED BY <1>2, <1>3, <1>4, QuietStep

\* Reading the lead status writes no row.
LEMMA LeadReadKeeps ==
  ASSUME IInv, NEW r \in Reqs, NEW a \in Apps, NEW l \in Leads, LeadRead(r, a, l)
  PROVE  IInv'
<1> DEFINE m == [pc |-> "lead", key |-> NoKey, body |-> AnyBody, app |-> a,
                 offer |-> NoOffer, lead |-> l, touched |-> FALSE]
<1>1. m \in Request BY AnyBodyType DEF Request
<1>2. RequestOK(m) BY DEF LeadRead, RequestOK
<1>3. Goto(r, m) /\ UNCHANGED <<app, offer>> /\ answer' = answer /\ hits' \in 0..Limit
  BY DEF LeadRead, IInv, TypeOK
<1> QED BY <1>1, <1>2, <1>3, QuietStep

-----------------------------------------------------------------------------
(* The steps that write                                                     *)

\* A replay is answered with the row that has the key.
LEMMA ReplayKeeps == ASSUME IInv, NEW r \in Reqs, Replay(r) PROVE IInv'
<1> DEFINE k == req[r].key
           b == req[r].body
<1>1. k \in Keys /\ b \in Bodies BY DEF Replay, IInv, TypeOK, Request, RequestOK
<1>2. PICK a \in WithKey(k) : answer' = answer \cup {[key |-> k, body |-> b, app |-> a]}
  BY DEF Replay
<1>3. a \in Apps /\ app[a].key = k BY DEF WithKey
<1>4. UNCHANGED <<app, offer, hits>> /\ req' = [req EXCEPT ![r] = Idle]
  BY DEF Replay, Goto
<1>5. answer' \subseteq Answer BY <1>1, <1>2, <1>3 DEF IInv, TypeOK, Answer
<1>6. TypeOK' BY <1>4, <1>5, IdleType DEF IInv, TypeOK
<1>7. AnswersAreRows' BY <1>2, <1>3, <1>4 DEF IInv, AnswersAreRows
<1>8. KeysAreUnique' /\ FreeRows' BY <1>4 DEF IInv, KeysAreUnique, FreeRows
<1>9. ChoicesAreOwn' BY <1>4 DEF IInv, ChoicesAreOwn, OwnOffer
<1>10. \A q \in Reqs : RequestOK(req[q])'
  <2>1. \A q \in Reqs : req'[q] = req[q] \/ req'[q] = Idle
    BY <1>4 DEF IInv, TypeOK
  <2> QED BY <2>1, <1>4, IdleType DEF IInv, RequestOK, OwnOffer
<1> QED BY <1>6, <1>7, <1>8, <1>9, <1>10 DEF IInv

\* The new row was free: it is nobody's choice, nobody's answer and in no open
\* transaction, and the unique index has made sure of its key.
LEMMA PersistKeeps ==
  ASSUME IInv, NEW r \in Reqs, NEW a \in Apps, NEW S \in SUBSET Offers, Persist(r, a, S)
  PROVE  IInv'
<1> DEFINE k == req[r].key
           b == req[r].body
           row == [status |-> IF S = {} THEN "no_match" ELSE "matched", key |-> k,
                   body |-> b, selected |-> NoOffer, lead |-> NewLead]
<1>1. k \in Keys \cup {NoKey} /\ b \in Bodies BY DEF IInv, TypeOK, Request
<1>2. row \in App BY <1>1, NewLeadAssumption DEF App
<1>3. /\ app' = [app EXCEPT ![a] = row]
      /\ offer' = [o \in Offers |-> IF o \in S THEN a ELSE offer[o]]
      /\ hits' = hits /\ req' = [req EXCEPT ![r] = Idle]
      /\ answer' = IF k = NoKey THEN answer
                   ELSE answer \cup {[key |-> k, body |-> b, app |-> a]}
  BY DEF Persist, Goto
<1>4. app[a] = Free /\ app[a].status = "free" /\ app[a].key = NoKey
  BY FreeType DEF Persist, IInv, FreeRows
<1>5. app' \in [Apps -> App] /\ app'[a] = row /\ \A c \in Apps : c # a => app'[c] = app[c]
  BY <1>2, <1>3 DEF IInv, TypeOK
<1>6. row.status # "free" /\ row.key = k /\ row.selected = NoOffer OBVIOUS
<1>7. \A c \in Apps, o \in Offers : c # a /\ OwnOffer(c, o) => OwnOffer(c, o)'
  BY <1>3, <1>5, NoneAssumption DEF Persist, OwnOffer
<1>8. TypeOK'
  <2>1. answer' \subseteq Answer BY <1>1, <1>3 DEF IInv, TypeOK, Answer
  <2>2. offer' \in [Offers -> Apps \cup {NoApp}] BY <1>3 DEF IInv, TypeOK
  <2> QED BY <1>3, <1>5, <2>1, <2>2, IdleType DEF IInv, TypeOK
<1> HIDE DEF row
<1>9. KeysAreUnique'
  <2>1. ASSUME NEW c \in Apps, c # a, k # NoKey PROVE app[c].key # k
    <3>1. app[c].status = "free" => app[c].key = NoKey
      BY FreeType DEF IInv, FreeRows
    <3> QED BY <2>1, <3>1 DEF Persist, KeyIsFree, WithKey
  <2> QED BY <1>5, <1>6, <2>1 DEF IInv, KeysAreUnique
<1>10. AnswersAreRows'
  <2>1. \A x \in answer : x.app \in Apps /\ x.key \in Keys /\ app[x.app].key = x.key
    BY DEF IInv, TypeOK, Answer, AnswersAreRows
  <2>2. \A x \in answer : x.app # a BY <1>4, <2>1, NoneAssumption
  <2>3. \A x \in answer : app'[x.app].key = x.key BY <1>5, <2>1, <2>2
  <2> QED BY <1>3, <1>5, <1>6, <2>3 DEF AnswersAreRows
<1>11. FreeRows' BY <1>5, <1>6 DEF IInv, FreeRows
<1>12. ChoicesAreOwn'
  <2>1. ASSUME NEW c \in Apps, app'[c].selected # NoOffer PROVE OwnOffer(c, app[c].selected)'
    <3>1. c # a /\ app'[c] = app[c] BY <1>5, <1>6, <2>1
    <3>2. OwnOffer(c, app[c].selected) BY <2>1, <3>1 DEF IInv, ChoicesAreOwn
    <3>3. app[c].selected \in Offers BY <2>1, <3>1 DEF IInv, TypeOK, App
    <3> QED BY <1>7, <3>1, <3>2, <3>3
  <2> QED BY <2>1 DEF ChoicesAreOwn
<1>13. ASSUME NEW q \in Reqs PROVE RequestOK(req[q])'
  <2>1. CASE q = r
    <3>1. req'[q] = Idle BY <1>3, <2>1 DEF IInv, TypeOK
    <3> QED BY <3>1, IdleType DEF RequestOK
  <2>2. CASE q # r
    <3>1. req'[q] = req[q] BY <1>3, <2>2 DEF IInv, TypeOK
    <3>2. RequestOK(req[q]) BY DEF IInv
    <3>3. req[q].pc = "tx" => req[q].app # a BY <3>2, <1>4 DEF RequestOK, OwnOffer
    <3>4. req[q].pc = "tx" => OwnOffer(req[q].app, req[q].offer)'
      BY <1>7, <3>1, <3>2, <3>3 DEF RequestOK
    <3>5. req[q].pc = "lead" => app'[req[q].app].status # "free"
      BY <1>5, <1>6, <3>2 DEF RequestOK
    <3> QED BY <1>5, <3>1, <3>2, <3>3, <3>4, <3>5 DEF RequestOK
  <2> QED BY <2>1, <2>2
<1> QED BY <1>8, <1>9, <1>10, <1>11, <1>12, <1>13 DEF IInv

\* A commit that is not touched chooses an own offer for an application that has
\* none; the transactions that have read the same row are doomed.
LEMMA SelectCommitKeeps == ASSUME IInv, NEW r \in Reqs, SelectCommit(r) PROVE IInv'
<1> DEFINE a == req[r].app
           o == req[r].offer
<1>1. a \in Apps /\ o \in Offers /\ OwnOffer(a, o)
  BY DEF SelectCommit, IInv, RequestOK
<1>2. app' = [app EXCEPT ![a].selected = o] /\ DoneWriting(r, a) /\ UNCHANGED <<offer, answer, hits>>
  BY DEF SelectCommit
<1>3. /\ app' \in [Apps -> App] /\ \A b \in Apps : b # a => app'[b] = app[b]
      /\ app'[a].status = app[a].status /\ app'[a].key = app[a].key /\ app'[a].selected = o
  BY <1>1, <1>2 DEF IInv, TypeOK, App
<1>4. req' \in [Reqs -> Request] /\ \A q \in Reqs : RequestOK(req[q])'
  BY <1>1, <1>2, <1>3, DoneWritingRequests DEF IInv
<1>5. TypeOK' BY <1>2, <1>3, <1>4 DEF IInv, TypeOK
<1>6. KeysAreUnique' BY <1>1, <1>3 DEF IInv, KeysAreUnique
<1>7. AnswersAreRows' BY <1>1, <1>2, <1>3 DEF IInv, TypeOK, Answer, AnswersAreRows
<1>8. FreeRows' BY <1>1, <1>3, FreeType DEF IInv, FreeRows, OwnOffer
<1>9. ChoicesAreOwn' BY <1>1, <1>2, <1>3 DEF IInv, ChoicesAreOwn, OwnOffer
<1> QED BY <1>4, <1>5, <1>6, <1>7, <1>8, <1>9 DEF IInv

\* A lead status change leaves offers, choices and keys alone.
LEMMA LeadCommitKeeps == ASSUME IInv, NEW r \in Reqs, LeadCommit(r) PROVE IInv'
<1> DEFINE a == req[r].app
<1>1. a \in Apps /\ app[a].status # "free" /\ req[r].lead \in Leads
  BY DEF LeadCommit, IInv, TypeOK, Request, RequestOK
<1>2. /\ app' = [app EXCEPT ![a].lead = req[r].lead]
      /\ DoneWriting(r, a) /\ UNCHANGED <<offer, answer, hits>>
  BY DEF LeadCommit
<1>3. /\ app' \in [Apps -> App] /\ \A b \in Apps : b # a => app'[b] = app[b]
      /\ app'[a].status = app[a].status /\ app'[a].key = app[a].key
      /\ app'[a].selected = app[a].selected
  BY <1>1, <1>2 DEF IInv, TypeOK, App
<1>4. req' \in [Reqs -> Request] /\ \A q \in Reqs : RequestOK(req[q])'
  BY <1>1, <1>2, <1>3, DoneWritingRequests DEF IInv
<1>5. TypeOK' BY <1>2, <1>3, <1>4 DEF IInv, TypeOK
<1>6. KeysAreUnique' BY <1>1, <1>3 DEF IInv, KeysAreUnique
<1>7. AnswersAreRows' BY <1>1, <1>2, <1>3 DEF IInv, TypeOK, Answer, AnswersAreRows
<1>8. FreeRows' BY <1>1, <1>3 DEF IInv, FreeRows
<1>9. ChoicesAreOwn' BY <1>1, <1>2, <1>3 DEF IInv, ChoicesAreOwn, OwnOffer
<1> QED BY <1>4, <1>5, <1>6, <1>7, <1>8, <1>9 DEF IInv

-----------------------------------------------------------------------------

\* The invariant of the answers and the choices holds however requests race,
\* fail and are retried.
THEOREM Inductive == Spec => []IInv
<1>1. IInv /\ [Next]_vars => IInv'
  <2> SUFFICES ASSUME IInv, [Next]_vars PROVE IInv' OBVIOUS
  <2>1. CASE UNCHANGED vars
    BY <2>1 DEF vars, IInv, TypeOK, KeysAreUnique, AnswersAreRows, FreeRows, ChoicesAreOwn,
       RequestOK, OwnOffer
  <2>2. CASE HourEnds
    BY <2>2, LimitAssumption DEF HourEnds, IInv, TypeOK, KeysAreUnique, AnswersAreRows,
       FreeRows, ChoicesAreOwn, RequestOK, OwnOffer
  <2>3. ASSUME NEW r \in Reqs, Arrive(r) PROVE IInv'
    <3>1. CASE RateLimited(r)
      BY <3>1 DEF RateLimited, vars, IInv, TypeOK, KeysAreUnique, AnswersAreRows, FreeRows,
         ChoicesAreOwn, RequestOK, OwnOffer
    <3> QED BY <2>3, <3>1, SubmitKeeps, SelectOfferKeeps, LeadReadKeeps DEF Arrive
  <2>4. ASSUME NEW r \in Reqs, Step(r) PROVE IInv'
    BY <2>4, ReplayKeeps, FreshKeeps, GiveUpKeeps, PersistKeeps, SelectReadKeeps,
       SelectCommitKeeps, LeadCommitKeeps DEF Step
  <2> QED BY <2>1, <2>2, <2>3, <2>4 DEF Next
<1> QED BY InitIInv, <1>1, PTL DEF Spec

\* findByIdempotencyKey and the unique index: one key, one application.
THEOREM OneAnswerPerKey == Spec => []AnswersAgree
<1>1. IInv => AnswersAgree
  <2> SUFFICES ASSUME IInv, NEW x \in answer, NEW y \in answer, x.key = y.key
               PROVE  x.app = y.app
    BY DEF AnswersAgree
  <2>1. x.app \in Apps /\ y.app \in Apps /\ x.key \in Keys
    BY DEF IInv, TypeOK, Answer
  <2>2. app[x.app].key = x.key /\ app[y.app].key = x.key BY DEF IInv, AnswersAreRows
  <2> QED BY <2>1, <2>2, NoneAssumption DEF IInv, KeysAreUnique
<1> QED BY Inductive, <1>1, PTL

\* selectOffer under SERIALIZABLE: what the customer has chosen stays chosen.
THEOREM ChoiceIsFinal == Spec => OfferChosenOnce
<1> DEFINE Kept == \A a \in Apps : app[a].selected # NoOffer => app'[a].selected = app[a].selected
<1>1. IInv /\ [Next]_vars => [Kept]_vars
  <2> SUFFICES ASSUME IInv, Next PROVE Kept OBVIOUS
  <2>1. CASE app' = app BY <2>1
  <2>2. ASSUME NEW r \in Reqs, NEW c \in Apps, NEW S \in SUBSET Offers, Persist(r, c, S)
        PROVE Kept
    <3>1. app[c].selected = NoOffer BY <2>2, FreeType DEF Persist, IInv, FreeRows
    <3>2. \A a \in Apps : a # c => app'[a] = app[a] BY <2>2 DEF Persist, IInv, TypeOK
    <3> QED BY <3>1, <3>2
  <2>3. ASSUME NEW r \in Reqs, SelectCommit(r) PROVE Kept
    <3>1. app[req[r].app].selected = NoOffer BY <2>3 DEF SelectCommit, IInv, RequestOK
    <3>2. \A a \in Apps : a # req[r].app => app'[a] = app[a]
      BY <2>3 DEF SelectCommit, IInv, TypeOK
    <3> QED BY <3>1, <3>2
  <2>4. ASSUME NEW r \in Reqs, LeadCommit(r) PROVE Kept
    BY <2>4 DEF LeadCommit, IInv, TypeOK, App
  <2>5. app' = app
        \/ \E r \in Reqs : \/ \E c \in Apps, S \in SUBSET Offers : Persist(r, c, S)
                           \/ SelectCommit(r) \/ LeadCommit(r)
    BY DEF Next, HourEnds, Arrive, Step, Submit, RateLimited, SelectOffer, LeadRead, Replay,
       Fresh, PersistConflict, SelectRead, SelectRefused, SelectAborted, Crash, vars
  <2> QED BY <2>1, <2>2, <2>3, <2>4, <2>5
<1> QED BY Inductive, <1>1, PTL DEF Spec, OfferChosenOnce
=============================================================================
