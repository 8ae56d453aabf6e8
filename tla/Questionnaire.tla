---------------------------- MODULE Questionnaire ----------------------------
(***************************************************************************)
(* The one questionnaire of the platform: the pool of questions and groups  *)
(* that admins edit, and the versions frozen from it, of which one is       *)
(* active and served to every customer.  Every edit publishes at once.      *)
(*                                                                          *)
(* A request is a process.  Its guards, the engine-input contract, the      *)
(* write, each read of publish and the two statements of the publishing     *)
(* transaction are steps of their own: the database is READ COMMITTED, and  *)
(* the first of the two statements sees the rows committed when it starts.  *)
(* Of the engine locks, those on ENGINE_INPUT_QUESTION_CODES are modelled.  *)
(* The others, on questions that a fact of the platform is bound to or a    *)
(* live bank program reads, come and go with facts and programs; they and   *)
(* the rest of the contract only refuse edits, and an edit may always be    *)
(* refused (Refuse).                                                        *)
(***************************************************************************)
EXTENDS Naturals, FiniteSets

CONSTANTS
  Questions, Groups,  \* codes of question and question_group
  Locked,             \* ENGINE_INPUT_QUESTION_CODES among Questions
  Default,            \* the group "general" of resolveDefaultGroupId
  Patches,            \* the updates admins make of a question: a subset of Patch
  GroupPatches,       \* the updates admins make of a group
  MaxOrder,           \* bound on displayOrder
  MaxVersion,         \* bound on the versions published
  Restorable,         \* versions that an admin may roll back to
  Crashes,            \* whether a request may die half-way
  Reqs, NoQuestion, Keep

ASSUME LockedAssumption == Locked \subseteq Questions
ASSUME DefaultAssumption == Default \in Groups
ASSUME NoneAssumption == NoQuestion \notin Questions
ASSUME BoundAssumption == MaxOrder \in Nat /\ MaxVersion \in Nat \ {0}

VARIABLES
  pool,    \* question rows
  group,   \* question_group rows
  asks,    \* versions: what each asks
  active,  \* versions whose isActive is set
  req      \* requests in flight

vars == <<pool, group, asks, active, req>>

Orders == 0..MaxOrder
Status == {"free", "on", "off"}
Row == [status : Status, order : Orders, gate : Questions \cup {NoQuestion},
        fixed : BOOLEAN, group : Groups]
GroupRow == [status : Status, order : Orders]
Patch == [status : {"on", "off", Keep}, order : Orders \cup {Keep},
          gate : Questions \cup {NoQuestion, Keep}, fixed : BOOLEAN \cup {Keep},
          group : Groups \cup {Keep}]
GroupPatch == [status : {"on", "off", Keep}, order : Orders \cup {Keep}]
Asked == UNION {[S -> Row] : S \in SUBSET Questions}
\* An edit on its way to its write: some questions, or a group; new is the question
\* it creates, and confirmed tells the delete whose code was typed.
Edit == [questions : UNION {[S -> Patch] : S \in SUBSET Questions},
         groups : UNION {[S -> GroupPatch] : S \in SUBSET Groups},
         new : Questions \cup {NoQuestion}, confirmed : BOOLEAN]
Request == [pc : {"idle", "create", "contract", "write", "groups", "questions", "number",
                  "begin", "insert", "rollback", "activate"},
            edit : Edit, groups : SUBSET Groups, asks : Asked,
            num : 0..MaxVersion, seen : SUBSET (1..MaxVersion)]

\* An update names no group: a question moves only with the gate it is given.
ASSUME PatchesAssumption ==
  Patches \subseteq {p \in Patch : p.group = Keep} /\ GroupPatches \subseteq GroupPatch
ASSUME KeepAssumption ==
  /\ Keep \notin Status /\ Keep \notin BOOLEAN /\ Keep \notin Orders
  /\ Keep \notin Questions \cup {NoQuestion} /\ Keep \notin Groups

Only(k, v) == [x \in {k} |-> v]
Nothing == [x \in {} |-> Keep]
NoEdit == [questions |-> Nothing, groups |-> Nothing, new |-> NoQuestion, confirmed |-> FALSE]
Idle == [pc |-> "idle", edit |-> NoEdit, groups |-> {}, asks |-> Nothing, num |-> 0,
         seen |-> {}]

-----------------------------------------------------------------------------
(* The pool                                                                 *)

Sent(new, old) == IF new = Keep THEN old ELSE new
Patched(row, p) ==
  [status |-> Sent(p.status, row.status), order |-> Sent(p.order, row.order),
   gate |-> Sent(p.gate, row.gate), fixed |-> Sent(p.fixed, row.fixed),
   group |-> Sent(p.group, row.group)]

\* Mutant of PatchedGroup: a column that was not sent is written all the same.
PatchedGroupAlways(row, p) == p

PatchedGroup(row, p) ==
  [status |-> Sent(p.status, row.status), order |-> Sent(p.order, row.order)]

\* An UPDATE sets the columns that were sent, on the rows as they are then.
After(edit) ==
  [q \in Questions |-> IF q \in DOMAIN edit.questions
                       THEN Patched(pool[q], edit.questions[q]) ELSE pool[q]]
GroupsAfter(edit) ==
  [g \in Groups |-> IF g \in DOMAIN edit.groups
                    THEN PatchedGroup(group[g], edit.groups[g]) ELSE group[g]]

NoChange == [status |-> Keep, order |-> Keep, gate |-> Keep, fixed |-> Keep, group |-> Keep]

On(P) == {q \in Questions : P[q].status = "on"}
GroupsOn == {g \in Groups : group[g].status = "on"}
FixedOn(P) == {q \in On(P) : P[q].fixed}
Dependents(q) == {d \in On(pool) : pool[d].gate = q} \ {q}

\* stateBreaks: a fixed question shown after one that is not an active fixed one.
GateBreaks(P) ==
  {<<q, P[q].gate>> : q \in {d \in FixedOn(P) : P[d].gate # NoQuestion
                                                /\ P[d].gate \notin FixedOn(P)}}

\* Mutant of FixedRulesKept: the standing breaks are not compared.
FixedRulesKeptSwitch(after, deleted) ==
  \A q \in FixedOn(pool) \ {deleted} : after[q].fixed => after[q].status = "on"

\* fixedRuleBreaks finds nothing that the pool does not break already.
FixedRulesKept(after, deleted) ==
  /\ \A q \in FixedOn(pool) \ {deleted} : after[q].fixed => after[q].status = "on"
  /\ GateBreaks(after) \subseteq GateBreaks(pool)

\* No change of the questions S that the lock on a fixed input code refuses:
\* switched off, or shown after another.
LocksKept(S, after) ==
  \A q \in S \cap Locked : /\ pool[q].status = "on" => after[q].status = "on"
                          /\ after[q].gate = pool[q].gate

\* assertEnabledWhenValid: the source exists and comes earlier than order.
GateValid(gate, order) == pool[gate].status # "free" /\ pool[gate].order < order

\* groupBesideTrigger: with its source, unless its own group comes later.
Beside(g, gate) ==
  LET theirs == pool[gate].group IN
  IF group[g].order <= group[theirs].order THEN theirs ELSE g

\* What publish freezes of the active questions: those of the active groups.
Frozen(P, G) == [q \in {x \in On(P) : P[x].group \in G} |-> P[q]]

\* The pool a version describes: what it does not ask is switched off.
AsPool(v) ==
  [q \in Questions |-> IF q \in DOMAIN v THEN v[q]
                       ELSE IF pool[q].status = "on" THEN [pool[q] EXCEPT !.status = "off"]
                       ELSE pool[q]]

\* nextVersionNumber.
NextNumber ==
  1 + CHOOSE m \in {0} \cup DOMAIN asks : \A k \in DOMAIN asks : k <= m

Published(n, v) == [k \in DOMAIN asks \cup {n} |-> IF k = n THEN v ELSE asks[k]]

\* A seeded questionnaire: version 1 asks the active questions of the one group.
Init ==
  /\ \E S \in SUBSET Questions, F \in SUBSET Questions, o \in [Questions -> Orders] :
       /\ \A p, q \in S : o[p] = o[q] => p = q
       /\ pool = [q \in Questions |->
                    [status |-> IF q \in S THEN "on" ELSE "free",
                     order |-> IF q \in S THEN o[q] ELSE 0, gate |-> NoQuestion,
                     fixed |-> q \in S \cap F, group |-> Default]]
  /\ group = [g \in Groups |-> [status |-> IF g = Default THEN "on" ELSE "free", order |-> 0]]
  /\ asks = Only(1, Frozen(pool, {Default}))
  /\ active = {1}
  /\ req = [r \in Reqs |-> Idle]

-----------------------------------------------------------------------------
(* An edit, up to its write                                                 *)

Goto(r, pc, edit) == req' = [req EXCEPT ![r] = [Idle EXCEPT !.pc = pc, !.edit = edit]]
Unpublished == UNCHANGED <<asks, active>>

EditOf(q, p) == [NoEdit EXCEPT !.questions = Only(q, p)]

\* The first step of a create that names no group, when no group is active.
ReviveDefault(r) ==
  /\ req[r].pc = "idle"
  /\ GroupsOn = {}
  /\ group' = [group EXCEPT ![Default].status = "on"]
  /\ Goto(r, "create", NoEdit)
  /\ UNCHANGED pool /\ Unpublished

\* createQuestion: the group named, or the first; an order named, or the last.
\* The contract is not asked; a fixed one is shown after active fixed ones only.
OpenCreate(r, q, g, o, gate, fixed) ==
  /\ req[r].pc \in {"idle", "create"}
  /\ req[r].pc = "create" => g = Default
  /\ pool[q].status = "free" /\ group[g].status # "free"
  /\ gate # NoQuestion => GateValid(gate, o) /\ (fixed => gate \in FixedOn(pool))
  /\ LET home == IF gate = NoQuestion THEN g ELSE Beside(g, gate)
         row == [status |-> "on", order |-> o, gate |-> gate, fixed |-> fixed, group |-> home]
     IN Goto(r, "write", [EditOf(q, row) EXCEPT !.new = q])
  /\ UNCHANGED <<pool, group>> /\ Unpublished

\* updateQuestion, to the contract.  A mark that the row has already is not written.
OpenUpdate(r, q, p) ==
  /\ req[r].pc = "idle"
  /\ pool[q].status # "free"
  /\ p.gate \in Questions => GateValid(p.gate, Sent(p.order, pool[q].order))
  /\ p.status = "off" /\ pool[q].status = "on" => Dependents(q) = {}
  /\ Goto(r, "contract",
          EditOf(q, [p EXCEPT !.fixed = IF @ = pool[q].fixed THEN Keep ELSE @]))
  /\ UNCHANGED <<pool, group>> /\ Unpublished

\* softDeleteQuestion; of a fixed one, by a super admin who typed its code.
OpenDelete(r, q) ==
  /\ req[r].pc = "idle"
  /\ pool[q].status # "free" /\ Dependents(q) = {}
  /\ Goto(r, "contract", [EditOf(q, [NoChange EXCEPT !.status = "off"])
                          EXCEPT !.confirmed = pool[q].fixed])
  /\ UNCHANGED <<pool, group>> /\ Unpublished

\* reorderQuestions: the whole list of active questions, whose places become
\* their orders.  Neither the gates nor the contract are asked.
OpenReorder(r, place) ==
  /\ req[r].pc = "idle"
  /\ DOMAIN place = On(pool)
  /\ Goto(r, "write", [NoEdit EXCEPT !.questions =
                         [q \in On(pool) |-> [NoChange EXCEPT !.order = place[q]]]])
  /\ UNCHANGED <<pool, group>> /\ Unpublished

\* createGroup, updateGroup and softDeleteGroup: only an empty group is closed.
OpenGroup(r, g, p) ==
  /\ req[r].pc = "idle"
  /\ group[g].status = "free" => p.status = "on" /\ p.order # Keep
  /\ p.status = "off" => {q \in On(pool) : pool[q].group = g} = {}
  /\ Goto(r, "write", [NoEdit EXCEPT !.groups = Only(g, p)])
  /\ UNCHANGED <<pool, group>> /\ Unpublished

\* The contract on what the edit would leave behind, then the group of a question
\* that is given a gate.  A confirmed delete passes the locks.
Contract(r) ==
  LET edit == req[r].edit
      after == After(edit) IN
  \E q \in DOMAIN edit.questions :
    LET p == edit.questions[q] IN
    /\ req[r].pc = "contract"
    /\ edit.confirmed \/ LocksKept({q}, after)
    /\ FixedRulesKept(after, IF edit.confirmed THEN q ELSE NoQuestion)
    /\ Goto(r, "write",
            IF p.gate \in Questions
            THEN [edit EXCEPT !.questions[q].group = Beside(pool[q].group, p.gate)]
            ELSE edit)
    /\ UNCHANGED <<pool, group>> /\ Unpublished

\* The row is written; the code of a new question is unique.
Write(r) ==
  LET edit == req[r].edit IN
  /\ req[r].pc = "write"
  /\ edit.new # NoQuestion => pool[edit.new].status = "free"
  /\ pool' = After(edit)
  /\ group' = GroupsAfter(edit)
  /\ Goto(r, "groups", NoEdit)
  /\ Unpublished

\* A guard, the contract (the other locks included) or a unique index
\* refuses the edit.
Refuse(r) ==
  /\ req[r].pc \in {"create", "contract", "write"}
  /\ Goto(r, "idle", NoEdit)
  /\ UNCHANGED <<pool, group>> /\ Unpublished

-----------------------------------------------------------------------------
(* publish and rollback                                                     *)

Now(r, pc, m) == req' = [req EXCEPT ![r] = [m EXCEPT !.pc = pc]]

ReadGroups(r) ==
  /\ req[r].pc = "groups"
  /\ Now(r, "questions", [req[r] EXCEPT !.groups = GroupsOn])
  /\ UNCHANGED <<pool, group, asks, active>>

\* Mutant of ReadQuestions: the questions that are off are not left out.
ReadAllQuestions(r) ==
  /\ req[r].pc = "questions"
  /\ Now(r, "number", [req[r] EXCEPT !.asks =
                         [q \in {x \in Questions : pool[x].status # "free"} |-> pool[q]]])
  /\ UNCHANGED <<pool, group, asks, active>>

ReadQuestions(r) ==
  /\ req[r].pc = "questions"
  /\ Now(r, "number", [req[r] EXCEPT !.asks = Frozen(pool, req[r].groups)])
  /\ UNCHANGED <<pool, group, asks, active>>

Number(r) ==
  /\ req[r].pc = "number"
  /\ NextNumber <= MaxVersion
  /\ Now(r, "begin", [req[r] EXCEPT !.num = NextNumber])
  /\ UNCHANGED <<pool, group, asks, active>>

\* Mutant of Rollback: the fixed rules and the locks are not judged.
RollbackUnjudged(r, n) ==
  /\ req[r].pc = "idle"
  /\ n \in Restorable \cap DOMAIN asks
  /\ Now(r, "rollback", [Idle EXCEPT !.num = n])
  /\ UNCHANGED <<pool, group, asks, active>>

\* rollback: the version, judged like an edit that made the pool what it asks.
Rollback(r, n) ==
  /\ req[r].pc = "idle"
  /\ n \in Restorable \cap DOMAIN asks
  /\ FixedRulesKept(AsPool(asks[n]), NoQuestion)
  /\ LocksKept(On(pool), AsPool(asks[n]))
  /\ Now(r, "rollback", [Idle EXCEPT !.num = n])
  /\ UNCHANGED <<pool, group, asks, active>>

\* The first statement of publishVersion and of activateExisting: it switches off
\* the versions that are active when it starts.
Begin(r) ==
  /\ req[r].pc \in {"begin", "rollback"}
  /\ Now(r, IF req[r].pc = "begin" THEN "insert" ELSE "activate",
         [req[r] EXCEPT !.seen = active])
  /\ UNCHANGED <<pool, group, asks, active>>

\* Mutant of Insert: a publish that meets a taken number takes the next one.
InsertRenumbered(r) ==
  LET m == req[r] IN
  /\ m.pc = "insert" /\ NextNumber <= MaxVersion
  /\ asks' = Published(NextNumber, m.asks)
  /\ active' = (active \ m.seen) \cup {NextNumber}
  /\ Now(r, "idle", Idle)
  /\ UNCHANGED <<pool, group>>

\* The insert, and the commit: versionNumber is UNIQUE.
Insert(r) ==
  LET m == req[r] IN
  /\ m.pc = "insert" /\ m.num \notin DOMAIN asks
  /\ asks' = Published(m.num, m.asks)
  /\ active' = (active \ m.seen) \cup {m.num}
  /\ Now(r, "idle", Idle)
  /\ UNCHANGED <<pool, group>>

\* Mutant of NumberTaken: the switching off is not undone.
NumberTakenCommitted(r) ==
  /\ req[r].pc = "insert" /\ req[r].num \in DOMAIN asks
  /\ active' = active \ req[r].seen
  /\ Now(r, "idle", Idle)
  /\ UNCHANGED <<pool, group, asks>>

\* The number is taken: the transaction is rolled back and the request fails.
NumberTaken(r) ==
  /\ req[r].pc = "insert" /\ req[r].num \in DOMAIN asks
  /\ Now(r, "idle", Idle)
  /\ UNCHANGED <<pool, group, asks, active>>

Activate(r) ==
  LET m == req[r] IN
  /\ m.pc = "activate"
  /\ active' = (active \ m.seen) \cup {m.num}
  /\ Now(r, "idle", Idle)
  /\ UNCHANGED <<pool, group, asks>>

Crash(r) ==
  /\ Crashes /\ req[r].pc # "idle"
  /\ Now(r, "idle", Idle)
  /\ UNCHANGED <<pool, group, asks, active>>

-----------------------------------------------------------------------------

\* The whole list in some order, each question's place its index.
Places == {p \in [On(pool) -> {i \in Orders : i < Cardinality(On(pool))}] :
             \A x, y \in On(pool) : p[x] = p[y] => x = y}

Edits(r) ==
  \/ ReviveDefault(r)
  \/ \E q \in Questions, g \in Groups, o \in Orders,
        gate \in Questions \cup {NoQuestion}, f \in BOOLEAN : OpenCreate(r, q, g, o, gate, f)
  \/ \E q \in Questions, p \in Patches : OpenUpdate(r, q, p)
  \/ \E q \in Questions : OpenDelete(r, q)
  \/ \E place \in Places : OpenReorder(r, place)
  \/ \E g \in Groups, p \in GroupPatches : OpenGroup(r, g, p)
  \/ Contract(r) \/ Write(r) \/ Refuse(r)

Publishing(r) ==
  \/ ReadGroups(r) \/ ReadQuestions(r) \/ Number(r)
  \/ \E n \in Restorable : Rollback(r, n)
  \/ Begin(r) \/ Insert(r) \/ NumberTaken(r) \/ Activate(r)

Publication(r) == Publishing(r) \/ Crash(r)

Next == \E r \in Reqs : Edits(r) \/ Publication(r)

Spec == Init /\ [][Next]_vars

-----------------------------------------------------------------------------
(* Properties                                                               *)

TypeOK ==
  /\ pool \in [Questions -> Row]
  /\ group \in [Groups -> GroupRow]
  /\ DOMAIN asks \subseteq 1..MaxVersion /\ asks \in [DOMAIN asks -> Asked]
  /\ active \subseteq DOMAIN asks
  /\ req \in [Reqs -> Request]

\* The customer is always served a version, whatever publishes and rollbacks race,
\* fail or die between their statements.
NeverUnserved == active # {}

\* "exactly one active globally": without rollbacks the unique number alone keeps it,
\* for nothing locks the versions, and of two publishes that saw the same version
\* active one must lose.
OneActive == \E n \in DOMAIN asks : active = {n}

\* While one admin edits at a time, crashes included: the fixed questions that are on
\* are shown after fixed questions that are on.
FixedRulesHold == GateBreaks(pool) = {}

\* The last request out leaves the questionnaire as it is edited: what an edit that
\* was answered before has changed is in what is published last.
LastOutPublishes ==
  \A r \in Reqs :
    Insert(r) /\ (\A s \in Reqs \ {r} : req[s].pc = "idle")
      => req[r].asks = Frozen(pool, GroupsOn)
LastOutPublishesThePool == [][LastOutPublishes]_vars

\* "the pool editor refuses a cycle": no question is shown after itself, however many
\* questions there are in between.
Behind(q) ==
  LET step[n \in Nat] == IF n = 0 THEN {q}
                         ELSE step[n - 1] \cup {pool[x].gate : x \in step[n - 1] \ {NoQuestion}}
  IN UNION {{pool[x].gate} : x \in step[Cardinality(Questions)] \ {NoQuestion}}
NoGateCycle == \A q \in On(pool) : q \notin Behind(q)

\* When nobody edits, whatever was rolled back and as long as no group is closed: the
\* version that serves asks every active fixed input of the engine, after the
\* same answer as the pool.
EngineInputsServed ==
  (\A r \in Reqs : req[r].pc = "idle") =>
    \A n \in active, q \in Locked \cap On(pool) :
      q \in DOMAIN asks[n] /\ asks[n][q].gate = pool[q].gate

\* "every_name: on every program": when nobody edits, the version that serves asks
\* every fixed question that is on.
FixedAreServed ==
  (\A r \in Reqs : req[r].pc = "idle") =>
    \A n \in active : FixedOn(pool) \subseteq DOMAIN asks[n]
=============================================================================
