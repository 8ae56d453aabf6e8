------------------------- MODULE Questionnaire_proofs -------------------------
(* Types; that some version is always served; that without rollbacks exactly *)
(* one is, for any number of admins; that one admin alone never breaks the   *)
(* rules of the fixed questions, publishes the pool as it is, and leaves the *)
(* engine the questions it reads.                                            *)
EXTENDS Questionnaire, TLAPS

Pcs == {"idle", "create", "contract", "write", "groups", "questions", "number", "begin",
        "insert", "rollback", "activate"}

-----------------------------------------------------------------------------
(* Types                                                                     *)

\* No edit, and the record of a request that does nothing.
LEMMA Empty == NoEdit \in Edit /\ Idle \in Request /\ Nothing \in Asked
<1>1. Nothing \in [{} -> Patch] /\ Nothing \in [{} -> GroupPatch] /\ Nothing \in [{} -> Row]
  BY DEF Nothing
<1>2. {} \in SUBSET Questions /\ {} \in SUBSET Groups OBVIOUS
<1>3. NoEdit \in Edit BY <1>1, <1>2 DEF NoEdit, Edit
<1>4. Nothing \in Asked BY <1>1, <1>2 DEF Asked
<1>5. Idle \in Request BY <1>3, <1>4, BoundAssumption DEF Idle, Request
<1> QED BY <1>3, <1>4, <1>5

\* A patch leaves a row a row.
LEMMA PatchedType ==
  ASSUME NEW row \in Row, NEW p \in Patch PROVE Patched(row, p) \in Row
<1>1. /\ Sent(p.status, row.status) \in Status
      /\ Sent(p.order, row.order) \in Orders
      /\ Sent(p.gate, row.gate) \in Questions \cup {NoQuestion}
      /\ Sent(p.fixed, row.fixed) \in BOOLEAN
      /\ Sent(p.group, row.group) \in Groups
  BY DEF Patch, Row, Sent, Status
<1> QED BY <1>1 DEF Patched, Row

LEMMA PatchedGroupType ==
  ASSUME NEW row \in GroupRow, NEW p \in GroupPatch PROVE PatchedGroup(row, p) \in GroupRow
<1>1. /\ Sent(p.status, row.status) \in Status
      /\ Sent(p.order, row.order) \in Orders
  BY DEF GroupPatch, GroupRow, Sent, Status
<1> QED BY <1>1 DEF PatchedGroup, GroupRow

\* An edit leaves a pool a pool.
LEMMA AfterType ==
  ASSUME TypeOK, NEW edit \in Edit
  PROVE  After(edit) \in [Questions -> Row] /\ GroupsAfter(edit) \in [Groups -> GroupRow]
<1>1. PICK S \in SUBSET Questions : edit.questions \in [S -> Patch]
  BY DEF Edit
<1>2. PICK G \in SUBSET Groups : edit.groups \in [G -> GroupPatch]
  BY DEF Edit
<1>3. After(edit) \in [Questions -> Row]
  BY <1>1, PatchedType DEF After, TypeOK
<1>4. GroupsAfter(edit) \in [Groups -> GroupRow]
  BY <1>2, PatchedGroupType DEF GroupsAfter, TypeOK
<1> QED BY <1>3, <1>4

LEMMA FrozenType ==
  ASSUME TypeOK, NEW G PROVE Frozen(pool, G) \in Asked
<1> DEFINE S == {x \in On(pool) : pool[x].group \in G}
<1>1. S \in SUBSET Questions BY DEF On
<1>2. Frozen(pool, G) \in [S -> Row] BY <1>1 DEF Frozen, TypeOK
<1> QED BY <1>1, <1>2 DEF Asked

\* The edit of one question.
LEMMA EditOfType ==
  ASSUME NEW q \in Questions, NEW p \in Patch, NEW n \in Questions \cup {NoQuestion},
         NEW c \in BOOLEAN
  PROVE  /\ EditOf(q, p) \in Edit
         /\ [EditOf(q, p) EXCEPT !.new = n] \in Edit
         /\ [EditOf(q, p) EXCEPT !.confirmed = c] \in Edit
<1>1. Only(q, p) \in [{q} -> Patch] /\ {q} \in SUBSET Questions BY DEF Only
<1>2. Only(q, p) \in UNION {[S -> Patch] : S \in SUBSET Questions} BY <1>1
<1> QED BY <1>2, Empty DEF EditOf, Edit

\* A request takes up an edit.
LEMMA GotoType ==
  ASSUME TypeOK, NEW r \in Reqs, NEW pc \in Pcs, NEW edit \in Edit, Goto(r, pc, edit)
  PROVE  req' \in [Reqs -> Request]
<1>1. [Idle EXCEPT !.pc = pc, !.edit = edit] \in Request
  BY Empty DEF Request, Pcs
<1> QED BY <1>1 DEF Goto, TypeOK

\* A request goes on publishing.
LEMMA NowType ==
  ASSUME TypeOK, NEW r \in Reqs, NEW pc \in Pcs, NEW m \in Request, Now(r, pc, m)
  PROVE  req' \in [Reqs -> Request]
<1>1. [m EXCEPT !.pc = pc] \in Request BY DEF Request, Pcs
<1> QED BY <1>1 DEF Now, TypeOK

\* The steps of an edit up to its write keep the versions, and the types.
LEMMA EditsType == ASSUME TypeOK, NEW r \in Reqs, Edits(r) PROVE TypeOK'
<1>1. CASE ReviveDefault(r)
  <2>1. req' \in [Reqs -> Request] BY <1>1, GotoType, Empty DEF ReviveDefault, Pcs
  <2>2. group' \in [Groups -> GroupRow]
    BY <1>1, DefaultAssumption DEF ReviveDefault, TypeOK, GroupRow, Status
  <2> QED BY <1>1, <2>1, <2>2 DEF ReviveDefault, Unpublished, TypeOK
<1>2. ASSUME NEW q \in Questions, NEW g \in Groups, NEW o \in Orders,
             NEW gate \in Questions \cup {NoQuestion}, NEW f \in BOOLEAN,
             OpenCreate(r, q, g, o, gate, f)
      PROVE  TypeOK'
  <2> DEFINE home == IF gate = NoQuestion THEN g ELSE Beside(g, gate)
             row == [status |-> "on", order |-> o, gate |-> gate, fixed |-> f, group |-> home]
  <2>1. home \in Groups BY DEF TypeOK, Row, Beside
  <2>2. row \in Patch BY <2>1 DEF Patch
  <2>3. Goto(r, "write", [EditOf(q, row) EXCEPT !.new = q]) BY <1>2 DEF OpenCreate
  <2> HIDE DEF row
  <2>4. [EditOf(q, row) EXCEPT !.new = q] \in Edit BY <2>2, EditOfType
  <2>5. req' \in [Reqs -> Request] BY <2>3, <2>4, GotoType DEF Pcs
  <2> QED BY <1>2, <2>5 DEF OpenCreate, Unpublished, TypeOK
<1>3. ASSUME NEW q \in Questions, NEW p \in Patches, OpenUpdate(r, q, p) PROVE TypeOK'
  <2> DEFINE pp == [p EXCEPT !.fixed = IF @ = pool[q].fixed THEN Keep ELSE @]
  <2>1. p \in Patch BY PatchesAssumption
  <2>2. pp \in Patch BY <2>1 DEF Patch
  <2>3. Goto(r, "contract", EditOf(q, pp)) BY <1>3 DEF OpenUpdate
  <2> HIDE DEF pp
  <2>4. EditOf(q, pp) \in Edit BY <2>2, EditOfType
  <2>5. req' \in [Reqs -> Request] BY <2>3, <2>4, GotoType DEF Pcs
  <2> QED BY <1>3, <2>5 DEF OpenUpdate, Unpublished, TypeOK
<1>4. ASSUME NEW q \in Questions, OpenDelete(r, q) PROVE TypeOK'
  <2> DEFINE p == [NoChange EXCEPT !.status = "off"]
  <2>1. p \in Patch BY DEF Patch, NoChange
  <2>2. pool[q].fixed \in BOOLEAN BY DEF TypeOK, Row
  <2>3. Goto(r, "contract", [EditOf(q, p) EXCEPT !.confirmed = pool[q].fixed])
    BY <1>4 DEF OpenDelete
  <2> HIDE DEF p
  <2>4. [EditOf(q, p) EXCEPT !.confirmed = pool[q].fixed] \in Edit BY <2>1, <2>2, EditOfType
  <2>5. req' \in [Reqs -> Request] BY <2>3, <2>4, GotoType DEF Pcs
  <2> QED BY <1>4, <2>5 DEF OpenDelete, Unpublished, TypeOK
<1>5. ASSUME NEW place \in Places, OpenReorder(r, place) PROVE TypeOK'
  <2> DEFINE p == [q \in On(pool) |-> [NoChange EXCEPT !.order = place[q]]]
  <2>1. \A q \in On(pool) : place[q] \in Orders BY <1>5 DEF OpenReorder, Places
  <2>2. p \in [On(pool) -> Patch] BY <2>1 DEF Patch, NoChange
  <2>3. On(pool) \in SUBSET Questions BY DEF On
  <2>4. Goto(r, "write", [NoEdit EXCEPT !.questions = p]) BY <1>5 DEF OpenReorder
  <2> HIDE DEF p
  <2>5. [NoEdit EXCEPT !.questions = p] \in Edit BY <2>2, <2>3, Empty DEF Edit
  <2>6. req' \in [Reqs -> Request] BY <2>4, <2>5, GotoType DEF Pcs
  <2> QED BY <1>5, <2>6 DEF OpenReorder, Unpublished, TypeOK
<1>6. ASSUME NEW g \in Groups, NEW p \in GroupPatches, OpenGroup(r, g, p) PROVE TypeOK'
  <2>1. Only(g, p) \in [{g} -> GroupPatch] /\ {g} \in SUBSET Groups
    BY PatchesAssumption DEF Only
  <2>2. Only(g, p) \in UNION {[S -> GroupPatch] : S \in SUBSET Groups} BY <2>1
  <2>3. [NoEdit EXCEPT !.groups = Only(g, p)] \in Edit BY <2>2, Empty DEF Edit
  <2>4. req' \in [Reqs -> Request] BY <1>6, <2>3, GotoType DEF OpenGroup, Pcs
  <2> QED BY <1>6, <2>4 DEF OpenGroup, Unpublished, TypeOK
<1>7. CASE Contract(r)
  <2> DEFINE edit == req[r].edit
  <2>1. edit \in Edit BY DEF TypeOK, Request
  <2>2. PICK q \in DOMAIN edit.questions :
          /\ Goto(r, "write",
                  IF edit.questions[q].gate \in Questions
                  THEN [edit EXCEPT !.questions[q].group =
                          Beside(pool[q].group, edit.questions[q].gate)]
                  ELSE edit)
          /\ UNCHANGED <<pool, group>> /\ Unpublished
    BY <1>7 DEF Contract
  <2>3. PICK S \in SUBSET Questions : edit.questions \in [S -> Patch] BY <2>1 DEF Edit
  <2>4. q \in Questions /\ edit.questions[q] \in Patch BY <2>2, <2>3
  <2> DEFINE e2 == [edit EXCEPT !.questions[q].group =
                      Beside(pool[q].group, edit.questions[q].gate)]
  <2>5. edit.questions[q].gate \in Questions =>
          Beside(pool[q].group, edit.questions[q].gate) \in Groups
    BY <2>4 DEF Beside, TypeOK, Row
  <2>6. ASSUME edit.questions[q].gate \in Questions PROVE e2 \in Edit
    <3>1. [edit.questions[q] EXCEPT !.group = Beside(pool[q].group, edit.questions[q].gate)]
            \in Patch
      BY <2>4, <2>5, <2>6 DEF Patch
    <3>2. e2.questions \in [S -> Patch] BY <3>1, <2>1, <2>3 DEF Edit
    <3> QED BY <2>1, <3>2 DEF Edit
  <2>7. req' \in [Reqs -> Request] BY <2>1, <2>2, <2>6, GotoType DEF Pcs
  <2> QED BY <2>2, <2>7 DEF Unpublished, TypeOK
<1>8. CASE Write(r)
  <2>1. req[r].edit \in Edit BY DEF TypeOK, Request
  <2>2. pool' \in [Questions -> Row] /\ group' \in [Groups -> GroupRow]
    BY <1>8, <2>1, AfterType DEF Write
  <2>3. req' \in [Reqs -> Request] BY <1>8, GotoType, Empty DEF Write, Pcs
  <2> QED BY <1>8, <2>2, <2>3 DEF Write, Unpublished, TypeOK
<1>9. CASE Refuse(r)
  <2>1. req' \in [Reqs -> Request] BY <1>9, GotoType, Empty DEF Refuse, Pcs
  <2> QED BY <1>9, <2>1 DEF Refuse, Unpublished, TypeOK
<1> QED BY <1>1, <1>2, <1>3, <1>4, <1>5, <1>6, <1>7, <1>8, <1>9 DEF Edits

\* The number that publish takes is a version that is there, or the first above.
Contiguous == \E N \in Nat : N >= 1 /\ DOMAIN asks = 1..N
Numbers ==
  \A r \in Reqs :
    /\ req[r].pc \in {"begin", "insert"} => req[r].num \in DOMAIN asks \cup {NextNumber}
    /\ req[r].pc \in {"rollback", "activate"} => req[r].num \in DOMAIN asks

LEMMA NextNumberIs ==
  ASSUME NEW N \in Nat, N >= 1, DOMAIN asks = 1..N PROVE NextNumber = N + 1
<1>1. \A m \in {0} \cup DOMAIN asks : (\A k \in DOMAIN asks : k <= m) <=> m = N
  OBVIOUS
<1>2. N \in {0} \cup DOMAIN asks OBVIOUS
<1> DEFINE m0 == CHOOSE m \in {0} \cup DOMAIN asks : \A k \in DOMAIN asks : k <= m
<1>3. m0 \in {0} \cup DOMAIN asks /\ \A k \in DOMAIN asks : k <= m0
  BY <1>1, <1>2
<1>4. m0 = N BY <1>1, <1>3
<1>5. NextNumber = 1 + m0 BY DEF NextNumber
<1> QED BY <1>4, <1>5

\* Publishing and rolling back keep the pool, and the types.
LEMMA PublicationType ==
  ASSUME TypeOK, Contiguous, Numbers, NEW r \in Reqs, Publication(r) PROVE TypeOK'
<1> DEFINE m == req[r]
<1>0. m \in Request BY DEF TypeOK
<1>1. CASE ReadGroups(r)
  <2>1. [m EXCEPT !.groups = GroupsOn] \in Request BY <1>0 DEF Request, GroupsOn
  <2>2. req' \in [Reqs -> Request] BY <1>1, <2>1, NowType DEF ReadGroups, Pcs
  <2> QED BY <1>1, <2>2 DEF ReadGroups, TypeOK
<1>2. CASE ReadQuestions(r)
  <2>1. [m EXCEPT !.asks = Frozen(pool, m.groups)] \in Request
    BY <1>0, FrozenType DEF Request
  <2>2. req' \in [Reqs -> Request] BY <1>2, <2>1, NowType DEF ReadQuestions, Pcs
  <2> QED BY <1>2, <2>2 DEF ReadQuestions, TypeOK
<1>3. CASE Number(r)
  <2>1. PICK N \in Nat : N >= 1 /\ DOMAIN asks = 1..N BY DEF Contiguous
  <2>2. NextNumber \in 0..MaxVersion
    BY <1>3, <2>1, NextNumberIs, BoundAssumption DEF Number
  <2>3. [m EXCEPT !.num = NextNumber] \in Request BY <1>0, <2>2 DEF Request
  <2>4. req' \in [Reqs -> Request] BY <1>3, <2>3, NowType DEF Number, Pcs
  <2> QED BY <1>3, <2>4 DEF Number, TypeOK
<1>4. ASSUME NEW n \in Restorable, Rollback(r, n) PROVE TypeOK'
  <2>1. n \in 0..MaxVersion BY <1>4, BoundAssumption DEF Rollback, TypeOK
  <2>2. [Idle EXCEPT !.num = n] \in Request BY <2>1, Empty DEF Request
  <2>3. req' \in [Reqs -> Request] BY <1>4, <2>2, NowType DEF Rollback, Pcs
  <2> QED BY <1>4, <2>3 DEF Rollback, TypeOK
<1>5. CASE Begin(r)
  <2>1. [m EXCEPT !.seen = active] \in Request BY <1>0 DEF Request, TypeOK
  <2>2. req' \in [Reqs -> Request]
    <3>1. (IF m.pc = "begin" THEN "insert" ELSE "activate") \in Pcs BY DEF Pcs
    <3> QED BY <1>5, <2>1, <3>1, NowType DEF Begin
  <2> QED BY <1>5, <2>2 DEF Begin, TypeOK
<1>6. CASE Insert(r)
  <2>1. req' \in [Reqs -> Request] BY <1>6, Empty, NowType DEF Insert, Pcs
  <2>2. PICK N \in Nat : N >= 1 /\ DOMAIN asks = 1..N BY DEF Contiguous
  <2>3. m.num \in 0..MaxVersion /\ m.asks \in Asked BY <1>0 DEF Request
  <2>4. m.num = N + 1
    BY <1>6, <2>2, NextNumberIs DEF Insert, Numbers
  <2>5. asks' \in [DOMAIN asks \cup {m.num} -> Asked] /\ DOMAIN asks' = DOMAIN asks \cup {m.num}
    BY <1>6, <2>3 DEF Insert, TypeOK, Published
  <2>6. active' \subseteq DOMAIN asks' BY <1>6, <2>5 DEF Insert, TypeOK
  <2>7. DOMAIN asks' \subseteq 1..MaxVersion BY <2>3, <2>4, <2>5 DEF TypeOK
  <2> QED BY <1>6, <2>1, <2>5, <2>6, <2>7 DEF Insert, TypeOK
<1>7. CASE NumberTaken(r) \/ Crash(r)
  <2>1. req' \in [Reqs -> Request] BY <1>7, Empty, NowType DEF NumberTaken, Crash, Pcs
  <2> QED BY <1>7, <2>1 DEF NumberTaken, Crash, TypeOK
<1>8. CASE Activate(r)
  <2>1. req' \in [Reqs -> Request] BY <1>8, Empty, NowType DEF Activate, Pcs
  <2> QED BY <1>8, <2>1 DEF Activate, Numbers, TypeOK
<1> QED BY <1>1, <1>2, <1>3, <1>4, <1>5, <1>6, <1>7, <1>8 DEF Publication, Publishing
-----------------------------------------------------------------------------
(* Versions                                                                  *)

Versions == TypeOK /\ Contiguous /\ Numbers /\ active # {}

\* An edit takes its request to no publishing pc with a number.
EditPcs == {"idle", "create", "contract", "write", "groups"}

LEMMA EditsLeave ==
  ASSUME TypeOK, NEW r \in Reqs, Edits(r)
  PROVE  /\ UNCHANGED <<asks, active>>
         /\ req'[r].pc \in EditPcs
         /\ \A s \in Reqs \ {r} : req'[s] = req[s]
<1>1. ASSUME NEW pc \in EditPcs, NEW edit, Goto(r, pc, edit)
      PROVE  req'[r].pc \in EditPcs /\ \A s \in Reqs \ {r} : req'[s] = req[s]
  BY <1>1 DEF Goto, TypeOK, Idle
<1>2. \E pc \in EditPcs : \E edit : Goto(r, pc, edit)
  BY DEF Edits, ReviveDefault, OpenCreate, OpenUpdate, OpenDelete, OpenReorder, OpenGroup,
         Contract, Write, Refuse, EditPcs
<1>3. UNCHANGED <<asks, active>>
  BY DEF Edits, ReviveDefault, OpenCreate, OpenUpdate, OpenDelete, OpenReorder, OpenGroup,
         Contract, Write, Refuse, Unpublished
<1> QED BY <1>1, <1>2, <1>3

\* What a publishing step leaves its request and the versions with.
LEMMA PublicationSteps ==
  ASSUME Versions, NEW r \in Reqs, Publication(r)
  PROVE  /\ \A s \in Reqs \ {r} : req'[s] = req[s]
         /\ \/ /\ UNCHANGED <<asks, active>>
               /\ req'[r].pc \in {"idle", "questions", "number"}
            \/ /\ UNCHANGED <<asks, active>>
               /\ req'[r].pc = "begin" /\ req'[r].num = NextNumber
            \/ /\ UNCHANGED <<asks, active>>
               /\ req'[r].pc = "rollback" /\ req'[r].num \in DOMAIN asks /\ Restorable # {}
            \/ /\ UNCHANGED <<asks, active>>
               /\ req[r].pc \in {"begin", "rollback"}
               /\ req'[r].pc = (IF req[r].pc = "begin" THEN "insert" ELSE "activate")
               /\ req'[r].num = req[r].num /\ req'[r].seen = active
            \/ /\ req[r].pc = "insert" /\ req[r].num = NextNumber /\ req'[r].pc = "idle"
               /\ DOMAIN asks' = DOMAIN asks \cup {NextNumber} /\ NextNumber \notin DOMAIN asks
               /\ active' = (active \ req[r].seen) \cup {NextNumber}
            \/ /\ req[r].pc = "activate" /\ req'[r].pc = "idle" /\ asks' = asks
               /\ active' = (active \ req[r].seen) \cup {req[r].num}
<1>0. req[r] \in Request BY DEF Versions, TypeOK
<1>1. ASSUME NEW pc, NEW m \in Request, Now(r, pc, m)
      PROVE  /\ \A s \in Reqs \ {r} : req'[s] = req[s]
             /\ req'[r].pc = pc /\ req'[r].num = m.num /\ req'[r].seen = m.seen
  <2>1. req'[r] = [m EXCEPT !.pc = pc] /\ \A s \in Reqs \ {r} : req'[s] = req[s]
    BY <1>1 DEF Now, Versions, TypeOK
  <2>2. DOMAIN m = {"pc", "edit", "groups", "asks", "num", "seen"} BY <1>1 DEF Request
  <2> QED BY <2>1, <2>2
<1>2. CASE ReadGroups(r)
  <2>1. [req[r] EXCEPT !.groups = GroupsOn] \in Request BY <1>0 DEF Request, GroupsOn
  <2>2. Now(r, "questions", [req[r] EXCEPT !.groups = GroupsOn]) /\ UNCHANGED <<asks, active>>
    BY <1>2 DEF ReadGroups
  <2> QED BY <1>1, <2>1, <2>2
<1>3. CASE ReadQuestions(r)
  <2>1. [req[r] EXCEPT !.asks = Frozen(pool, req[r].groups)] \in Request
    BY <1>0, FrozenType DEF Request, Versions
  <2>2. /\ Now(r, "number", [req[r] EXCEPT !.asks = Frozen(pool, req[r].groups)])
        /\ UNCHANGED <<asks, active>>
    BY <1>3 DEF ReadQuestions
  <2> QED BY <1>1, <2>1, <2>2
<1>4. CASE Number(r)
  <2>1. PICK N \in Nat : N >= 1 /\ DOMAIN asks = 1..N BY DEF Contiguous, Versions
  <2>2. NextNumber \in 0..MaxVersion
    BY <1>4, <2>1, NextNumberIs, BoundAssumption DEF Number
  <2>3. [req[r] EXCEPT !.num = NextNumber] \in Request BY <1>0, <2>2 DEF Request
  <2>4. Now(r, "begin", [req[r] EXCEPT !.num = NextNumber]) /\ UNCHANGED <<asks, active>>
    BY <1>4 DEF Number
  <2>5. [req[r] EXCEPT !.num = NextNumber].num = NextNumber BY <1>0 DEF Request
  <2> QED BY <1>1, <2>3, <2>4, <2>5
<1>5. ASSUME NEW n \in Restorable, Rollback(r, n)
      PROVE  /\ \A s \in Reqs \ {r} : req'[s] = req[s]
             /\ UNCHANGED <<asks, active>>
             /\ req'[r].pc = "rollback" /\ req'[r].num \in DOMAIN asks
  <2>1. n \in 0..MaxVersion /\ n \in DOMAIN asks
    BY <1>5, BoundAssumption DEF Rollback, Versions, TypeOK
  <2>2. [Idle EXCEPT !.num = n] \in Request BY <2>1, Empty DEF Request
  <2> QED BY <1>1, <1>5, <2>1, <2>2 DEF Rollback, Idle
<1>6. CASE Begin(r)
  <2>1. [req[r] EXCEPT !.seen = active] \in Request BY <1>0 DEF Request, Versions, TypeOK
  <2>2. /\ [req[r] EXCEPT !.seen = active].seen = active
        /\ [req[r] EXCEPT !.seen = active].num = req[r].num
    BY <1>0 DEF Request
  <2>3. /\ req[r].pc \in {"begin", "rollback"} /\ UNCHANGED <<asks, active>>
        /\ Now(r, IF req[r].pc = "begin" THEN "insert" ELSE "activate",
               [req[r] EXCEPT !.seen = active])
    BY <1>6 DEF Begin
  <2> QED BY <1>1, <2>1, <2>2, <2>3
<1>7. CASE Insert(r)
  <2>1. req[r].num = NextNumber BY <1>7 DEF Insert, Versions, Numbers
  <2>2. Now(r, "idle", Idle) BY <1>7 DEF Insert
  <2>3. req'[r].pc = "idle" /\ \A s \in Reqs \ {r} : req'[s] = req[s] BY <1>1, <2>2, Empty
  <2>4. /\ req[r].pc = "insert" /\ DOMAIN asks' = DOMAIN asks \cup {NextNumber}
        /\ NextNumber \notin DOMAIN asks /\ active' = (active \ req[r].seen) \cup {NextNumber}
    BY <1>7, <2>1 DEF Insert, Published
  <2> QED BY <2>1, <2>3, <2>4
<1>8. CASE NumberTaken(r) \/ Crash(r)
  BY <1>1, <1>8, Empty DEF NumberTaken, Crash, Idle
<1>9. CASE Activate(r)
  BY <1>1, <1>9, Empty DEF Activate, Idle
<1> QED BY <1>2, <1>3, <1>4, <1>5, <1>6, <1>7, <1>8, <1>9 DEF Publication, Publishing

\* The numbers of the versions stay 1..N, and no version is switched off for good.
LEMMA VersionsStep ==
  ASSUME Versions, [Next]_vars PROVE Versions'
<1>1. PICK N \in Nat : N >= 1 /\ DOMAIN asks = 1..N BY DEF Versions, Contiguous
<1>2. NextNumber = N + 1 BY <1>1, NextNumberIs
<1>3. CASE UNCHANGED vars
  BY <1>3 DEF vars, Versions, TypeOK, Contiguous, Numbers, NextNumber
<1>4. ASSUME NEW r \in Reqs, Edits(r) PROVE Versions'
  <2>1. TypeOK' BY <1>4, EditsType DEF Versions
  <2>2. UNCHANGED <<asks, active>> /\ NextNumber' = NextNumber
    BY <1>4, EditsLeave DEF Versions, NextNumber
  <2>3. Numbers' BY <1>4, <2>2, EditsLeave DEF Versions, Numbers, EditPcs
  <2> QED BY <2>1, <2>2, <2>3 DEF Versions, Contiguous
<1>5. ASSUME NEW r \in Reqs, Publication(r) PROVE Versions'
  <2>1. TypeOK' BY <1>5, PublicationType DEF Versions
  <2>2. CASE asks' = asks
    <3>1. NextNumber' = NextNumber BY <2>2 DEF NextNumber
    <3>2. Numbers' BY <1>5, <2>2, <3>1, PublicationSteps DEF Versions, Numbers
    <3>3. active' # {} BY <1>5, <2>2, PublicationSteps DEF Versions
    <3> QED BY <2>1, <2>2, <3>2, <3>3 DEF Versions, Contiguous
  <2>3. CASE DOMAIN asks' = DOMAIN asks \cup {NextNumber} /\ req[r].pc = "insert"
             /\ req'[r].pc = "idle" /\ NextNumber \in active'
    <3>1. DOMAIN asks' = 1..(N + 1) BY <1>1, <1>2, <2>3
    <3>2. Contiguous' BY <3>1 DEF Contiguous
    <3>3. Numbers' BY <1>5, <2>3, PublicationSteps DEF Versions, Numbers
    <3> QED BY <2>1, <2>3, <3>2, <3>3 DEF Versions
  <2> QED BY <1>5, <2>2, <2>3, PublicationSteps
<1> QED BY <1>3, <1>4, <1>5 DEF Next

LEMMA InitVersions == Init => Versions
<1> SUFFICES ASSUME Init PROVE Versions OBVIOUS
<1>1. pool \in [Questions -> Row]
  <2>1. PICK S \in SUBSET Questions, F \in SUBSET Questions, o \in [Questions -> Orders] :
          pool = [q \in Questions |->
                    [status |-> IF q \in S THEN "on" ELSE "free",
                     order |-> IF q \in S THEN o[q] ELSE 0, gate |-> NoQuestion,
                     fixed |-> q \in S \cap F, group |-> Default]]
    BY DEF Init
  <2>2. 0 \in Orders BY BoundAssumption DEF Orders
  <2> QED BY <2>1, <2>2, DefaultAssumption DEF Row, Status
<1>2. group \in [Groups -> GroupRow] BY BoundAssumption DEF Init, GroupRow, Status, Orders
<1>3. req \in [Reqs -> Request] BY Empty DEF Init
<1>4. Frozen(pool, {Default}) \in Asked
  <2> DEFINE S == {x \in On(pool) : pool[x].group \in {Default}}
  <2>1. S \in SUBSET Questions BY DEF On
  <2>2. Frozen(pool, {Default}) \in [S -> Row] BY <1>1, <2>1 DEF Frozen
  <2> QED BY <2>1, <2>2 DEF Asked
<1>5. DOMAIN asks = 1..1 /\ asks \in [1..1 -> Asked] /\ active = {1}
  BY <1>4 DEF Init, Only
<1>6. TypeOK BY <1>1, <1>2, <1>3, <1>5, BoundAssumption DEF TypeOK
<1>7. Contiguous BY <1>5 DEF Contiguous
<1>8. Numbers BY DEF Init, Numbers, Idle
<1> QED BY <1>5, <1>6, <1>7, <1>8 DEF Versions

\* Pool, versions and requests stay well formed.
THEOREM TypeCorrect == Spec => []TypeOK
<1>1. Versions => TypeOK BY DEF Versions
<1> QED BY InitVersions, VersionsStep, <1>1, PTL DEF Spec

\* Once a questionnaire is published, some version of it is always active: no race
\* of publishes and rollbacks, failed number or crash leaves the customer without.
THEOREM AlwaysServed == Spec => []NeverUnserved
<1>1. Versions => NeverUnserved BY DEF Versions, NeverUnserved
<1> QED BY InitVersions, VersionsStep, <1>1, PTL DEF Spec

\* A publish that can still commit has seen the version that is active now: any
\* version inserted since its number was read has taken that number.
Single ==
  /\ OneActive
  /\ \A r \in Reqs :
       /\ req[r].pc \notin {"rollback", "activate"}
       /\ req[r].pc = "insert" /\ req[r].num \notin DOMAIN asks => req[r].seen = active

LEMMA SingleStep ==
  ASSUME Restorable = {}, Versions, Versions', Single, [Next]_vars PROVE Single'
<1>1. CASE UNCHANGED vars BY <1>1 DEF vars, Single, OneActive
<1>2. ASSUME NEW r \in Reqs, Edits(r) PROVE Single'
  BY <1>2, EditsLeave DEF Versions, Single, OneActive, EditPcs
<1>3. ASSUME NEW r \in Reqs, Publication(r) PROVE Single'
  <2>1. CASE UNCHANGED <<asks, active>>
    BY <1>3, <2>1, PublicationSteps DEF Single, OneActive
  <2>2. CASE /\ req[r].pc = "insert" /\ req[r].num = NextNumber /\ req'[r].pc = "idle"
             /\ DOMAIN asks' = DOMAIN asks \cup {NextNumber} /\ NextNumber \notin DOMAIN asks
             /\ active' = (active \ req[r].seen) \cup {NextNumber}
    <3>1. active' = {NextNumber} BY <2>2 DEF Single
    <3>2. OneActive' BY <2>2, <3>1 DEF OneActive
    <3>3. \A s \in Reqs \ {r} : req'[s] = req[s] BY <1>3, PublicationSteps
    <3>4. \A s \in Reqs : req[s].pc = "insert" => req[s].num \in DOMAIN asks'
      BY <2>2 DEF Versions, Numbers
    <3> QED BY <2>2, <3>2, <3>3, <3>4 DEF Single
  <2> QED BY <1>3, <2>1, <2>2, PublicationSteps DEF Single
<1> QED BY <1>1, <1>2, <1>3 DEF Next

\* Without rollbacks exactly one version is active, however many admins publish at
\* once: the unique number is enough.
THEOREM ExactlyOneActive == ASSUME Restorable = {} PROVE Spec => []OneActive
<1>1. Init => Single BY DEF Init, Single, OneActive, Only, Idle
<1>2. Versions /\ Versions' /\ Single /\ [Next]_vars => Single' BY SingleStep
<1>3. Single => OneActive BY DEF Single
<1> QED BY InitVersions, VersionsStep, <1>1, <1>2, <1>3, PTL DEF Spec
-----------------------------------------------------------------------------
(* The fixed questions                                                       *)

\* What is about to be written keeps the rule too.
Fixed ==
  /\ FixedRulesHold
  /\ \A r \in Reqs : req[r].pc = "write" => GateBreaks(After(req[r].edit)) = {}

\* The rule reads the switches, the gates and the marks only.
LEMMA SameMarks ==
  ASSUME NEW P, NEW Q,
         \A q \in Questions : P[q].status = Q[q].status /\ P[q].gate = Q[q].gate
                              /\ P[q].fixed = Q[q].fixed
  PROVE  GateBreaks(P) = GateBreaks(Q)
<1>1. On(P) = On(Q) BY DEF On
<1>2. FixedOn(P) = FixedOn(Q) BY <1>1 DEF FixedOn, On
<1>3. \A q \in FixedOn(P) : P[q].gate = Q[q].gate BY DEF FixedOn, On
<1> QED BY <1>2, <1>3 DEF GateBreaks

\* What a request has once it took up an edit.
LEMMA GotoEdit ==
  ASSUME TypeOK, NEW r \in Reqs, NEW pc, NEW edit, Goto(r, pc, edit)
  PROVE  req'[r].pc = pc /\ req'[r].edit = edit
BY DEF Goto, TypeOK, Idle

\* A question created fixed is shown after active fixed ones, and no question was
\* fixed and on after one that did not exist.
LEMMA CreateKeepsRules ==
  ASSUME TypeOK, FixedRulesHold, NEW q \in Questions, pool[q].status = "free",
         NEW o \in Orders, NEW gate \in Questions \cup {NoQuestion}, NEW f \in BOOLEAN,
         NEW home \in Groups,
         gate # NoQuestion => (f => gate \in FixedOn(pool)),
         NEW edit, edit.questions = Only(q, [status |-> "on", order |-> o, gate |-> gate,
                                             fixed |-> f, group |-> home])
  PROVE  GateBreaks(After(edit)) = {}
<1> DEFINE A == After(edit)
<1>1. \A d \in Questions \ {q} : A[d] = pool[d] BY DEF After, Only
<1>2. A[q].status = "on" /\ A[q].gate = gate /\ A[q].fixed = f
  BY KeepAssumption DEF After, Only, Patched, Sent, Status
<1> HIDE DEF A
<1>3. q \notin FixedOn(pool) BY DEF FixedOn, On
<1>4. FixedOn(pool) \subseteq FixedOn(A) BY <1>1, <1>3 DEF FixedOn, On
<1>5. \A d \in FixedOn(pool) : pool[d].gate = NoQuestion \/ pool[d].gate \in FixedOn(pool)
  BY DEF FixedRulesHold, GateBreaks
<1>6. \A d \in FixedOn(A) : A[d].gate = NoQuestion \/ A[d].gate \in FixedOn(A)
  <2> SUFFICES ASSUME NEW d \in FixedOn(A) PROVE A[d].gate = NoQuestion \/ A[d].gate \in FixedOn(A)
    OBVIOUS
  <2>1. CASE d = q BY <1>2, <1>4, <2>1 DEF FixedOn
  <2>2. CASE d # q
    <3>1. d \in FixedOn(pool) /\ A[d].gate = pool[d].gate BY <1>1, <2>2 DEF FixedOn, On
    <3> QED BY <1>4, <1>5, <3>1
  <2> QED BY <2>1, <2>2
<1>7. GateBreaks(A) = {} BY <1>6 DEF GateBreaks
<1> QED BY <1>7 DEF A

\* A list of places moves no switch, gate or mark.
LEMMA PlacesKeepRules ==
  ASSUME TypeOK, FixedRulesHold, NEW edit, NEW place,
         edit.questions = [q \in On(pool) |-> [NoChange EXCEPT !.order = place[q]]]
  PROVE  GateBreaks(After(edit)) = {}
<1>1. \A q \in Questions : After(edit)[q].status = pool[q].status
                           /\ After(edit)[q].gate = pool[q].gate
                           /\ After(edit)[q].fixed = pool[q].fixed
  BY DEF After, Patched, Sent, NoChange, On
<1> QED BY <1>1, SameMarks DEF FixedRulesHold

\* With one admin, an edit that was judged is written to the pool it was judged on.
LEMMA FixedStep ==
  ASSUME \A x, y \in Reqs : x = y, Versions, Fixed, [Next]_vars PROVE Fixed'
<1>0. TypeOK BY DEF Versions
<1>1. CASE UNCHANGED vars BY <1>1 DEF vars, Fixed, FixedRulesHold, After
<1>2. ASSUME NEW r \in Reqs, NEW pc, NEW edit, Goto(r, pc, edit), pool' = pool,
             pc = "write" => GateBreaks(After(edit)) = {}
      PROVE  Fixed'
  <2>1. req'[r].pc = pc /\ req'[r].edit = edit BY <1>0, <1>2, GotoEdit
  <2>2. After(edit)' = [q \in Questions |-> IF q \in DOMAIN edit'.questions
                          THEN Patched(pool[q], edit'.questions[q]) ELSE pool[q]]
    BY <1>2 DEF After
  <2>3. \A s \in Reqs : req'[s].pc = "write" => GateBreaks(After(req[s].edit))' = {}
    BY <1>2, <2>1 DEF After
  <2> QED BY <1>2, <2>3 DEF Fixed, FixedRulesHold
<1>3. ASSUME NEW r \in Reqs, Edits(r) PROVE Fixed'
  <2>1. CASE ReviveDefault(r)
    BY <1>2, <2>1 DEF ReviveDefault
  <2>2. ASSUME NEW q \in Questions, NEW g \in Groups, NEW o \in Orders,
               NEW gate \in Questions \cup {NoQuestion}, NEW f \in BOOLEAN,
               OpenCreate(r, q, g, o, gate, f)
        PROVE  Fixed'
    <3> DEFINE home == IF gate = NoQuestion THEN g ELSE Beside(g, gate)
               row == [status |-> "on", order |-> o, gate |-> gate, fixed |-> f, group |-> home]
               edit == [EditOf(q, row) EXCEPT !.new = q]
    <3>1. home \in Groups BY <1>0 DEF TypeOK, Row, Beside
    <3>2. edit.questions = Only(q, row) BY DEF EditOf, NoEdit
    <3>3. pool[q].status = "free" /\ (gate # NoQuestion => (f => gate \in FixedOn(pool)))
      BY <2>2 DEF OpenCreate
    <3>4. Goto(r, "write", edit) /\ pool' = pool BY <2>2 DEF OpenCreate
    <3> HIDE DEF home, edit
    <3>5. GateBreaks(After(edit)) = {}
      BY <1>0, <3>1, <3>2, <3>3, CreateKeepsRules DEF Fixed
    <3> QED BY <1>2, <3>4, <3>5
  <2>3. ASSUME NEW q \in Questions, NEW p \in Patches, OpenUpdate(r, q, p) PROVE Fixed'
    BY <1>2, <2>3 DEF OpenUpdate
  <2>4. ASSUME NEW q \in Questions, OpenDelete(r, q) PROVE Fixed'
    BY <1>2, <2>4 DEF OpenDelete
  <2>5. ASSUME NEW place \in Places, OpenReorder(r, place) PROVE Fixed'
    <3> DEFINE edit == [NoEdit EXCEPT !.questions =
                          [q \in On(pool) |-> [NoChange EXCEPT !.order = place[q]]]]
    <3>1. Goto(r, "write", edit) /\ pool' = pool BY <2>5 DEF OpenReorder
    <3>2. edit.questions = [q \in On(pool) |-> [NoChange EXCEPT !.order = place[q]]]
      BY DEF NoEdit
    <3> HIDE DEF edit
    <3>3. GateBreaks(After(edit)) = {} BY <1>0, <3>2, PlacesKeepRules DEF Fixed
    <3> QED BY <1>2, <3>1, <3>3
  <2>6. ASSUME NEW g \in Groups, NEW p \in GroupPatches, OpenGroup(r, g, p) PROVE Fixed'
    <3> DEFINE edit == [NoEdit EXCEPT !.groups = Only(g, p)]
    <3>1. Goto(r, "write", edit) /\ pool' = pool BY <2>6 DEF OpenGroup
    <3>2. edit.questions = Nothing BY DEF NoEdit
    <3> HIDE DEF edit
    <3>3. \A q \in Questions : After(edit)[q] = pool[q] BY <3>2 DEF After, Nothing
    <3>4. GateBreaks(After(edit)) = {} BY <3>3, SameMarks DEF Fixed, FixedRulesHold
    <3> QED BY <1>2, <3>1, <3>4
  <2>7. CASE Contract(r)
    <3> DEFINE edit == req[r].edit
    <3>1. PICK q \in DOMAIN edit.questions :
            /\ FixedRulesKept(After(edit), IF edit.confirmed THEN q ELSE NoQuestion)
            /\ Goto(r, "write",
                    IF edit.questions[q].gate \in Questions
                    THEN [edit EXCEPT !.questions[q].group =
                            Beside(pool[q].group, edit.questions[q].gate)]
                    ELSE edit)
            /\ pool' = pool
      BY <2>7 DEF Contract
    <3>2. GateBreaks(After(edit)) = {}
      BY <3>1 DEF FixedRulesKept, Fixed, FixedRulesHold
    <3> DEFINE e2 == [edit EXCEPT !.questions[q].group =
                        Beside(pool[q].group, edit.questions[q].gate)]
    <3>3. GateBreaks(After(e2)) = {}
      <4>1. edit \in Edit BY <1>0 DEF TypeOK, Request
      <4>2. PICK S \in SUBSET Questions : edit.questions \in [S -> Patch] BY <4>1 DEF Edit
      <4>3. e2.questions = [edit.questions EXCEPT ![q].group =
                              Beside(pool[q].group, edit.questions[q].gate)]
        BY <4>1 DEF Edit
      <4>4. DOMAIN e2.questions = DOMAIN edit.questions BY <4>2, <4>3
      <4>5. \A x \in DOMAIN edit.questions :
              /\ e2.questions[x].status = edit.questions[x].status
              /\ e2.questions[x].gate = edit.questions[x].gate
              /\ e2.questions[x].fixed = edit.questions[x].fixed
        BY <4>2, <4>3 DEF Patch
      <4> HIDE DEF e2
      <4>6. \A x \in Questions : /\ After(e2)[x].status = After(edit)[x].status
                                 /\ After(e2)[x].gate = After(edit)[x].gate
                                 /\ After(e2)[x].fixed = After(edit)[x].fixed
        BY <4>4, <4>5 DEF After, Patched
      <4> QED BY <3>2, <4>6, SameMarks
    <3> QED BY <1>2, <3>1, <3>2, <3>3
  <2>8. CASE Write(r)
    <3>1. pool' = After(req[r].edit) /\ Goto(r, "groups", NoEdit) /\ req[r].pc = "write"
      BY <2>8 DEF Write
    <3>2. FixedRulesHold' BY <3>1 DEF Fixed, FixedRulesHold, GateBreaks, FixedOn, On
    <3>3. req'[r].pc = "groups" BY <1>0, <3>1, GotoEdit
    <3> QED BY <3>2, <3>3 DEF Fixed
  <2>9. CASE Refuse(r)
    BY <1>2, <2>9 DEF Refuse
  <2> QED BY <1>3, <2>1, <2>2, <2>3, <2>4, <2>5, <2>6, <2>7, <2>8, <2>9 DEF Edits
<1>4. ASSUME NEW r \in Reqs, Publication(r) PROVE Fixed'
  <2>1. pool' = pool
    BY <1>4 DEF Publication, Publishing, ReadGroups, ReadQuestions, Number, Rollback, Begin, Insert,
       NumberTaken, Activate, Crash
  <2>2. req'[r].pc # "write" BY <1>4, PublicationSteps
  <2> QED BY <2>1, <2>2 DEF Fixed, FixedRulesHold
<1> QED BY <1>1, <1>3, <1>4 DEF Next

\* One admin alone, wherever its requests are refused or die, keeps every fixed
\* question that is on behind fixed questions that are on.
THEOREM OneAdminKeepsRules ==
  ASSUME \A x, y \in Reqs : x = y PROVE Spec => []FixedRulesHold
<1>1. Init => Fixed
  <2> SUFFICES ASSUME Init PROVE Fixed OBVIOUS
  <2>1. \A q \in Questions : pool[q].gate = NoQuestion BY DEF Init
  <2>2. FixedRulesHold BY <2>1 DEF FixedRulesHold, GateBreaks, FixedOn, On
  <2> QED BY <2>2 DEF Fixed, Init, Idle
<1>2. Versions /\ Fixed /\ [Next]_vars => Fixed' BY FixedStep
<1>3. Fixed => FixedRulesHold BY DEF Fixed
<1> QED BY InitVersions, VersionsStep, <1>1, <1>2, <1>3, PTL DEF Spec
-----------------------------------------------------------------------------
(* What the engine reads                                                     *)

NoneClosed(G) == \A g \in Groups : G[g].status # "off"
AtHome(P, G) == \A q \in Questions : P[q].status # "free" => G[P[q].group].status = "on"

\* What the engine reads of the pool, a version asks.
Serves(v) == \A q \in Locked \cap On(pool) : q \in DOMAIN v /\ v[q].gate = pool[q].gate

\* An edit that is judged names no group, and is shown after a question there is.
Homely(edit) ==
  /\ edit.groups = Nothing
  /\ \A q \in DOMAIN edit.questions :
       /\ pool[q].status # "free" /\ edit.questions[q].group = Keep
       /\ edit.questions[q].gate \in Questions => pool[edit.questions[q].gate].status # "free"

\* What is written leaves every question in an open group.
Tidy(edit) == AtHome(After(edit), GroupsAfter(edit)) /\ NoneClosed(GroupsAfter(edit))

\* What the one request knows on its way: its edit leaves every question in an open
\* group, what it is about to publish is the pool, and a version it is about to bring
\* back serves the engine.
Sound(m) ==
  /\ m.pc = "contract" => Homely(m.edit)
  /\ m.pc = "write" => Tidy(m.edit)
  /\ m.pc = "questions" => m.groups = GroupsOn
  /\ m.pc \in {"number", "begin", "insert"} => m.asks = Frozen(pool, GroupsOn)
  /\ m.pc \in {"begin", "insert"} => m.num = NextNumber
  /\ m.pc \in {"insert", "activate"} => m.seen = active
  /\ m.pc \in {"rollback", "activate"} => Serves(asks[m.num])
  /\ m.pc \in {"idle", "create", "contract", "write"} => \A n \in active : Serves(asks[n])

EngineInv ==
  /\ AtHome(pool, group) /\ NoneClosed(group)
  /\ \A r \in Reqs : Sound(req[r])

\* A request that takes up an edit, or leaves one, before anything is written.
LEMMA TakesUp ==
  ASSUME \A x, y \in Reqs : x = y, TypeOK, EngineInv, NEW r \in Reqs,
         req[r].pc \in {"idle", "create", "contract", "write"},
         NEW pc \in {"idle", "create", "contract", "write"}, NEW edit, Goto(r, pc, edit),
         UNCHANGED <<pool, group, asks, active>>,
         pc = "contract" => Homely(edit), pc = "write" => Tidy(edit)
  PROVE  EngineInv'
<1>1. req'[r].pc = pc /\ req'[r].edit = edit BY GotoEdit
<1>2. AtHome(pool, group)' /\ NoneClosed(group)' BY DEF EngineInv, AtHome, NoneClosed
<1>3. \A n \in active : Serves(asks[n]) BY DEF EngineInv, Sound
<1>4. \A n \in active' : Serves(asks[n])' BY <1>3 DEF Serves, On
<1>5. pc = "contract" => Homely(req[r].edit)' BY <1>1 DEF Homely
<1>6. pc = "write" => Tidy(req[r].edit)'
  BY <1>1 DEF Tidy, After, GroupsAfter, AtHome, NoneClosed
<1>7. Sound(req[r])' BY <1>1, <1>4, <1>5, <1>6 DEF Sound
<1> QED BY <1>2, <1>7 DEF EngineInv

\* The groups of an edit that names none stay as they are.
LEMMA NoGroups ==
  ASSUME TypeOK, NEW edit, edit.groups = Nothing PROVE GroupsAfter(edit) = group
BY DEF GroupsAfter, Nothing, TypeOK

\* The group of an open group's question, or of the question it is shown after.
LEMMA BesideOpen ==
  ASSUME TypeOK, AtHome(pool, group), NEW g \in Groups, group[g].status = "on",
         NEW gate \in Questions, pool[gate].status # "free"
  PROVE  Beside(g, gate) \in Groups /\ group[Beside(g, gate)].status = "on"
BY DEF AtHome, Beside, TypeOK, Row

LEMMA CreateTidy ==
  ASSUME TypeOK, EngineInv, NEW q \in Questions, NEW row, row.group \in Groups,
         group[row.group].status = "on", NEW edit,
         edit.questions = Only(q, row), edit.groups = Nothing
  PROVE  Tidy(edit)
<1>1. \A x \in Questions \ {q} : After(edit)[x] = pool[x] BY DEF After, Only
<1>2. After(edit)[q].group = row.group BY KeepAssumption DEF After, Only, Patched, Sent
<1>3. GroupsAfter(edit) = group BY NoGroups
<1> QED BY <1>1, <1>2, <1>3 DEF Tidy, AtHome, NoneClosed, EngineInv

LEMMA ReorderTidy ==
  ASSUME TypeOK, EngineInv, NEW place, NEW edit, edit.groups = Nothing,
         edit.questions = [q \in On(pool) |-> [NoChange EXCEPT !.order = place[q]]]
  PROVE  Tidy(edit)
<1>1. \A q \in Questions : After(edit)[q].status = pool[q].status
                           /\ After(edit)[q].group = pool[q].group
  BY DEF After, Patched, Sent, NoChange, On
<1>2. GroupsAfter(edit) = group BY NoGroups
<1> QED BY <1>1, <1>2 DEF Tidy, AtHome, NoneClosed, EngineInv

LEMMA GroupTidy ==
  ASSUME TypeOK, EngineInv, NEW g \in Groups, NEW p \in GroupPatch, p.status # "off",
         group[g].status = "free" => p.status = "on",
         NEW edit, edit.groups = Only(g, p), edit.questions = Nothing
  PROVE  Tidy(edit)
<1>1. After(edit) = pool BY DEF After, Nothing, TypeOK
<1>2. \A h \in Groups \ {g} : GroupsAfter(edit)[h] = group[h] BY DEF GroupsAfter, Only
<1>3. GroupsAfter(edit)[g].status = Sent(p.status, group[g].status)
  BY DEF GroupsAfter, Only, PatchedGroup
<1>4. p.status \in {"on", Keep} BY DEF GroupPatch
<1>5. group[g].status \in {"on", "off"} => GroupsAfter(edit)[g].status \in {"on", group[g].status}
  BY <1>3, <1>4 DEF Sent
<1>6. group[g].status = "free" => GroupsAfter(edit)[g].status = "on"
  BY <1>3, KeepAssumption DEF Sent, Status
<1>7. group[g].status \in Status BY DEF TypeOK, GroupRow
<1>8. \A h \in Groups : /\ GroupsAfter(edit)[h].status # "off"
                        /\ group[h].status = "on" => GroupsAfter(edit)[h].status = "on"
  BY <1>2, <1>5, <1>6, <1>7 DEF EngineInv, NoneClosed, Status
<1>9. \A q \in Questions : pool[q].group \in Groups BY DEF TypeOK, Row
<1> QED BY <1>1, <1>8, <1>9 DEF Tidy, AtHome, NoneClosed, EngineInv

\* The edit that passed the contract, and has its group beside its gate.
LEMMA ContractTidy ==
  ASSUME TypeOK, EngineInv, NEW edit \in Edit, Homely(edit), NEW q \in DOMAIN edit.questions
  PROVE  /\ Tidy(edit)
         /\ edit.questions[q].gate \in Questions =>
              Tidy([edit EXCEPT !.questions[q].group =
                      Beside(pool[q].group, edit.questions[q].gate)])
<1> DEFINE gate == edit.questions[q].gate
           e2 == [edit EXCEPT !.questions[q].group = Beside(pool[q].group, gate)]
<1>1. PICK S \in SUBSET Questions : edit.questions \in [S -> Patch] BY DEF Edit
<1>2. AtHome(pool, group) /\ NoneClosed(group) BY DEF EngineInv
<1>3. \A x \in Questions : pool[x].status # "free" => pool[x].group \in Groups
                                                      /\ group[pool[x].group].status = "on"
  BY <1>2 DEF AtHome, TypeOK, Row
<1>4. \A x \in DOMAIN edit.questions : pool[x].status # "free" /\ edit.questions[x].group = Keep
  BY DEF Homely
<1>5. Tidy(edit)
  <2>1. GroupsAfter(edit) = group BY NoGroups DEF Homely
  <2>2. \A x \in Questions : /\ After(edit)[x].group = pool[x].group
                             /\ After(edit)[x].status # "free" => pool[x].status # "free"
    BY <1>1, <1>4 DEF After, Patched, Sent
  <2> QED BY <1>2, <1>3, <2>1, <2>2 DEF Tidy, AtHome
<1>6. ASSUME gate \in Questions PROVE Tidy(e2)
  <2>1. pool[gate].status # "free" BY <1>6 DEF Homely
  <2>2. /\ Beside(pool[q].group, gate) \in Groups
        /\ group[Beside(pool[q].group, gate)].status = "on"
    BY <1>1, <1>2, <1>3, <1>4, <1>6, <2>1, BesideOpen
  <2>3. e2.questions = [edit.questions EXCEPT ![q].group = Beside(pool[q].group, gate)]
        /\ e2.groups = edit.groups
    BY DEF Edit
  <2>4. DOMAIN e2.questions = DOMAIN edit.questions BY <1>1, <2>3
  <2>5. e2.questions[q].group = Beside(pool[q].group, gate) BY <1>1, <2>3 DEF Patch
  <2>6. \A x \in DOMAIN edit.questions \ {q} : e2.questions[x] = edit.questions[x]
    BY <1>1, <2>3
  <2> HIDE DEF e2, gate
  <2>7. GroupsAfter(e2) = group BY <2>3, NoGroups DEF Homely
  <2>8. After(e2)[q].group = Beside(pool[q].group, gate) /\ q \in Questions
    BY <1>1, <2>2, <2>4, <2>5, KeepAssumption DEF After, Patched, Sent
  <2>9. \A x \in Questions \ {q} : /\ After(e2)[x].group = pool[x].group
                                   /\ After(e2)[x].status # "free" => pool[x].status # "free"
    BY <1>1, <1>4, <2>4, <2>6 DEF After, Patched, Sent
  <2>10. AtHome(After(e2), group) BY <1>3, <2>2, <2>8, <2>9 DEF AtHome
  <2> QED BY <1>2, <2>7, <2>10 DEF Tidy
<1> QED BY <1>5, <1>6

LEMMA EngineEdits ==
  ASSUME \A x, y \in Reqs : x = y, \A p \in GroupPatches : p.status # "off",
         TypeOK, EngineInv, NEW r \in Reqs, Edits(r)
  PROVE  EngineInv'
<1> DEFINE Early == {"idle", "create", "contract", "write"}
<1>0. AtHome(pool, group) /\ NoneClosed(group) /\ Sound(req[r]) BY DEF EngineInv
<1>1. ASSUME NEW pc \in Early, NEW edit, Goto(r, pc, edit), req[r].pc \in Early,
             UNCHANGED <<pool, group, asks, active>>,
             pc = "contract" => Homely(edit), pc = "write" => Tidy(edit)
      PROVE  EngineInv'
  BY <1>1, TakesUp
<1>2. CASE ReviveDefault(r)
  <2>1. req'[r].pc = "create" BY <1>2, GotoEdit DEF ReviveDefault
  <2>2. UNCHANGED <<pool, asks, active>> BY <1>2 DEF ReviveDefault, Unpublished
  <2>3. \A g \in Groups : /\ group'[g].status # "off"
                          /\ group[g].status = "on" => group'[g].status = "on"
    BY <1>0, <1>2, DefaultAssumption DEF ReviveDefault, NoneClosed, TypeOK, GroupRow
  <2>4. \A q \in Questions : pool[q].group \in Groups BY DEF TypeOK, Row
  <2>5. AtHome(pool, group)' /\ NoneClosed(group)'
    BY <1>0, <2>2, <2>3, <2>4 DEF AtHome, NoneClosed
  <2>6. \A n \in active : Serves(asks[n]) BY <1>0, <1>2 DEF ReviveDefault, Sound
  <2>7. \A n \in active' : Serves(asks[n])' BY <2>2, <2>6 DEF Serves, On
  <2>8. Sound(req[r])' BY <2>1, <2>7 DEF Sound
  <2> QED BY <2>5, <2>8 DEF EngineInv
<1>3. ASSUME NEW q \in Questions, NEW g \in Groups, NEW o \in Orders,
             NEW gate \in Questions \cup {NoQuestion}, NEW f \in BOOLEAN,
             OpenCreate(r, q, g, o, gate, f)
      PROVE  EngineInv'
  <2> DEFINE home == IF gate = NoQuestion THEN g ELSE Beside(g, gate)
             row == [status |-> "on", order |-> o, gate |-> gate, fixed |-> f, group |-> home]
             edit == [EditOf(q, row) EXCEPT !.new = q]
  <2>1. group[g].status = "on"
    BY <1>0, <1>3 DEF OpenCreate, NoneClosed, TypeOK, GroupRow, Status
  <2>2. gate # NoQuestion => pool[gate].status # "free" BY <1>3 DEF OpenCreate, GateValid
  <2>3. home \in Groups /\ group[home].status = "on" BY <1>0, <2>1, <2>2, BesideOpen
  <2>4. edit.questions = Only(q, row) /\ edit.groups = Nothing BY DEF EditOf, NoEdit
  <2>5. Goto(r, "write", edit) /\ req[r].pc \in Early /\ UNCHANGED <<pool, group, asks, active>>
    BY <1>3 DEF OpenCreate, Unpublished
  <2>6. row.group = home OBVIOUS
  <2> HIDE DEF home, row, edit
  <2>7. Tidy(edit) BY <2>3, <2>4, <2>6, CreateTidy
  <2> QED BY <1>1, <2>5, <2>7
<1>4. ASSUME NEW q \in Questions, NEW p \in Patches, OpenUpdate(r, q, p) PROVE EngineInv'
  <2> DEFINE pp == [p EXCEPT !.fixed = IF @ = pool[q].fixed THEN Keep ELSE @]
  <2>1. p \in Patch /\ p.group = Keep BY PatchesAssumption
  <2>2. pp.group = Keep /\ pp.gate = p.gate BY <2>1 DEF Patch
  <2>3. /\ pool[q].status # "free"
        /\ p.gate \in Questions => pool[p.gate].status # "free"
        /\ Goto(r, "contract", EditOf(q, pp)) /\ req[r].pc \in Early
        /\ UNCHANGED <<pool, group, asks, active>>
    BY <1>4 DEF OpenUpdate, GateValid, Unpublished
  <2> HIDE DEF pp
  <2> DEFINE edit == EditOf(q, pp)
  <2>4. edit.questions = Only(q, pp) /\ edit.groups = Nothing BY DEF EditOf, NoEdit
  <2> HIDE DEF edit
  <2>5. Homely(edit) BY <2>2, <2>3, <2>4 DEF Homely, Only
  <2> QED BY <1>1, <2>3, <2>5 DEF edit
<1>5. ASSUME NEW q \in Questions, OpenDelete(r, q) PROVE EngineInv'
  <2> DEFINE p == [NoChange EXCEPT !.status = "off"]
             edit == [EditOf(q, p) EXCEPT !.confirmed = pool[q].fixed]
  <2>1. p.group = Keep /\ p.gate = Keep BY DEF NoChange
  <2>2. /\ pool[q].status # "free" /\ Goto(r, "contract", edit) /\ req[r].pc \in Early
        /\ UNCHANGED <<pool, group, asks, active>>
    BY <1>5 DEF OpenDelete, Unpublished
  <2>3. edit.questions = Only(q, p) /\ edit.groups = Nothing BY DEF EditOf, NoEdit
  <2> HIDE DEF p, edit
  <2>4. Homely(edit) BY <2>1, <2>2, <2>3, KeepAssumption DEF Homely, Only
  <2> QED BY <1>1, <2>2, <2>4
<1>6. ASSUME NEW place \in Places, OpenReorder(r, place) PROVE EngineInv'
  <2> DEFINE edit == [NoEdit EXCEPT !.questions =
                        [q \in On(pool) |-> [NoChange EXCEPT !.order = place[q]]]]
  <2>1. /\ Goto(r, "write", edit) /\ req[r].pc \in Early
        /\ UNCHANGED <<pool, group, asks, active>>
    BY <1>6 DEF OpenReorder, Unpublished
  <2>2. edit.questions = [q \in On(pool) |-> [NoChange EXCEPT !.order = place[q]]]
        /\ edit.groups = Nothing
    BY DEF NoEdit
  <2> HIDE DEF edit
  <2>3. Tidy(edit) BY <2>2, ReorderTidy
  <2> QED BY <1>1, <2>1, <2>3
<1>7. ASSUME NEW g \in Groups, NEW p \in GroupPatches, OpenGroup(r, g, p) PROVE EngineInv'
  <2> DEFINE edit == [NoEdit EXCEPT !.groups = Only(g, p)]
  <2>1. /\ Goto(r, "write", edit) /\ req[r].pc \in Early
        /\ UNCHANGED <<pool, group, asks, active>>
        /\ group[g].status = "free" => p.status = "on"
    BY <1>7 DEF OpenGroup, Unpublished
  <2>2. edit.questions = Nothing /\ edit.groups = Only(g, p) BY DEF NoEdit
  <2>3. p \in GroupPatch BY PatchesAssumption
  <2> HIDE DEF edit
  <2>4. Tidy(edit) BY <2>1, <2>2, <2>3, GroupTidy
  <2> QED BY <1>1, <2>1, <2>4
<1>8. CASE Contract(r)
  <2> DEFINE edit == req[r].edit
  <2>1. edit \in Edit BY DEF TypeOK, Request
  <2>2. PICK q \in DOMAIN edit.questions :
          /\ req[r].pc = "contract"
          /\ Goto(r, "write",
                  IF edit.questions[q].gate \in Questions
                  THEN [edit EXCEPT !.questions[q].group =
                          Beside(pool[q].group, edit.questions[q].gate)]
                  ELSE edit)
          /\ UNCHANGED <<pool, group, asks, active>>
    BY <1>8 DEF Contract, Unpublished
  <2>3. Homely(edit) BY <1>0, <2>2 DEF Sound
  <2>4. /\ Tidy(edit)
        /\ edit.questions[q].gate \in Questions =>
             Tidy([edit EXCEPT !.questions[q].group =
                     Beside(pool[q].group, edit.questions[q].gate)])
    BY <2>1, <2>2, <2>3, ContractTidy
  <2> QED BY <1>1, <2>2, <2>4
<1>9. CASE Write(r)
  <2>1. req'[r].pc = "groups" BY <1>9, GotoEdit DEF Write
  <2>2. Tidy(req[r].edit) BY <1>0, <1>9 DEF Write, Sound
  <2>3. AtHome(pool, group)' /\ NoneClosed(group)'
    BY <1>9, <2>2 DEF Write, Tidy, AtHome, NoneClosed
  <2>4. Sound(req[r])' BY <2>1 DEF Sound
  <2> QED BY <2>3, <2>4 DEF EngineInv
<1>10. CASE Refuse(r)
  BY <1>1, <1>10 DEF Refuse, Unpublished
<1> QED BY <1>2, <1>3, <1>4, <1>5, <1>6, <1>7, <1>8, <1>9, <1>10 DEF Edits

\* A step that writes no row and no version leaves what a request knows true.
LEMMA SoundStays ==
  ASSUME UNCHANGED <<pool, group, asks, active>>, NEW k, Sound(k) PROVE Sound(k)'
<1>1. On(pool)' = On(pool) /\ GroupsOn' = GroupsOn /\ NextNumber' = NextNumber
  BY DEF On, GroupsOn, NextNumber
<1>2. Frozen(pool, GroupsOn)' = Frozen(pool, GroupsOn) BY <1>1 DEF Frozen, On
<1>3. Homely(k.edit) => Homely(k.edit)' BY DEF Homely
<1>4. After(k.edit)' = After(k.edit) /\ GroupsAfter(k.edit)' = GroupsAfter(k.edit)
  BY DEF After, GroupsAfter
<1>5. Tidy(k.edit) => Tidy(k.edit)' BY <1>4 DEF Tidy, AtHome, NoneClosed
<1>6. \A n : Serves(asks[n]) => Serves(asks[n])' BY <1>1 DEF Serves
<1> QED BY <1>1, <1>2, <1>3, <1>5, <1>6 DEF Sound

\* A request that reads, or takes a number: the rows and the versions stay.
LEMMA EngineReads ==
  ASSUME \A x, y \in Reqs : x = y, TypeOK, EngineInv, NEW r \in Reqs, NEW m,
         m \in Request, NEW pc, Now(r, pc, m), UNCHANGED <<pool, group, asks, active>>,
         Sound([m EXCEPT !.pc = pc])
  PROVE  EngineInv'
<1>1. req'[r] = [m EXCEPT !.pc = pc] BY DEF Now, TypeOK
<1>2. AtHome(pool, group)' /\ NoneClosed(group)' BY DEF EngineInv, AtHome, NoneClosed
<1>3. PICK k : k = [m EXCEPT !.pc = pc] OBVIOUS
<1>4. Sound(k) => Sound(k)' BY SoundStays
<1>5. req'[r] = k BY <1>1, <1>3
<1>6. Sound(req[r])' BY <1>3, <1>4, <1>5 DEF Sound
<1> QED BY <1>2, <1>6 DEF EngineInv

\* Every question the engine reads is on and in an open group: what is frozen asks it.
LEMMA FrozenServes ==
  ASSUME TypeOK, EngineInv PROVE Serves(Frozen(pool, GroupsOn))
<1>1. \A q \in On(pool) : pool[q].group \in GroupsOn
  BY DEF EngineInv, AtHome, On, GroupsOn, TypeOK, Row
<1> QED BY <1>1 DEF Serves, Frozen

\* What the locks let an admin roll back to serves the engine.
LEMMA LockedServes ==
  ASSUME TypeOK, NEW v, LocksKept(On(pool), AsPool(v)) PROVE Serves(v)
<1> SUFFICES ASSUME NEW q \in Locked \cap On(pool)
             PROVE  q \in DOMAIN v /\ v[q].gate = pool[q].gate
  BY DEF Serves
<1>1. q \in Questions /\ pool[q].status = "on" BY DEF On
<1>2. AsPool(v)[q].status = "on" /\ AsPool(v)[q].gate = pool[q].gate
  BY <1>1 DEF LocksKept
<1>3. q \in DOMAIN v
  <2> SUFFICES ASSUME q \notin DOMAIN v PROVE FALSE OBVIOUS
  <2>1. AsPool(v)[q] = [pool[q] EXCEPT !.status = "off"] BY <1>1 DEF AsPool
  <2>2. AsPool(v)[q].status = "off" BY <1>1, <2>1 DEF TypeOK, Row
  <2> QED BY <1>2, <2>2
<1>4. AsPool(v)[q] = v[q] BY <1>1, <1>3 DEF AsPool
<1> QED BY <1>2, <1>3, <1>4

LEMMA EnginePublication ==
  ASSUME \A x, y \in Reqs : x = y, Versions, EngineInv, NEW r \in Reqs, Publishing(r)
  PROVE  EngineInv'
<1> DEFINE m == req[r]
<1>0. TypeOK /\ m \in Request /\ Sound(m) BY DEF Versions, TypeOK, EngineInv
<1>1. CASE ReadGroups(r)
  <2> DEFINE k == [m EXCEPT !.groups = GroupsOn]
  <2>1. k \in Request /\ [k EXCEPT !.pc = "questions"].pc = "questions"
        /\ [k EXCEPT !.pc = "questions"].groups = GroupsOn
    BY <1>0 DEF Request, GroupsOn
  <2>2. Sound([k EXCEPT !.pc = "questions"]) BY <2>1 DEF Sound
  <2> QED BY <1>0, <1>1, <2>1, <2>2, EngineReads DEF ReadGroups
<1>2. CASE ReadQuestions(r)
  <2> DEFINE k == [m EXCEPT !.asks = Frozen(pool, m.groups)]
  <2>1. m.groups = GroupsOn BY <1>0, <1>2 DEF ReadQuestions, Sound
  <2>2. k \in Request /\ [k EXCEPT !.pc = "number"].pc = "number"
        /\ [k EXCEPT !.pc = "number"].asks = Frozen(pool, m.groups)
    BY <1>0, FrozenType DEF Request
  <2>3. Sound([k EXCEPT !.pc = "number"]) BY <2>1, <2>2 DEF Sound
  <2> QED BY <1>0, <1>2, <2>2, <2>3, EngineReads DEF ReadQuestions
<1>3. CASE Number(r)
  <2> DEFINE k == [m EXCEPT !.num = NextNumber]
  <2>1. PICK N \in Nat : N >= 1 /\ DOMAIN asks = 1..N BY DEF Contiguous, Versions
  <2>2. NextNumber \in 0..MaxVersion
    BY <1>3, <2>1, NextNumberIs, BoundAssumption DEF Number
  <2>3. k \in Request /\ [k EXCEPT !.pc = "begin"].pc = "begin"
        /\ [k EXCEPT !.pc = "begin"].num = NextNumber
        /\ [k EXCEPT !.pc = "begin"].asks = m.asks
    BY <1>0, <2>2 DEF Request
  <2>4. m.asks = Frozen(pool, GroupsOn) BY <1>0, <1>3 DEF Number, Sound
  <2>5. Sound([k EXCEPT !.pc = "begin"]) BY <2>3, <2>4 DEF Sound
  <2> QED BY <1>0, <1>3, <2>3, <2>5, EngineReads DEF Number
<1>4. ASSUME NEW n \in Restorable, Rollback(r, n) PROVE EngineInv'
  <2> DEFINE k == [Idle EXCEPT !.num = n]
  <2>1. n \in 0..MaxVersion BY <1>0, <1>4, BoundAssumption DEF Rollback, TypeOK
  <2>2. k \in Request /\ [k EXCEPT !.pc = "rollback"].pc = "rollback"
        /\ [k EXCEPT !.pc = "rollback"].num = n
    BY <2>1, Empty DEF Request, Idle
  <2>3. Serves(asks[n]) BY <1>0, <1>4, LockedServes DEF Rollback
  <2>4. Sound([k EXCEPT !.pc = "rollback"]) BY <2>2, <2>3 DEF Sound
  <2> QED BY <1>0, <1>4, <2>2, <2>4, EngineReads DEF Rollback
<1>5. CASE Begin(r)
  <2> DEFINE k == [m EXCEPT !.seen = active]
             pc == IF m.pc = "begin" THEN "insert" ELSE "activate"
  <2>1. m.pc \in {"begin", "rollback"} BY <1>5 DEF Begin
  <2>2. k \in Request /\ [k EXCEPT !.pc = pc].pc = pc
        /\ [k EXCEPT !.pc = pc].seen = active /\ [k EXCEPT !.pc = pc].num = m.num
        /\ [k EXCEPT !.pc = pc].asks = m.asks
    BY <1>0 DEF Request, TypeOK
  <2>3. Sound([k EXCEPT !.pc = pc]) BY <1>0, <2>1, <2>2 DEF Sound
  <2> QED BY <1>0, <1>5, <2>2, <2>3, EngineReads DEF Begin
<1>6. CASE Insert(r)
  <2>1. /\ m.pc = "insert" /\ asks' = Published(m.num, m.asks) /\ pool' = pool /\ group' = group
        /\ active' = (active \ m.seen) \cup {m.num} /\ Now(r, "idle", Idle)
    BY <1>6 DEF Insert
  <2>2. m.seen = active /\ m.asks = Frozen(pool, GroupsOn) BY <1>0, <2>1 DEF Sound
  <2>3. active' = {m.num} /\ asks'[m.num] = Frozen(pool, GroupsOn)
    BY <2>1, <2>2 DEF Published
  <2>4. Serves(Frozen(pool, GroupsOn)) BY <1>0, FrozenServes
  <2>5. \A n \in active' : Serves(asks[n])' BY <2>1, <2>3, <2>4 DEF Serves, On
  <2>6. req'[r].pc = "idle" BY <1>0, <2>1 DEF Now, TypeOK, Idle
  <2>7. Sound(req[r])' BY <2>5, <2>6 DEF Sound
  <2> QED BY <2>1, <2>7 DEF EngineInv, AtHome, NoneClosed
<1>7. CASE NumberTaken(r)
  <2>1. m.num = NextNumber BY <1>0, <1>7 DEF NumberTaken, Sound
  <2>2. PICK N \in Nat : N >= 1 /\ DOMAIN asks = 1..N BY DEF Contiguous, Versions
  <2>3. NextNumber \notin DOMAIN asks BY <2>2, NextNumberIs
  <2> QED BY <1>7, <2>1, <2>3 DEF NumberTaken
<1>8. CASE Activate(r)
  <2>1. /\ m.pc = "activate" /\ asks' = asks /\ pool' = pool /\ group' = group
        /\ active' = (active \ m.seen) \cup {m.num} /\ Now(r, "idle", Idle)
    BY <1>8 DEF Activate
  <2>2. m.seen = active /\ Serves(asks[m.num]) BY <1>0, <2>1 DEF Sound
  <2>3. active' = {m.num} BY <2>1, <2>2
  <2>4. \A n \in active' : Serves(asks[n])' BY <2>1, <2>2, <2>3 DEF Serves, On
  <2>5. req'[r].pc = "idle" BY <1>0, <2>1 DEF Now, TypeOK, Idle
  <2>6. Sound(req[r])' BY <2>4, <2>5 DEF Sound
  <2> QED BY <2>1, <2>6 DEF EngineInv, AtHome, NoneClosed
<1> QED BY <1>1, <1>2, <1>3, <1>4, <1>5, <1>6, <1>7, <1>8 DEF Publishing

LEMMA EngineStep ==
  ASSUME \A x, y \in Reqs : x = y, ~Crashes, \A p \in GroupPatches : p.status # "off",
         Versions, EngineInv, [Next]_vars
  PROVE  EngineInv'
<1>1. CASE UNCHANGED vars
  <2> SUFFICES ASSUME NEW r \in Reqs PROVE Sound(req[r])'
    BY <1>1 DEF vars, EngineInv, AtHome, NoneClosed
  <2>1. PICK k : k = req[r] OBVIOUS
  <2>2. Sound(k)' BY <1>1, <2>1, SoundStays DEF vars, EngineInv
  <2>3. req'[r] = k BY <1>1, <2>1 DEF vars
  <2> QED BY <2>2, <2>3 DEF Sound
<1>2. ASSUME NEW r \in Reqs, Edits(r) PROVE EngineInv'
  BY <1>2, EngineEdits DEF Versions
<1>3. ASSUME NEW r \in Reqs, Publication(r) PROVE EngineInv'
  BY <1>3, EnginePublication DEF Publication, Crash
<1> QED BY <1>1, <1>2, <1>3 DEF Next

LEMMA EngineInit == Init => EngineInv
<1> SUFFICES ASSUME Init PROVE EngineInv OBVIOUS
<1>1. \A q \in Questions : pool[q].group = Default BY DEF Init
<1>2. group[Default].status = "on" /\ \A g \in Groups : group[g].status # "off"
  BY DefaultAssumption DEF Init
<1>3. AtHome(pool, group) /\ NoneClosed(group) BY <1>1, <1>2 DEF AtHome, NoneClosed
<1>4. active = {1} /\ asks[1] = Frozen(pool, {Default}) BY DEF Init, Only
<1>5. Serves(asks[1]) BY <1>1, <1>4 DEF Serves, Frozen, On
<1>6. \A r \in Reqs : req[r].pc = "idle" BY DEF Init, Idle
<1> QED BY <1>3, <1>4, <1>5, <1>6 DEF EngineInv, Sound

\* One admin alone, whose requests do not die half-way and close no group, leaves the
\* engine its questions: whatever was edited, refused or rolled back, the version that
\* serves asks every question that is on and that the engine reads, behind the gate the
\* pool has.
THEOREM EngineIsServed ==
  ASSUME NEW a, Reqs = {a}, ~Crashes, \A p \in GroupPatches : p.status # "off"
  PROVE  Spec => []EngineInputsServed
<1>1. Versions /\ EngineInv /\ [Next]_vars => EngineInv' BY EngineStep
<1>2. Versions /\ EngineInv => EngineInputsServed
  <2> SUFFICES ASSUME EngineInv, \A r \in Reqs : req[r].pc = "idle"
               PROVE  \A n \in active : Serves(asks[n])
    BY DEF EngineInputsServed, Serves
  <2> QED BY DEF EngineInv, Sound
<1> QED BY InitVersions, VersionsStep, EngineInit, <1>1, <1>2, PTL DEF Spec

-----------------------------------------------------------------------------
(* What is published last                                                    *)

\* One admin publishes the pool it has just read.
UpToDate(m) ==
  /\ m.pc = "questions" => m.groups = GroupsOn
  /\ m.pc \in {"number", "begin", "insert"} => m.asks = Frozen(pool, GroupsOn)
Reading == \A r \in Reqs : UpToDate(req[r])

LEMMA UpToDateNow ==
  ASSUME TypeOK, NEW r \in Reqs, NEW pc, NEW m \in Request, Now(r, pc, m),
         UNCHANGED <<pool, group>>, UpToDate([m EXCEPT !.pc = pc])
  PROVE  UpToDate(req[r])'
<1>1. PICK k : k = [m EXCEPT !.pc = pc] OBVIOUS
<1>2. req'[r] = k BY <1>1 DEF Now, TypeOK
<1>3. On(pool)' = On(pool) /\ GroupsOn' = GroupsOn BY DEF On, GroupsOn
<1>4. Frozen(pool, GroupsOn)' = Frozen(pool, GroupsOn) BY <1>3 DEF Frozen
<1>5. UpToDate(k)' BY <1>1, <1>3, <1>4 DEF UpToDate
<1> QED BY <1>2, <1>5 DEF UpToDate

LEMMA ReadingStep ==
  ASSUME \A x, y \in Reqs : x = y, Versions, Reading, [Next]_vars PROVE Reading'
<1>0. TypeOK BY DEF Versions
<1>1. CASE UNCHANGED vars
  <2> SUFFICES ASSUME NEW r \in Reqs PROVE UpToDate(req[r])' BY DEF Reading
  <2>1. On(pool)' = On(pool) /\ GroupsOn' = GroupsOn BY <1>1 DEF vars, On, GroupsOn
  <2>2. Frozen(pool, GroupsOn)' = Frozen(pool, GroupsOn) BY <1>1, <2>1 DEF vars, Frozen
  <2>3. UpToDate(req[r]) BY DEF Reading
  <2> QED BY <1>1, <2>1, <2>2, <2>3 DEF vars, UpToDate
<1>2. ASSUME NEW r \in Reqs, Edits(r) PROVE Reading'
  <2>1. req'[r].pc \in EditPcs BY <1>0, <1>2, EditsLeave
  <2> QED BY <2>1 DEF Reading, UpToDate, EditPcs
<1>3. ASSUME NEW r \in Reqs, Publication(r) PROVE UpToDate(req[r])'
  <2> DEFINE m == req[r]
  <2>0. m \in Request /\ UpToDate(m) BY <1>0 DEF TypeOK, Reading
  <2>1. CASE ReadGroups(r)
    <3> DEFINE k == [m EXCEPT !.groups = GroupsOn]
    <3>1. /\ k \in Request /\ [k EXCEPT !.pc = "questions"].pc = "questions"
          /\ [k EXCEPT !.pc = "questions"].groups = GroupsOn
      BY <2>0 DEF Request, GroupsOn
    <3>2. UpToDate([k EXCEPT !.pc = "questions"]) BY <3>1 DEF UpToDate
    <3> QED BY <1>0, <2>1, <3>1, <3>2, UpToDateNow DEF ReadGroups
  <2>2. CASE ReadQuestions(r)
    <3> DEFINE k == [m EXCEPT !.asks = Frozen(pool, m.groups)]
    <3>1. m.groups = GroupsOn BY <2>0, <2>2 DEF ReadQuestions, UpToDate
    <3>2. /\ k \in Request /\ [k EXCEPT !.pc = "number"].pc = "number"
          /\ [k EXCEPT !.pc = "number"].asks = Frozen(pool, m.groups)
      BY <1>0, <2>0, FrozenType DEF Request
    <3>3. UpToDate([k EXCEPT !.pc = "number"]) BY <3>1, <3>2 DEF UpToDate
    <3> QED BY <1>0, <2>2, <3>2, <3>3, UpToDateNow DEF ReadQuestions
  <2>3. CASE Number(r)
    <3> DEFINE k == [m EXCEPT !.num = NextNumber]
    <3>1. PICK N \in Nat : N >= 1 /\ DOMAIN asks = 1..N BY DEF Contiguous, Versions
    <3>2. NextNumber \in 0..MaxVersion
      BY <2>3, <3>1, NextNumberIs, BoundAssumption DEF Number
    <3>3. /\ k \in Request /\ [k EXCEPT !.pc = "begin"].pc = "begin"
          /\ [k EXCEPT !.pc = "begin"].asks = m.asks
      BY <2>0, <3>2 DEF Request
    <3>4. UpToDate([k EXCEPT !.pc = "begin"]) BY <2>0, <2>3, <3>3 DEF Number, UpToDate
    <3> QED BY <1>0, <2>3, <3>3, <3>4, UpToDateNow DEF Number
  <2>4. CASE Begin(r)
    <3> DEFINE k == [m EXCEPT !.seen = active]
               pc == IF m.pc = "begin" THEN "insert" ELSE "activate"
    <3>1. /\ k \in Request /\ [k EXCEPT !.pc = pc].pc = pc
          /\ [k EXCEPT !.pc = pc].asks = m.asks
      BY <1>0, <2>0 DEF Request, TypeOK
    <3>2. UpToDate([k EXCEPT !.pc = pc]) BY <2>0, <2>4, <3>1 DEF Begin, UpToDate
    <3> QED BY <1>0, <2>4, <3>1, <3>2, UpToDateNow DEF Begin
  <2>5. CASE (\E n \in Restorable : Rollback(r, n)) \/ Insert(r) \/ NumberTaken(r)
             \/ Activate(r) \/ Crash(r)
    <3>1. req'[r].pc \in {"rollback", "idle"}
      BY <1>0, <2>5 DEF Rollback, Insert, NumberTaken, Activate, Crash, Now, TypeOK, Idle
    <3> QED BY <3>1 DEF UpToDate
  <2> QED BY <1>3, <2>1, <2>2, <2>3, <2>4, <2>5 DEF Publication, Publishing
<1>4. ASSUME NEW r \in Reqs, Publication(r) PROVE Reading'
  BY <1>3, <1>4 DEF Reading
<1> QED BY <1>1, <1>2, <1>4 DEF Next

\* One admin alone publishes the pool as it is when the version is inserted, wherever
\* its requests are refused or die and whatever groups it closes.
THEOREM OneAdminPublishesThePool ==
  ASSUME \A x, y \in Reqs : x = y PROVE Spec => LastOutPublishesThePool
<1>1. Init => Reading BY DEF Init, Reading, UpToDate, Idle
<1>2. Versions /\ Reading /\ [Next]_vars => Reading' BY ReadingStep
<1>3. Reading /\ [Next]_vars => [LastOutPublishes]_vars
  BY DEF Reading, UpToDate, LastOutPublishes, Insert
<1> QED BY InitVersions, VersionsStep, <1>1, <1>2, <1>3, PTL DEF Spec, LastOutPublishesThePool
=============================================================================
