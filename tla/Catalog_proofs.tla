---------------------------- MODULE Catalog_proofs ----------------------------
(* For any number of programs, names, products and admins: types; that a save *)
(* replaces the row its checks were made on; that the audit trail misses       *)
(* nothing but what a crash or a deletion lost and tells of nothing that was   *)
(* not done; and that admins who take turns keep the names in order.  For any  *)
(* list, any number of admins and of readers: types; that a write which        *)
(* nothing overlapped heals the options; and that the question keeps its       *)
(* answers as long as nothing overlaps.                                        *)
EXTENDS Catalog, FiniteSetTheorems, TLAPS

-----------------------------------------------------------------------------
(* The two sides                                                             *)

\* A behaviour of the catalog is one of the programs and one of the list.
LEMMA Apart ==
  /\ CatalogInit => Init /\ List!Init
  /\ [CatalogNext]_allVars => [Next]_vars /\ [List!Next]_list
BY DEF CatalogInit, CatalogNext, allVars

\* What holds of the programs alone holds of them beside the list.
THEOREM ProgramsApart == CatalogSpec => Spec
BY Apart, PTL DEF CatalogSpec, Spec

-----------------------------------------------------------------------------
Creates == {"create", "duplicate"}
Edits == {"update", "toggle"}
Pcs == {"idle", "proof", "free", "activate", "write", "audit", "inUse"}
Quiet == Pcs \ {"audit"}

-----------------------------------------------------------------------------
(* Types                                                                     *)

\* What the fields of a request are fit for at the step it has come to.
Fit(q) ==
  /\ q \in Request
  /\ q.op \in Creates => q.new \in Row /\ q.new.version = 1
  /\ q.op \in Edits => /\ q.id \in Ids /\ q.old \in Row /\ q.new \in Row
                       /\ 1 <= q.seen /\ q.seen <= q.old.version
  /\ q.op = "delete" => q.id \in Ids
  /\ q.op \in {"rule", "link"} => q.name \in Names
  /\ q.op = "productRule" => q.product \in Products
  /\ q.pc = "audit" => q.op \in Edits \cup {"delete"}
  /\ q.pc = "audit" /\ q.op \in Edits => q.seen < MaxVersion

Shape == TypeOK /\ \A r \in Reqs : Fit(req[r])

LEMMA NoneFit == Fit(NoRequest)
BY VersionAssumption DEF Fit, NoRequest, Request, Creates, Edits

\* A request that moves on without writing stays fit.
LEMMA Moved ==
  ASSUME NEW q, Fit(q), NEW pc \in Quiet PROVE Fit([q EXCEPT !.pc = pc])
BY DEF Fit, Request, Quiet, Pcs, Creates, Edits

\* A row is in range.
LEMMA Versions ==
  ASSUME TypeOK, NEW i \in Ids
  PROVE  /\ row[i].version \in 0..MaxVersion
         /\ Exists(i) => row[i] \in Row /\ row[i].version \in 1..MaxVersion
         /\ ~Exists(i) => row[i] = NoRow
BY VersionAssumption DEF TypeOK, Exists, Row, NoRow

\* The steps that leave the rows, the events and the catalog alone.
LEMMA Requested ==
  ASSUME Shape, NEW r \in Reqs, NEW q, Fit(q), req' = [req EXCEPT ![r] = q],
         UNCHANGED <<row, name, product, event, lost>>
  PROVE  Shape'
<1>1. \A s \in Reqs : req'[s] = IF s = r THEN q ELSE req[s] BY DEF Shape, TypeOK
<1>2. \A s \in Reqs : Fit(req'[s]) BY <1>1 DEF Shape
<1>3. req' \in [Reqs -> Request] BY DEF Shape, TypeOK, Fit
<1> QED BY <1>2, <1>3 DEF Shape, TypeOK, Exists, Fit

\* A request to edit a program, as it begins.
LEMMA EditFit ==
  ASSUME NEW op \in Edits, NEW i \in Ids, NEW old \in Row, NEW new \in Row,
         NEW seen \in 1..old.version, NEW pc \in Quiet
  PROVE  Fit([NoRequest EXCEPT !.op = op, !.id = i, !.old = old, !.seen = seen,
                               !.new = new, !.pc = pc])
<1> DEFINE q == [NoRequest EXCEPT !.op = op, !.id = i, !.old = old, !.seen = seen,
                                  !.new = new, !.pc = pc]
<1>1. old.version \in 1..MaxVersion BY DEF Row
<1>2. seen \in 0..MaxVersion /\ 1 <= seen /\ seen <= old.version
  BY <1>1, VersionAssumption
<1>3. NoRequest \in Request BY NoneFit DEF Fit
<1>4. q \in Request BY <1>2, <1>3 DEF Request, Edits, Quiet, Pcs
<1>5. q.op = op /\ q.pc = pc /\ q.id = i /\ q.old = old /\ q.seen = seen /\ q.new = new
  BY <1>3 DEF Request
<1> HIDE DEF q
<1>6. Fit(q) BY <1>2, <1>4, <1>5 DEF Fit, Creates, Edits, Quiet, Pcs
<1> QED BY <1>6 DEF q

\* A request to edit the catalog, as it begins.
LEMMA CatalogFit ==
  ASSUME NEW pc \in Quiet, NEW p \in Proofs \cup {None}
  PROVE  /\ \A n \in Names :
              Fit([NoRequest EXCEPT !.op = "rule", !.name = n, !.rule = p, !.pc = pc])
         /\ \A q \in Products :
              Fit([NoRequest EXCEPT !.op = "productRule", !.product = q, !.rule = p, !.pc = pc])
<1>1. NoRequest \in Request BY NoneFit DEF Fit
<1>2. ASSUME NEW n \in Names
      PROVE  Fit([NoRequest EXCEPT !.op = "rule", !.name = n, !.rule = p, !.pc = pc])
  <2> DEFINE x == [NoRequest EXCEPT !.op = "rule", !.name = n, !.rule = p, !.pc = pc]
  <2>1. x \in Request BY <1>1, <1>2 DEF Request, Quiet, Pcs
  <2>2. x.op = "rule" /\ x.name = n /\ x.pc = pc BY <1>1 DEF Request
  <2> HIDE DEF x
  <2>3. Fit(x) BY <1>2, <2>1, <2>2 DEF Fit, Creates, Edits, Quiet, Pcs
  <2> QED BY <2>3 DEF x
<1>3. ASSUME NEW q \in Products
      PROVE  Fit([NoRequest EXCEPT !.op = "productRule", !.product = q, !.rule = p, !.pc = pc])
  <2> DEFINE x == [NoRequest EXCEPT !.op = "productRule", !.product = q, !.rule = p, !.pc = pc]
  <2>1. x \in Request BY <1>1, <1>3 DEF Request, Quiet, Pcs
  <2>2. x.op = "productRule" /\ x.product = q /\ x.pc = pc BY <1>1 DEF Request
  <2> HIDE DEF x
  <2>3. Fit(x) BY <1>3, <2>1, <2>2 DEF Fit, Creates, Edits, Quiet, Pcs
  <2> QED BY <2>3 DEF x
<1> QED BY <1>2, <1>3

LEMMA StartShape ==
  ASSUME Shape, NEW r \in Reqs,
         \/ StartCreate(r) \/ StartDuplicate(r) \/ StartUpdate(r) \/ StartToggle(r)
         \/ StartDelete(r) \/ StartRule(r) \/ StartProductRule(r) \/ StartLink(r)
  PROVE  Shape'
<1>1. CASE StartCreate(r)
  <2>1. PICK c \in Drafts :
          Begin(r, [NoRequest EXCEPT !.op = "create", !.pc = "proof",
                      !.new = [version |-> 1, active |-> TRUE, content |-> c]])
    BY <1>1 DEF StartCreate
  <2>2. [version |-> 1, active |-> TRUE, content |-> c] \in Row
    BY VersionAssumption DEF Row, Drafts
  <2>3. Fit([NoRequest EXCEPT !.op = "create", !.pc = "proof",
               !.new = [version |-> 1, active |-> TRUE, content |-> c]])
    BY <2>2, NoneFit DEF Fit, NoRequest, Request, Creates, Edits
  <2> QED BY <1>1, <2>1, <2>3, Requested DEF StartCreate, Begin
<1>2. CASE StartDuplicate(r)
  <2>1. PICK i \in Live, n \in Names :
          Begin(r, [NoRequest EXCEPT !.op = "duplicate", !.pc = "free",
                      !.new = [version |-> 1, active |-> FALSE,
                               content |-> [row[i].content EXCEPT !.name = n]]])
    BY <1>2 DEF StartDuplicate
  <2> DEFINE copy == [version |-> 1, active |-> FALSE,
                      content |-> [row[i].content EXCEPT !.name = n]]
  <2>2. row[i] \in Row BY Versions DEF Live, Shape
  <2>3. [row[i].content EXCEPT !.name = n] \in Content BY <2>2 DEF Row, Content
  <2>4. copy \in Row /\ copy.version = 1 BY <2>3, VersionAssumption DEF Row
  <2> HIDE DEF copy
  <2>5. Fit([NoRequest EXCEPT !.op = "duplicate", !.pc = "free", !.new = copy])
    BY <2>4, NoneFit DEF Fit, NoRequest, Request, Creates, Edits
  <2> QED BY <1>2, <2>1, <2>5, Requested DEF StartDuplicate, Begin, copy
<1>3. CASE StartUpdate(r)
  <2>1. PICK i \in Live, c \in Drafts : \E seen \in 1..row[i].version :
          LET old == row[i].content
              new == IF c.bankId = None THEN [c EXCEPT !.bankId = old.bankId] ELSE c
          IN Begin(r, [NoRequest EXCEPT
               !.op = "update", !.id = i, !.old = row[i], !.seen = seen,
               !.new = [row[i] EXCEPT !.content = new],
               !.pc = IF new.name # old.name \/ new.bankId # old.bankId
                      THEN "free" ELSE "proof"])
    BY <1>3 DEF StartUpdate
  <2> DEFINE content == IF c.bankId = None THEN [c EXCEPT !.bankId = row[i].content.bankId] ELSE c
             pc == IF content.name # row[i].content.name \/ content.bankId # row[i].content.bankId
                   THEN "free" ELSE "proof"
             new == [row[i] EXCEPT !.content = content]
  <2>2. PICK seen \in 1..row[i].version :
          Begin(r, [NoRequest EXCEPT !.op = "update", !.id = i, !.old = row[i],
                      !.seen = seen, !.new = new, !.pc = pc])
    BY <2>1
  <2>3. i \in Ids /\ row[i] \in Row /\ row[i].version \in 1..MaxVersion
    BY Versions DEF Live, Shape
  <2>4. content \in Content BY <2>3 DEF Row, Content, Drafts
  <2>5. new \in Row BY <2>3, <2>4 DEF Row
  <2>6. pc \in Quiet BY DEF Quiet, Pcs
  <2> HIDE DEF new, pc, content
  <2>7. Fit([NoRequest EXCEPT !.op = "update", !.id = i, !.old = row[i],
               !.seen = seen, !.new = new, !.pc = pc])
    BY <2>3, <2>5, <2>6, EditFit DEF Edits
  <2> QED BY <1>3, <2>2, <2>7, Requested DEF StartUpdate, Begin
<1>4. CASE StartToggle(r)
  <2>1. PICK i \in Live, on \in BOOLEAN : \E seen \in 1..row[i].version :
          Begin(r, [NoRequest EXCEPT !.op = "toggle", !.id = i, !.old = row[i], !.seen = seen,
                      !.new = [row[i] EXCEPT !.active = on],
                      !.pc = IF on THEN "activate" ELSE "write"])
    BY <1>4 DEF StartToggle
  <2> DEFINE new == [row[i] EXCEPT !.active = on]
             pc == IF on THEN "activate" ELSE "write"
  <2>2. PICK seen \in 1..row[i].version :
          Begin(r, [NoRequest EXCEPT !.op = "toggle", !.id = i, !.old = row[i], !.seen = seen,
                      !.new = new, !.pc = pc])
    BY <2>1
  <2>3. i \in Ids /\ row[i] \in Row /\ row[i].version \in 1..MaxVersion
    BY Versions DEF Live, Shape
  <2>4. new \in Row BY <2>3 DEF Row
  <2>5. pc \in Quiet BY DEF Quiet, Pcs
  <2> HIDE DEF new, pc
  <2>6. Fit([NoRequest EXCEPT !.op = "toggle", !.id = i, !.old = row[i], !.seen = seen,
               !.new = new, !.pc = pc])
    BY <2>3, <2>4, <2>5, EditFit DEF Edits
  <2> QED BY <1>4, <2>2, <2>6, Requested DEF StartToggle, Begin
<1>5. CASE StartDelete(r)
  <2>1. PICK i \in Live : Begin(r, [NoRequest EXCEPT !.op = "delete", !.pc = "write", !.id = i])
    BY <1>5 DEF StartDelete
  <2>2. Fit([NoRequest EXCEPT !.op = "delete", !.pc = "write", !.id = i])
    BY NoneFit DEF Fit, NoRequest, Request, Creates, Edits, Live
  <2> QED BY <1>5, <2>1, <2>2, Requested DEF StartDelete, Begin
<1>6. CASE StartRule(r)
  <2>1. PICK n \in Names, p \in Proofs \cup {None} :
          Begin(r, [NoRequest EXCEPT !.op = "rule", !.name = n, !.rule = p,
                      !.pc = IF p # name[n].own THEN "inUse" ELSE "write"])
    BY <1>6 DEF StartRule
  <2> DEFINE pc == IF p # name[n].own THEN "inUse" ELSE "write"
  <2>2. pc \in Quiet BY DEF Quiet, Pcs
  <2> HIDE DEF pc
  <2>3. Fit([NoRequest EXCEPT !.op = "rule", !.name = n, !.rule = p, !.pc = pc])
    BY <2>2, CatalogFit
  <2> QED BY <1>6, <2>1, <2>3, Requested DEF StartRule, Begin, pc
<1>7. CASE StartProductRule(r)
  <2>1. PICK q \in Products, p \in Proofs \cup {None} :
          Begin(r, [NoRequest EXCEPT !.op = "productRule", !.product = q, !.rule = p,
                      !.pc = IF p # product[q] THEN "inUse" ELSE "write"])
    BY <1>7 DEF StartProductRule
  <2> DEFINE pc == IF p # product[q] THEN "inUse" ELSE "write"
  <2>2. pc \in Quiet BY DEF Quiet, Pcs
  <2> HIDE DEF pc
  <2>3. Fit([NoRequest EXCEPT !.op = "productRule", !.product = q, !.rule = p, !.pc = pc])
    BY <2>2, CatalogFit
  <2> QED BY <1>7, <2>1, <2>3, Requested DEF StartProductRule, Begin, pc
<1>8. CASE StartLink(r)
  <2>1. PICK n \in Names, q \in Products \cup {None} :
          Begin(r, [NoRequest EXCEPT !.op = "link", !.pc = "write", !.name = n, !.product = q])
    BY <1>8 DEF StartLink
  <2>2. Fit([NoRequest EXCEPT !.op = "link", !.pc = "write", !.name = n, !.product = q])
    BY NoneFit DEF Fit, NoRequest, Request, Creates, Edits
  <2> QED BY <1>8, <2>1, <2>2, Requested DEF StartLink, Begin
<1> QED BY <1>1, <1>2, <1>3, <1>4, <1>5, <1>6, <1>7, <1>8

\* The checks, which let a request on or end it.
Checks(r) == CheckNameFree(r) \/ CheckProof(r) \/ CheckActivatable(r) \/ CheckInUse(r)

LEMMA CheckShape == ASSUME Shape, NEW r \in Reqs, Checks(r) PROVE Shape'
<1>1. UNCHANGED <<row, name, product, event, lost>>
  BY DEF Checks, CheckNameFree, CheckProof, CheckActivatable, CheckInUse
<1>2. End(r) \/ \E pc \in Quiet : Goto(r, pc)
  BY DEF Checks, CheckNameFree, CheckProof, CheckActivatable, CheckInUse, Quiet, Pcs
<1>3. CASE End(r) BY <1>1, <1>3, NoneFit, Requested DEF End
<1>4. ASSUME NEW pc \in Quiet, Goto(r, pc) PROVE Shape'
  <2>1. Fit([req[r] EXCEPT !.pc = pc]) BY Moved DEF Shape
  <2>2. req' = [req EXCEPT ![r] = [req[r] EXCEPT !.pc = pc]] BY <1>4 DEF Goto
  <2> HIDE DEF Shape
  <2> QED BY <1>1, <2>1, <2>2, Requested
<1> QED BY <1>2, <1>3, <1>4

\* What a save writes is a row, one version on.
LEMMA WrittenType ==
  ASSUME Shape, NEW r \in Reqs, Save(r), Matches(r)
  PROVE  /\ req[r].id \in Ids /\ Written(r) \in Row
         /\ row[req[r].id].version \in 1..MaxVersion
         /\ Written(r).version = row[req[r].id].version + 1
         /\ Written(r).version \in 1..MaxVersion
         /\ req[r].seen = row[req[r].id].version
<1> DEFINE now == row[req[r].id]
           next == [now EXCEPT !.version = @ + 1]
<1>1. req[r].id \in Ids /\ req[r].new \in Row
  BY DEF Shape, Fit, Save, Edits
<1>2. now \in Row /\ now.version \in 1..MaxVersion
  BY <1>1, Versions DEF Shape, Matches
<1>3. now.version < MaxVersion BY DEF Save
<1>4. next \in Row /\ next.version = now.version + 1 /\ next.version \in 1..MaxVersion
  BY <1>2, <1>3, VersionAssumption DEF Row
<1> HIDE DEF next
<1>5. Written(r) = IF req[r].op = "update" THEN [next EXCEPT !.content = req[r].new.content]
                                           ELSE [next EXCEPT !.active = req[r].new.active]
  BY DEF Written, next
<1> QED BY <1>1, <1>2, <1>4, <1>5 DEF Row, Matches

\* The writes.
Writes(r) == Insert(r) \/ Save(r) \/ Delete(r) \/ Audit(r) \/ WriteCatalog(r)

\* What a request is about to tell of is an event.
LEMMA TellingType ==
  ASSUME Shape, NEW r \in Reqs, req[r].pc = "audit"
  PROVE  Telling(r) \in Ids \X (0..MaxVersion)
<1>1. Fit(req[r]) /\ req[r] \in Request BY DEF Shape, TypeOK
<1>2. CASE req[r].op = "delete"
  BY <1>1, <1>2, VersionAssumption DEF Fit, Telling
<1>3. CASE req[r].op # "delete"
  <2>1. req[r].id \in Ids /\ req[r].seen < MaxVersion /\ req[r].seen \in 0..MaxVersion
    BY <1>1, <1>3 DEF Fit, Request
  <2>2. req[r].seen + 1 \in 0..MaxVersion BY <2>1, VersionAssumption
  <2> QED BY <1>3, <2>1, <2>2 DEF Telling
<1> QED BY <1>2, <1>3

LEMMA EndShape ==
  ASSUME Shape, NEW r \in Reqs, End(r)
  PROVE  req' \in [Reqs -> Request] /\ \A s \in Reqs : Fit(req'[s])
<1>1. \A s \in Reqs : req'[s] = IF s = r THEN NoRequest ELSE req[s] BY DEF Shape, TypeOK, End
<1>2. \A s \in Reqs : Fit(req'[s]) BY <1>1, NoneFit DEF Shape
<1>3. NoRequest \in Request BY NoneFit DEF Fit
<1> QED BY <1>2, <1>3 DEF Shape, TypeOK, End

LEMMA WriteShape == ASSUME Shape, NEW r \in Reqs, Writes(r) PROVE Shape'
<1>1. CASE Insert(r)
  <2>1. PICK i \in Ids : /\ row' = [row EXCEPT ![i] = req[r].new]
                         /\ event' = event \cup {<<i, 1>>}
    BY <1>1 DEF Insert
  <2>2. req[r].new \in Row BY <1>1 DEF Insert, Shape, Fit, Creates
  <2>3. row' \in [Ids -> Row \cup {NoRow}] BY <2>1, <2>2 DEF Shape, TypeOK
  <2>4. event' \subseteq Ids \X (0..MaxVersion)
    <3>1. 1 \in 0..MaxVersion BY VersionAssumption
    <3> QED BY <2>1, <3>1 DEF Shape, TypeOK
  <2> QED BY <1>1, <2>3, <2>4, EndShape DEF Insert, Shape, TypeOK
<1>2. CASE Save(r) /\ Matches(r)
  <2>1. /\ row' = [row EXCEPT ![req[r].id] = Written(r)] /\ Goto(r, "audit")
        /\ row[req[r].id].version < MaxVersion
        /\ req[r].op \in Edits
    BY <1>2 DEF Save, Edits
  <2>2. row' \in [Ids -> Row \cup {NoRow}] BY <1>2, <2>1, WrittenType DEF Shape, TypeOK
  <2>3. req[r].seen < MaxVersion BY <1>2, <2>1, WrittenType
  <2> DEFINE q == [req[r] EXCEPT !.pc = "audit"]
  <2>4. Fit(req[r]) BY DEF Shape
  <2>5. Fit(q) BY <2>1, <2>3, <2>4 DEF Fit, Request, Creates, Edits
  <2>6. req' = [req EXCEPT ![r] = q] BY <2>1 DEF Goto
  <2> HIDE DEF q
  <2>7. \A s \in Reqs : req'[s] = IF s = r THEN q ELSE req[s] BY <2>6 DEF Shape, TypeOK
  <2>8. \A s \in Reqs : Fit(req'[s]) BY <2>5, <2>7 DEF Shape
  <2>9. req' \in [Reqs -> Request] BY <2>5, <2>6 DEF Shape, TypeOK, Fit
  <2> QED BY <1>2, <2>2, <2>8, <2>9 DEF Save, Shape, TypeOK
<1>3. CASE Save(r) /\ ~Matches(r)
  BY <1>3, EndShape DEF Save, Shape, TypeOK
<1>4. CASE Delete(r) /\ Exists(req[r].id)
  <2>1. row' = [row EXCEPT ![req[r].id] = NoRow] /\ Goto(r, "audit") /\ req[r].op = "delete"
    BY <1>4 DEF Delete
  <2>2. row' \in [Ids -> Row \cup {NoRow}] BY <2>1 DEF Shape, TypeOK
  <2> DEFINE q == [req[r] EXCEPT !.pc = "audit"]
  <2>3. Fit(req[r]) BY DEF Shape
  <2>4. Fit(q) BY <2>1, <2>3 DEF Fit, Request, Creates, Edits
  <2>5. req' = [req EXCEPT ![r] = q] BY <2>1 DEF Goto
  <2> HIDE DEF q
  <2>6. \A s \in Reqs : req'[s] = IF s = r THEN q ELSE req[s] BY <2>5 DEF Shape, TypeOK
  <2>7. \A s \in Reqs : Fit(req'[s]) BY <2>4, <2>6 DEF Shape
  <2>8. req' \in [Reqs -> Request] BY <2>4, <2>5 DEF Shape, TypeOK, Fit
  <2> QED BY <1>4, <2>2, <2>7, <2>8 DEF Delete, Shape, TypeOK
<1>5. CASE Delete(r) /\ ~Exists(req[r].id)
  BY <1>5, EndShape DEF Delete, Shape, TypeOK
<1>6. CASE Audit(r)
  <2>1. Telling(r) \in Ids \X (0..MaxVersion) BY <1>6, TellingType DEF Audit
  <2> QED BY <1>6, <2>1, EndShape DEF Audit, Shape, TypeOK
<1>7. CASE WriteCatalog(r)
  <2>1. Fit(req[r]) BY DEF Shape
  <2>2. name' \in [Names -> NameRow] /\ product' \in [Products -> Proofs \cup {None}]
    BY <1>7, <2>1 DEF WriteCatalog, Fit, Request, Shape, TypeOK, NameRow
  <2> QED BY <1>7, <2>2, EndShape DEF WriteCatalog, Shape, TypeOK
<1> QED BY <1>1, <1>2, <1>3, <1>4, <1>5, <1>6, <1>7 DEF Writes

LEMMA CrashShape == ASSUME Shape, Crash PROVE Shape'
<1>1. \A s \in Reqs : req'[s] = NoRequest BY DEF Crash
<1>2. req' \in [Reqs -> Request] /\ \A s \in Reqs : Fit(req'[s])
  BY <1>1, NoneFit DEF Crash, Fit
<1>3. lost' \subseteq Ids \X (0..MaxVersion)
  BY TellingType DEF Crash, Shape, TypeOK
<1> QED BY <1>2, <1>3 DEF Crash, Shape, TypeOK

\* Every step is a request's or a crash.
LEMMA NextCases ==
  ASSUME Next
  PROVE  \/ \E r \in Reqs :
              \/ \/ StartCreate(r) \/ StartDuplicate(r) \/ StartUpdate(r) \/ StartToggle(r)
                 \/ StartDelete(r) \/ StartRule(r) \/ StartProductRule(r) \/ StartLink(r)
              \/ Checks(r) \/ Writes(r)
         \/ Crash
BY DEF Next, Work, Checks, Writes

LEMMA ShapeStep == ASSUME Shape, [Next]_vars PROVE Shape'
<1>1. CASE Next
  BY <1>1, NextCases, StartShape, CheckShape, WriteShape, CrashShape
<1>2. CASE UNCHANGED vars
  BY <1>2 DEF vars, Shape, TypeOK
<1> QED BY <1>1, <1>2

LEMMA InitShape == Init => Shape
<1> SUFFICES ASSUME Init PROVE Shape OBVIOUS
<1>1. \A r \in Reqs : req[r] = NoRequest BY DEF Init
<1>2. req \in [Reqs -> Request] /\ \A r \in Reqs : Fit(req[r])
  BY <1>1, NoneFit DEF Init, Fit
<1> QED BY <1>2 DEF Init, Shape, TypeOK

\* Rows, catalog, events and requests keep their shape.
THEOREM TypeCorrect == Spec => []TypeOK
<1>1. Shape => TypeOK BY DEF Shape
<1> QED BY <1>1, InitShape, ShapeStep, PTL DEF Spec

-----------------------------------------------------------------------------
(* What a request has read is what it replaces: versions only rise, a row    *)
(* keeps its content while it keeps its version, and a code is not used      *)
(* again, for its first event stays.                                         *)

\* Every program, and every program an event is about, was created with an event.
Born ==
  /\ \A i \in Ids : Exists(i) => <<i, 1>> \in event
  /\ \A e \in event : <<e[1], 1>> \in event

\* The program of a request was created, it has not gone back, and at the version that
\* was read it is what was read.
Current(r) ==
  req[r].op \in Edits =>
    /\ <<req[r].id, 1>> \in event
    /\ Exists(req[r].id) =>
         IF req[r].pc = "audit" THEN req[r].seen < row[req[r].id].version
         ELSE /\ req[r].old.version <= row[req[r].id].version
              /\ req[r].old.version = row[req[r].id].version => row[req[r].id] = req[r].old

\* A deletion that is about to be told has been made, and stands.
Gone(r) ==
  req[r].op = "delete" /\ req[r].pc = "audit" =>
    <<req[r].id, 1>> \in event /\ ~Exists(req[r].id)

History == Shape /\ Born /\ \A r \in Reqs : Current(r) /\ Gone(r)

\* The steps that neither write nor end an edit's checks: every request keeps what it
\* holds, or is dropped, or is newly read.
Read(q) ==
  /\ q.pc # "audit"
  /\ q.op \in Edits => Exists(q.id) /\ q.old = row[q.id]

LEMMA ReadHistory ==
  ASSUME History, Shape', NEW r \in Reqs, NEW q, Fit(q), Read(q), req' = [req EXCEPT ![r] = q],
         UNCHANGED <<row, event>>
  PROVE  History'
<1>1. \A s \in Reqs : req'[s] = IF s = r THEN q ELSE req[s] BY DEF History, Shape, TypeOK
<1>2. Born' BY DEF History, Born, Exists
<1>3. (Current(r) /\ Gone(r))'
  <2>1. q.op \in Edits => /\ q.id \in Ids /\ q.old \in Row /\ q.pc # "audit"
                          /\ Exists(q.id) /\ q.old = row[q.id]
    BY DEF Fit, Read
  <2>2. q.op \in Edits => q.old.version \in 1..MaxVersion BY <2>1 DEF Row
  <2> QED BY <1>1, <2>1, <2>2, VersionAssumption DEF History, Born, Current, Gone, Read, Exists
<1>4. ASSUME NEW s \in Reqs, s # r PROVE (Current(s) /\ Gone(s))'
  BY <1>1, <1>4 DEF History, Current, Gone, Exists
<1> QED BY <1>2, <1>3, <1>4 DEF History

\* A request that moves on without writing keeps what it holds.
LEMMA MovedHistory ==
  ASSUME History, Shape', NEW r \in Reqs, NEW pc \in Quiet, req[r].pc # "audit", Goto(r, pc),
         UNCHANGED <<row, event>>
  PROVE  History'
<1>1. \A s \in Reqs : req'[s] = IF s = r THEN [req[r] EXCEPT !.pc = pc] ELSE req[s]
  BY DEF History, Shape, TypeOK, Goto
<1>2. Born' BY DEF History, Born, Exists
<1>3. (Current(r) /\ Gone(r))'
  <2>1. req[r] \in Request BY DEF History, Shape, TypeOK
  <2>2. req'[r].pc = pc /\ req'[r].op = req[r].op /\ req'[r].id = req[r].id
        /\ req'[r].old = req[r].old /\ req'[r].seen = req[r].seen
    BY <1>1, <2>1 DEF Request
  <2> QED BY <2>2 DEF History, Current, Gone, Exists, Quiet
<1>4. ASSUME NEW s \in Reqs, s # r PROVE (Current(s) /\ Gone(s))'
  BY <1>1, <1>4 DEF History, Current, Gone, Exists
<1> QED BY <1>2, <1>3, <1>4 DEF History

LEMMA NoneRead == Read(NoRequest)
BY DEF Read, NoRequest, Edits

LEMMA StartRead ==
  ASSUME NEW r \in Reqs,
         \/ StartCreate(r) \/ StartDuplicate(r) \/ StartUpdate(r) \/ StartToggle(r)
         \/ StartDelete(r) \/ StartRule(r) \/ StartProductRule(r) \/ StartLink(r)
  PROVE  \E q : Read(q) /\ req' = [req EXCEPT ![r] = q]
<1>1. CASE StartCreate(r)
  BY <1>1 DEF StartCreate, Begin, Read, NoRequest, Edits
<1>2. CASE StartDuplicate(r)
  BY <1>2 DEF StartDuplicate, Begin, Read, NoRequest, Edits
<1>3. CASE StartUpdate(r)
  <2>1. PICK i \in Live, c \in Drafts : \E seen \in 1..row[i].version :
          LET old == row[i].content
              new == IF c.bankId = None THEN [c EXCEPT !.bankId = old.bankId] ELSE c
          IN Begin(r, [NoRequest EXCEPT
               !.op = "update", !.id = i, !.old = row[i], !.seen = seen,
               !.new = [row[i] EXCEPT !.content = new],
               !.pc = IF new.name # old.name \/ new.bankId # old.bankId
                      THEN "free" ELSE "proof"])
    BY <1>3 DEF StartUpdate
  <2> DEFINE content == IF c.bankId = None THEN [c EXCEPT !.bankId = row[i].content.bankId]
                                           ELSE c
             pc == IF content.name # row[i].content.name
                      \/ content.bankId # row[i].content.bankId
                   THEN "free" ELSE "proof"
             new == [row[i] EXCEPT !.content = content]
  <2>2. PICK seen \in 1..row[i].version :
          Begin(r, [NoRequest EXCEPT !.op = "update", !.id = i, !.old = row[i],
                      !.seen = seen, !.new = new, !.pc = pc])
    BY <2>1
  <2>3. pc # "audit" OBVIOUS
  <2> HIDE DEF pc, new, content
  <2> DEFINE q == [NoRequest EXCEPT !.op = "update", !.id = i, !.old = row[i], !.seen = seen,
                      !.new = new, !.pc = pc]
  <2>4. q.pc = pc /\ q.id = i /\ q.old = row[i] BY DEF NoRequest
  <2> HIDE DEF q
  <2>5. Read(q) BY <2>3, <2>4 DEF Read, Live
  <2> QED BY <2>2, <2>5 DEF Begin, q
<1>4. CASE StartToggle(r)
  <2>1. PICK i \in Live, on \in BOOLEAN : \E seen \in 1..row[i].version :
          Begin(r, [NoRequest EXCEPT !.op = "toggle", !.id = i, !.old = row[i], !.seen = seen,
                      !.new = [row[i] EXCEPT !.active = on],
                      !.pc = IF on THEN "activate" ELSE "write"])
    BY <1>4 DEF StartToggle
  <2> DEFINE pc == IF on THEN "activate" ELSE "write"
             new == [row[i] EXCEPT !.active = on]
  <2>2. PICK seen \in 1..row[i].version :
          Begin(r, [NoRequest EXCEPT !.op = "toggle", !.id = i, !.old = row[i], !.seen = seen,
                      !.new = new, !.pc = pc])
    BY <2>1
  <2>3. pc # "audit" OBVIOUS
  <2> HIDE DEF pc, new
  <2> DEFINE q == [NoRequest EXCEPT !.op = "toggle", !.id = i, !.old = row[i], !.seen = seen,
                      !.new = new, !.pc = pc]
  <2>4. q.pc = pc /\ q.id = i /\ q.old = row[i] BY DEF NoRequest
  <2> HIDE DEF q
  <2>5. Read(q) BY <2>3, <2>4 DEF Read, Live
  <2> QED BY <2>2, <2>5 DEF Begin, q
<1>5. CASE StartDelete(r)
  BY <1>5 DEF StartDelete, Begin, Read, NoRequest, Edits
<1>6. CASE StartRule(r)
  BY <1>6 DEF StartRule, Begin, Read, NoRequest, Edits
<1>7. CASE StartProductRule(r)
  BY <1>7 DEF StartProductRule, Begin, Read, NoRequest, Edits
<1>8. CASE StartLink(r)
  BY <1>8 DEF StartLink, Begin, Read, NoRequest, Edits
<1> QED BY <1>1, <1>2, <1>3, <1>4, <1>5, <1>6, <1>7, <1>8

LEMMA StartHistory ==
  ASSUME History, Shape', NEW r \in Reqs,
         \/ StartCreate(r) \/ StartDuplicate(r) \/ StartUpdate(r) \/ StartToggle(r)
         \/ StartDelete(r) \/ StartRule(r) \/ StartProductRule(r) \/ StartLink(r)
  PROVE  History'
<1>1. UNCHANGED <<row, event>>
  BY DEF StartCreate, StartDuplicate, StartUpdate, StartToggle, StartDelete, StartRule,
         StartProductRule, StartLink
<1>2. \E q : Read(q) /\ req' = [req EXCEPT ![r] = q] BY StartRead
<1>3. PICK q : Read(q) /\ req' = [req EXCEPT ![r] = q] BY <1>2
<1>4. Fit(q)
  <2>1. req'[r] = q BY <1>3 DEF History, Shape, TypeOK
  <2>2. Fit(req[r])' BY DEF Shape
  <2> QED BY <2>1, <2>2 DEF Fit
<1> QED BY <1>1, <1>3, <1>4, ReadHistory

LEMMA CheckHistory ==
  ASSUME History, Shape', NEW r \in Reqs, Checks(r) PROVE History'
<1>1. UNCHANGED <<row, event>> /\ req[r].pc # "audit"
  BY DEF Checks, CheckNameFree, CheckProof, CheckActivatable, CheckInUse
<1>2. End(r) \/ \E pc \in Quiet : Goto(r, pc)
  BY DEF Checks, CheckNameFree, CheckProof, CheckActivatable, CheckInUse, Quiet, Pcs
<1>3. CASE End(r) BY <1>1, <1>3, NoneFit, NoneRead, ReadHistory DEF End
<1>4. ASSUME NEW pc \in Quiet, Goto(r, pc) PROVE History'
  BY <1>1, <1>4, MovedHistory
<1> QED BY <1>2, <1>3, <1>4

\* A request that ends holds nothing any more.
LEMMA Ended ==
  ASSUME Shape, NEW r \in Reqs, End(r)
  PROVE  \A s \in Reqs : req'[s] = IF s = r THEN NoRequest ELSE req[s]
BY DEF Shape, TypeOK, End

LEMMA WriteHistory ==
  ASSUME History, Shape', NEW r \in Reqs, Writes(r) PROVE History'
<1>0. Shape /\ \A s \in Reqs : Fit(req[s]) BY DEF History, Shape
<1>1. CASE Insert(r)
  <2>1. PICK i \in Ids : /\ ~Exists(i) /\ <<i, 1>> \notin event
                         /\ row' = [row EXCEPT ![i] = req[r].new]
                         /\ event' = event \cup {<<i, 1>>}
    BY <1>1 DEF Insert
  <2>2. \A j \in Ids : j # i => row'[j] = row[j] BY <2>1 DEF Shape, TypeOK, History
  <2>3. \A s \in Reqs : req'[s] = IF s = r THEN NoRequest ELSE req[s]
    BY <1>0, <1>1, Ended DEF Insert
  <2>4. Born'
    <3>1. \A j \in Ids : Exists(j)' => <<j, 1>> \in event'
      BY <2>1, <2>2 DEF Exists, History, Born
    <3>2. ASSUME NEW e \in event' PROVE <<e[1], 1>> \in event'
      <4>1. CASE e \in event BY <2>1, <4>1 DEF History, Born
      <4>2. CASE e = <<i, 1>>
        <5>1. e[1] = i BY <4>2
        <5> QED BY <2>1, <5>1
      <4> QED BY <2>1, <4>1, <4>2
    <3> QED BY <3>1, <3>2 DEF Born
  <2>5. ASSUME NEW s \in Reqs PROVE (Current(s) /\ Gone(s))'
    <3>1. CASE s = r BY <2>3, <3>1 DEF Current, Gone, NoRequest, Edits
    <3>2. CASE s # r
      <4>1. req'[s] = req[s] BY <2>3, <3>2
      <4>2. (req[s].op \in Edits \/ (req[s].op = "delete" /\ req[s].pc = "audit")) =>
              req[s].id \in Ids /\ req[s].id # i
        BY <1>0, <2>1 DEF Fit, History, Current, Gone
      <4> QED BY <2>1, <2>2, <4>1, <4>2 DEF History, Current, Gone, Exists
    <3> QED BY <3>1, <3>2
  <2> QED BY <2>4, <2>5 DEF History
<1>2. CASE Save(r) /\ Matches(r)
  <2>0. PICK i \in Ids : i = req[r].id BY <1>0, <1>2, WrittenType
  <2>1. /\ row' = [row EXCEPT ![i] = Written(r)] /\ Goto(r, "audit")
        /\ req[r].op \in Edits /\ UNCHANGED event /\ Exists(i)
    BY <1>2, <2>0 DEF Save, Edits, Matches
  <2>2. /\ i \in Ids /\ Written(r) \in Row
        /\ row[i].version \in 1..MaxVersion /\ Written(r).version = row[i].version + 1
        /\ req[r].seen = row[i].version
    BY <1>0, <1>2, <2>0, WrittenType
  <2>3. \A j \in Ids : row'[j] = IF j = i THEN Written(r) ELSE row[j]
    BY <2>1 DEF Shape, TypeOK, History
  <2>4. Exists(i)' BY <2>2, <2>3, VersionAssumption DEF Exists
  <2>5. Born' BY <2>1, <2>3 DEF Born, History, Exists
  <2>6. ASSUME NEW s \in Reqs PROVE (Current(s) /\ Gone(s))'
    <3>1. CASE s = r
      <4>1. req'[r] = [req[r] EXCEPT !.pc = "audit"] BY <2>1 DEF Goto, Shape, TypeOK, History
      <4>2. req[r] \in Request BY <1>0 DEF Shape, TypeOK
      <4>3. req'[r].pc = "audit" /\ req'[r].id = i /\ req'[r].op \in Edits
            /\ req'[r].seen = row[i].version
        BY <2>0, <2>1, <2>2, <4>1, <4>2 DEF Request
      <4>4. <<i, 1>> \in event BY <2>0, <2>1 DEF History, Current
      <4> QED BY <2>1, <2>2, <2>3, <3>1, <4>3, <4>4, VersionAssumption
              DEF Current, Gone, Edits
    <3>2. CASE s # r
      <4>1. req'[s] = req[s] BY <2>1, <3>2 DEF Goto, Shape, TypeOK, History
      <4>2. Current(s) /\ Gone(s) /\ Fit(req[s]) BY <1>0 DEF History
      <4>3. Gone(s)'
        BY <2>1, <2>3, <4>1, <4>2 DEF Gone, Exists, Fit
      <4>4. Current(s)'
        <5>1. CASE req[s].op \in Edits /\ req[s].id = i
          <6>1. req[s].old.version \in 1..MaxVersion /\ req[s].seen \in 0..MaxVersion
            BY <4>2, <5>1 DEF Fit, Row, Request
          <6> QED BY <2>1, <2>2, <2>3, <4>1, <4>2, <5>1, <6>1, VersionAssumption DEF Current
        <5>2. CASE req[s].op \in Edits /\ req[s].id # i
          BY <2>1, <2>3, <4>1, <4>2, <5>2 DEF Current, Exists, Fit
        <5>3. CASE req[s].op \notin Edits BY <4>1, <5>3 DEF Current
        <5> QED BY <5>1, <5>2, <5>3
      <4> QED BY <4>3, <4>4
    <3> QED BY <3>1, <3>2
  <2> QED BY <2>5, <2>6 DEF History
<1>3. CASE Save(r) /\ ~Matches(r)
  BY <1>3, NoneFit, NoneRead, ReadHistory DEF Save, End
<1>4. CASE Delete(r) /\ Exists(req[r].id)
  <2>0. PICK i \in Ids : i = req[r].id BY <1>0, <1>4 DEF Fit, Delete
  <2>1. /\ row' = [row EXCEPT ![i] = NoRow] /\ Goto(r, "audit")
        /\ req[r].op = "delete" /\ UNCHANGED event /\ Exists(i)
    BY <1>4, <2>0 DEF Delete
  <2>2. i \in Ids OBVIOUS
  <2>3. <<i, 1>> \in event BY <2>1, <2>2 DEF History, Born
  <2>4. \A j \in Ids : row'[j] = IF j = i THEN NoRow ELSE row[j]
    BY <2>1 DEF Shape, TypeOK, History
  <2>5. ~Exists(i)' BY <2>2, <2>4 DEF Exists, NoRow
  <2>6. Born'
    <3>1. \A j \in Ids : Exists(j)' => <<j, 1>> \in event'
      BY <2>1, <2>4, <2>5 DEF Exists, History, Born
    <3> QED BY <2>1, <3>1 DEF Born, History
  <2>7. ASSUME NEW s \in Reqs PROVE (Current(s) /\ Gone(s))'
    <3>1. CASE s = r
      <4>1. req'[r] = [req[r] EXCEPT !.pc = "audit"] BY <2>1 DEF Goto, Shape, TypeOK, History
      <4>2. req[r] \in Request BY <1>0 DEF Shape, TypeOK
      <4>3. req'[r].pc = "audit" /\ req'[r].id = i /\ req'[r].op = "delete"
        BY <2>0, <2>1, <4>1, <4>2 DEF Request
      <4> QED BY <2>1, <2>3, <2>5, <3>1, <4>3 DEF Current, Gone, Edits
    <3>2. CASE s # r
      <4>1. req'[s] = req[s] BY <2>1, <3>2 DEF Goto, Shape, TypeOK, History
      <4>2. Current(s) /\ Gone(s) /\ Fit(req[s]) BY <1>0 DEF History
      <4>3. CASE req[s].id = i
        BY <2>1, <2>5, <4>1, <4>2, <4>3 DEF Current, Gone
      <4>4. CASE req[s].id # i
        BY <2>1, <2>4, <4>1, <4>2, <4>4 DEF Current, Gone, Exists, Fit
      <4> QED BY <4>3, <4>4
    <3> QED BY <3>1, <3>2
  <2> QED BY <2>6, <2>7 DEF History
<1>5. CASE Delete(r) /\ ~Exists(req[r].id)
  BY <1>5, NoneFit, NoneRead, ReadHistory DEF Delete, End
<1>6. CASE Audit(r)
  <2>1. UNCHANGED row /\ event' \subseteq event \cup {Telling(r)} /\ event \subseteq event'
    BY <1>6 DEF Audit
  <2>2. \A s \in Reqs : req'[s] = IF s = r THEN NoRequest ELSE req[s]
    BY <1>0, <1>6, Ended DEF Audit
  <2>3. Telling(r)[1] = req[r].id BY DEF Telling
  <2>4. <<req[r].id, 1>> \in event BY <1>0, <1>6 DEF Audit, Fit, History, Current, Gone
  <2>5. Born' BY <2>1, <2>3, <2>4 DEF Born, History, Exists
  <2>6. ASSUME NEW s \in Reqs PROVE (Current(s) /\ Gone(s))'
    <3>1. CASE s = r BY <2>2, <3>1 DEF Current, Gone, NoRequest, Edits
    <3>2. CASE s # r BY <2>1, <2>2, <3>2 DEF History, Current, Gone, Exists
    <3> QED BY <3>1, <3>2
  <2> QED BY <2>5, <2>6 DEF History
<1>7. CASE WriteCatalog(r)
  BY <1>7, NoneFit, NoneRead, ReadHistory DEF WriteCatalog, End
<1> QED BY <1>1, <1>2, <1>3, <1>4, <1>5, <1>6, <1>7 DEF Writes

LEMMA HistoryStep == ASSUME History, [Next]_vars PROVE History'
<1>1. Shape' BY ShapeStep DEF History
<1>2. CASE Crash
  <2>1. \A s \in Reqs : req'[s] = NoRequest BY <1>2 DEF Crash
  <2>2. Born' BY <1>2 DEF Crash, Born, History, Exists
  <2>3. \A s \in Reqs : (Current(s) /\ Gone(s))'
    BY <2>1 DEF Current, Gone, NoRequest, Edits
  <2> QED BY <1>1, <2>2, <2>3 DEF History
<1>3. CASE UNCHANGED vars
  BY <1>1, <1>3 DEF vars, History, Born, Current, Gone, Exists
<1> QED BY <1>1, <1>2, <1>3, NextCases, StartHistory, CheckHistory, WriteHistory

LEMMA InitHistory == Init => History
<1> SUFFICES ASSUME Init PROVE History OBVIOUS
<1>1. \A r \in Reqs : req[r] = NoRequest BY DEF Init
<1>2. \A r \in Reqs : Current(r) /\ Gone(r) BY <1>1 DEF Current, Gone, NoRequest, Edits
<1>3. Born BY DEF Init, Born, Exists, NoRow
<1> QED BY <1>2, <1>3, InitShape DEF History

\* However many saves, switches and deletions race, a save replaces the row that its
\* checks were made on (updateWithVersion, toggleWithVersion).
THEOREM SavesAreCurrent == Spec => DecidedOnTheRowReplaced
<1>1. ASSUME History, NEW r \in Reqs, Save(r), Matches(r)
      PROVE  row[req[r].id] = req[r].old
  <2>1. /\ req[r].op \in Edits /\ req[r].pc = "write" /\ Exists(req[r].id)
        /\ row[req[r].id].version = req[r].seen
    BY <1>1 DEF Save, Matches, Edits
  <2>2. req[r].seen <= req[r].old.version /\ req[r].old.version \in 1..MaxVersion
        /\ req[r].seen \in 0..MaxVersion
    BY <1>1, <2>1 DEF History, Shape, TypeOK, Fit, Row, Request
  <2>3. req[r].old.version <= row[req[r].id].version
        /\ (req[r].old.version = row[req[r].id].version => row[req[r].id] = req[r].old)
    BY <1>1, <2>1 DEF History, Current
  <2> QED BY <2>1, <2>2, <2>3, VersionAssumption
<1>2. History =>
        [\A r \in Reqs : Save(r) /\ Matches(r) => row[req[r].id] = req[r].old]_vars
  BY <1>1
<1> QED BY <1>2, InitHistory, HistoryStep, PTL DEF Spec, DecidedOnTheRowReplaced

-----------------------------------------------------------------------------
(* The trail: what a request is about to tell counts as told from the write  *)
(* of the row on, so that storing the event, and losing it, change nothing.  *)

Auditing == {r \in Reqs : req[r].pc = "audit"}
Told == event \cup lost \cup {Telling(r) : r \in Auditing}

Trail ==
  \A i \in Ids :
    /\ Exists(i) => \A v \in 1..row[i].version : <<i, v>> \in Told
    /\ ~Exists(i) => \A e \in Told : e[1] = i => <<i, 0>> \in Told

LEMMA TrailIsTrail == Trail => TrailComplete
<1> SUFFICES ASSUME Trail, NEW i \in Ids
             PROVE  LET told == {e \in Told : e[1] = i}
                    IN /\ Exists(i) => \A v \in 1..row[i].version : <<i, v>> \in told
                       /\ ~Exists(i) /\ told # {} => <<i, 0>> \in told
  BY DEF TrailComplete, Told, Auditing
<1>1. \A v : <<i, v>>[1] = i OBVIOUS
<1> QED BY <1>1 DEF Trail

\* What is told if one request alone moves, and one event at most is added.
LEMMA ToldSame ==
  ASSUME NEW r \in Reqs, \A s \in Reqs \ {r} : req'[s] = req[s],
         req[r].pc # "audit", req'[r].pc # "audit", UNCHANGED <<event, lost>>
  PROVE  Told' = Told
<1>1. Auditing' = Auditing BY DEF Auditing
<1>2. \A s \in Auditing : Telling(s)' = Telling(s) BY DEF Auditing, Telling
<1> QED BY <1>1, <1>2 DEF Told

LEMMA ToldByAudit ==
  ASSUME NEW r \in Reqs, \A s \in Reqs \ {r} : req'[s] = req[s],
         req[r].pc = "audit", req'[r].pc # "audit",
         \/ event' = event \cup {Telling(r)} /\ UNCHANGED lost
         \/ lost' = lost \cup {Telling(r)} /\ UNCHANGED event
  PROVE  Told' = Told
<1>1. Auditing' = Auditing \ {r} /\ r \in Auditing BY DEF Auditing
<1>2. \A s \in Auditing \ {r} : Telling(s)' = Telling(s) BY DEF Auditing, Telling
<1> QED BY <1>1, <1>2 DEF Told

LEMMA ToldByWrite ==
  ASSUME NEW r \in Reqs, \A s \in Reqs \ {r} : req'[s] = req[s],
         req[r].pc # "audit", req'[r].pc = "audit", UNCHANGED <<event, lost>>
  PROVE  Told' = Told \cup {Telling(r)'}
<1>1. Auditing' = Auditing \cup {r} /\ r \notin Auditing BY DEF Auditing
<1>2. \A s \in Auditing : Telling(s)' = Telling(s) BY <1>1 DEF Auditing, Telling
<1> QED BY <1>1, <1>2 DEF Told

\* The trail is complete as long as neither rows nor what is told change.
LEMMA TrailSame ==
  ASSUME Trail, Told' = Told, UNCHANGED row PROVE Trail'
BY DEF Trail, Exists

LEMMA TrailWrite ==
  ASSUME History, Trail, NEW r \in Reqs, Writes(r) PROVE Trail'
<1>0. Shape BY DEF History
<1>1. CASE Insert(r)
  <2>1. PICK i \in Ids : /\ ~Exists(i) /\ row' = [row EXCEPT ![i] = req[r].new]
                         /\ event' = event \cup {<<i, 1>>}
    BY <1>1 DEF Insert
  <2>2. req[r].new.version = 1 BY <1>1 DEF Insert, History, Shape, Fit, Creates
  <2>3. \A j \in Ids : row'[j] = IF j = i THEN req[r].new ELSE row[j]
    BY <2>1 DEF History, Shape, TypeOK
  <2>4. \A s \in Reqs : req'[s] = IF s = r THEN NoRequest ELSE req[s]
    BY <1>0, <1>1, Ended DEF Insert
  <2>5. Told' = Told \cup {<<i, 1>>}
    <3>1. Auditing' = Auditing BY <1>1, <2>4 DEF Auditing, Insert, NoRequest
    <3>2. \A s \in Auditing : Telling(s)' = Telling(s)
      BY <1>1, <2>4 DEF Auditing, Telling, Insert
    <3> QED BY <1>1, <2>1, <3>1, <3>2 DEF Told, Insert
  <2>6. <<i, 1>>[1] = i OBVIOUS
  <2> SUFFICES ASSUME NEW j \in Ids
               PROVE  /\ Exists(j)' => \A v \in 1..row[j].version' : <<j, v>> \in Told'
                      /\ ~Exists(j)' => \A e \in Told' : e[1] = j => <<j, 0>> \in Told'
    BY DEF Trail
  <2>7. CASE j = i
    <3>1. row'[j].version = 1 BY <2>2, <2>3, <2>7
    <3> QED BY <2>5, <2>7, <3>1 DEF Exists
  <2>8. CASE j # i BY <2>3, <2>5, <2>6, <2>8 DEF Trail, Exists
  <2> QED BY <2>7, <2>8
<1>2. CASE Save(r) /\ Matches(r)
  <2>0. PICK i \in Ids : i = req[r].id BY <1>0, <1>2, WrittenType
  <2>1. /\ row' = [row EXCEPT ![i] = Written(r)] /\ Goto(r, "audit")
        /\ req[r].op \in Edits /\ req[r].pc = "write" /\ UNCHANGED <<event, lost>> /\ Exists(i)
    BY <1>2, <2>0 DEF Save, Edits, Matches
  <2>2. /\ row[i].version \in 1..MaxVersion /\ Written(r).version = row[i].version + 1
        /\ req[r].seen = row[i].version
    BY <1>0, <1>2, <2>0, WrittenType
  <2>3. \A j \in Ids : row'[j] = IF j = i THEN Written(r) ELSE row[j]
    BY <2>1 DEF History, Shape, TypeOK
  <2>4. \A s \in Reqs : req'[s] = IF s = r THEN [req[r] EXCEPT !.pc = "audit"] ELSE req[s]
    BY <2>1 DEF Goto, History, Shape, TypeOK
  <2>5. req[r] \in Request BY DEF History, Shape, TypeOK
  <2>6. /\ req'[r].pc = "audit" /\ req'[r].id = i /\ req'[r].op # "delete"
        /\ req'[r].seen = row[i].version
    BY <2>0, <2>1, <2>2, <2>4, <2>5 DEF Request, Edits
  <2>7. Telling(r)' = <<i, row[i].version + 1>> BY <2>6 DEF Telling
  <2>8. Told' = Told \cup {<<i, row[i].version + 1>>}
    BY <2>1, <2>4, <2>6, <2>7, ToldByWrite
  <2>9. \A v : <<i, v>>[1] = i OBVIOUS
  <2> SUFFICES ASSUME NEW j \in Ids
               PROVE  /\ Exists(j)' => \A v \in 1..row[j].version' : <<j, v>> \in Told'
                      /\ ~Exists(j)' => \A e \in Told' : e[1] = j => <<j, 0>> \in Told'
    BY DEF Trail
  <2>10. CASE j = i
    <3>1. row'[j].version = row[i].version + 1 BY <2>2, <2>3, <2>10
    <3>2. Exists(j)' BY <2>2, <3>1, VersionAssumption DEF Exists
    <3>3. ASSUME NEW v \in 1..row'[j].version PROVE <<j, v>> \in Told'
      <4>1. v \in 1..row[i].version \/ v = row[i].version + 1
        BY <2>2, <3>1, <3>3, VersionAssumption
      <4> QED BY <2>1, <2>8, <2>10, <4>1 DEF Trail
    <3> QED BY <3>2, <3>3
  <2>11. CASE j # i BY <2>3, <2>8, <2>9, <2>11 DEF Trail, Exists
  <2> QED BY <2>10, <2>11
<1>3. CASE Save(r) /\ ~Matches(r)
  <2>1. \A s \in Reqs : req'[s] = IF s = r THEN NoRequest ELSE req[s]
    BY <1>0, <1>3, Ended DEF Save
  <2>2. Told' = Told BY <1>3, <2>1, ToldSame DEF Save, NoRequest
  <2> QED BY <1>3, <2>2, TrailSame DEF Save
<1>4. CASE Delete(r) /\ Exists(req[r].id)
  <2>0. PICK i \in Ids : i = req[r].id BY <1>0, <1>4 DEF Shape, Fit, Delete
  <2>1. /\ row' = [row EXCEPT ![i] = NoRow] /\ Goto(r, "audit") /\ req[r].pc = "write"
        /\ req[r].op = "delete" /\ UNCHANGED <<event, lost>> /\ Exists(i)
    BY <1>4, <2>0 DEF Delete
  <2>2. \A j \in Ids : row'[j] = IF j = i THEN NoRow ELSE row[j]
    BY <2>1 DEF History, Shape, TypeOK
  <2>3. \A s \in Reqs : req'[s] = IF s = r THEN [req[r] EXCEPT !.pc = "audit"] ELSE req[s]
    BY <2>1 DEF Goto, History, Shape, TypeOK
  <2>4. req[r] \in Request BY DEF History, Shape, TypeOK
  <2>5. req'[r].pc = "audit" /\ req'[r].id = i /\ req'[r].op = "delete"
    BY <2>0, <2>1, <2>3, <2>4 DEF Request
  <2>6. Telling(r)' = <<i, 0>> BY <2>5 DEF Telling
  <2>7. Told' = Told \cup {<<i, 0>>} BY <2>1, <2>3, <2>5, <2>6, ToldByWrite
  <2>8. \A v : <<i, v>>[1] = i OBVIOUS
  <2> SUFFICES ASSUME NEW j \in Ids
               PROVE  /\ Exists(j)' => \A v \in 1..row[j].version' : <<j, v>> \in Told'
                      /\ ~Exists(j)' => \A e \in Told' : e[1] = j => <<j, 0>> \in Told'
    BY DEF Trail
  <2>9. CASE j = i BY <2>2, <2>7, <2>9 DEF Exists, NoRow
  <2>10. CASE j # i BY <2>2, <2>7, <2>8, <2>10 DEF Trail, Exists
  <2> QED BY <2>9, <2>10
<1>5. CASE Delete(r) /\ ~Exists(req[r].id)
  <2>1. \A s \in Reqs : req'[s] = IF s = r THEN NoRequest ELSE req[s]
    BY <1>0, <1>5, Ended DEF Delete
  <2>2. Told' = Told BY <1>5, <2>1, ToldSame DEF Delete, NoRequest
  <2> QED BY <1>5, <2>2, TrailSame DEF Delete
<1>6. CASE Audit(r)
  <2>1. \A s \in Reqs : req'[s] = IF s = r THEN NoRequest ELSE req[s]
    BY <1>0, <1>6, Ended DEF Audit
  <2>2. Told' = Told BY <1>6, <2>1, ToldByAudit DEF Audit, NoRequest
  <2> QED BY <1>6, <2>2, TrailSame DEF Audit
<1>7. CASE WriteCatalog(r)
  <2>1. \A s \in Reqs : req'[s] = IF s = r THEN NoRequest ELSE req[s]
    BY <1>0, <1>7, Ended DEF WriteCatalog
  <2>2. Told' = Told BY <1>7, <2>1, ToldSame DEF WriteCatalog, NoRequest
  <2> QED BY <1>7, <2>2, TrailSame DEF WriteCatalog
<1> QED BY <1>1, <1>2, <1>3, <1>4, <1>5, <1>6, <1>7 DEF Writes

LEMMA TrailStep == ASSUME History, Trail, [Next]_vars PROVE Trail'
<1>1. ASSUME NEW r \in Reqs,
             \/ \/ StartCreate(r) \/ StartDuplicate(r) \/ StartUpdate(r) \/ StartToggle(r)
                \/ StartDelete(r) \/ StartRule(r) \/ StartProductRule(r) \/ StartLink(r)
             \/ Checks(r)
      PROVE  Trail'
  <2>1. UNCHANGED <<row, event, lost>> /\ req[r].pc # "audit"
    BY <1>1 DEF StartCreate, StartDuplicate, StartUpdate, StartToggle, StartDelete, StartRule,
         StartProductRule, StartLink, Idle, Checks, CheckNameFree, CheckProof,
         CheckActivatable, CheckInUse
  <2>2. \E q : req' = [req EXCEPT ![r] = q] /\ q.pc # "audit"
    <3>1. CASE Checks(r)
      <4>1. End(r) \/ \E pc \in Quiet : Goto(r, pc)
        BY <3>1 DEF Checks, CheckNameFree, CheckProof, CheckActivatable, CheckInUse, Quiet, Pcs
      <4>2. req[r] \in Request BY DEF History, Shape, TypeOK
      <4>3. \A pc \in Quiet : [req[r] EXCEPT !.pc = pc].pc # "audit"
        BY <4>2 DEF Request, Quiet, Pcs
      <4> QED BY <4>1, <4>3 DEF End, Goto, NoRequest
    <3>2. CASE ~Checks(r)
      BY <1>1, <3>2, StartRead DEF Read
    <3> QED BY <3>1, <3>2
  <2>3. PICK q : req' = [req EXCEPT ![r] = q] /\ q.pc # "audit" BY <2>2
  <2>4. \A s \in Reqs : req'[s] = IF s = r THEN q ELSE req[s]
    BY <2>3 DEF History, Shape, TypeOK
  <2>5. Told' = Told BY <2>1, <2>3, <2>4, ToldSame
  <2> QED BY <2>1, <2>5, TrailSame
<1>2. CASE Crash
  <2>1. UNCHANGED <<row, event>> /\ lost' = lost \cup {Telling(r) : r \in Auditing}
    BY <1>2 DEF Crash, Auditing
  <2>2. Auditing' = {} BY <1>2 DEF Crash, Auditing, NoRequest
  <2>3. Told' = Told BY <2>1, <2>2 DEF Told
  <2> QED BY <2>1, <2>3, TrailSame
<1>3. CASE UNCHANGED vars
  <2>1. Told' = Told BY <1>3 DEF vars, Told, Auditing, Telling
  <2> QED BY <1>3, <2>1, TrailSame DEF vars
<1> QED BY <1>1, <1>2, <1>3, NextCases, TrailWrite

LEMMA InitTrail == Init => Trail
<1> SUFFICES ASSUME Init PROVE Trail OBVIOUS
<1>1. Auditing = {} BY DEF Init, Auditing, NoRequest
<1>2. event = {} /\ lost = {} BY DEF Init
<1>3. Told = {}
  <2> DEFINE T == {Telling(r) : r \in Auditing}
  <2>1. T = {} BY <1>1
  <2>2. Told = event \cup lost \cup T BY DEF Told
  <2> HIDE DEF T
  <2> QED BY <1>2, <2>1, <2>2
<1>4. ASSUME NEW i \in Ids PROVE ~Exists(i)
  <2>1. row[i].version = 0 BY DEF Init, NoRow
  <2> QED BY <2>1 DEF Exists
<1> QED BY <1>3, <1>4 DEF Trail

\* AuditEventRepository: no change goes untold but those a crash or a deletion lost.
THEOREM TrailIsComplete == Spec => []TrailComplete
BY InitHistory, HistoryStep, InitTrail, TrailStep, TrailIsTrail, PTL DEF Spec

-----------------------------------------------------------------------------
(* The trail tells of nothing that was not done.                             *)

LEMMA PhantomStep == ASSUME History, NoPhantomEvent, [Next]_vars PROVE NoPhantomEvent'
<1>0. Shape /\ \A e \in event : e[1] \in Ids /\ e[2] \in 0..MaxVersion
  BY DEF History, Shape, TypeOK
<1>1. CASE UNCHANGED <<row, event>>
  BY <1>1 DEF NoPhantomEvent, Exists
<1>2. ASSUME NEW r \in Reqs, Insert(r) PROVE NoPhantomEvent'
  <2>1. PICK i \in Ids : /\ ~Exists(i) /\ <<i, 1>> \notin event
                         /\ row' = [row EXCEPT ![i] = req[r].new]
                         /\ event' = event \cup {<<i, 1>>}
    BY <1>2 DEF Insert
  <2>2. req[r].new.version = 1 BY <1>2 DEF Insert, History, Shape, Fit, Creates
  <2>3. \A j \in Ids : row'[j] = IF j = i THEN req[r].new ELSE row[j]
    BY <2>1 DEF History, Shape, TypeOK
  <2>4. \A e \in event : e[1] # i BY <2>1 DEF History, Born
  <2>5. ASSUME NEW e \in event', Exists(e[1])' PROVE e[2] \in 1..row'[e[1]].version
    <3>1. CASE e \in event
      BY <1>0, <2>3, <2>4, <2>5, <3>1 DEF NoPhantomEvent, Exists
    <3>2. CASE e = <<i, 1>>
      <4>1. e[1] = i /\ e[2] = 1 BY <3>2
      <4> QED BY <2>2, <2>3, <4>1
    <3> QED BY <2>1, <3>1, <3>2
  <2> QED BY <2>5 DEF NoPhantomEvent
<1>3. ASSUME NEW r \in Reqs, Save(r), Matches(r) PROVE NoPhantomEvent'
  <2>1. PICK i \in Ids : i = req[r].id BY <1>0, <1>3, WrittenType
  <2>2. row' = [row EXCEPT ![i] = Written(r)] /\ UNCHANGED event /\ Exists(i)
    BY <1>3, <2>1 DEF Save, Matches
  <2>3. row[i].version \in 1..MaxVersion /\ Written(r).version = row[i].version + 1
    BY <1>0, <1>3, <2>1, WrittenType
  <2>4. \A j \in Ids : row'[j] = IF j = i THEN Written(r) ELSE row[j]
    BY <2>2 DEF History, Shape, TypeOK
  <2>5. ASSUME NEW e \in event, Exists(e[1])' PROVE e[2] \in 1..row'[e[1]].version
    <3>1. CASE e[1] = i
      <4>1. e[2] \in 1..row[i].version BY <2>2, <3>1 DEF NoPhantomEvent
      <4>2. row'[i].version = row[i].version + 1 BY <2>3, <2>4
      <4> QED BY <2>3, <3>1, <4>1, <4>2, VersionAssumption
    <3>2. CASE e[1] # i
      BY <1>0, <2>4, <2>5, <3>2 DEF NoPhantomEvent, Exists
    <3> QED BY <3>1, <3>2
  <2> QED BY <2>2, <2>5 DEF NoPhantomEvent
<1>4. ASSUME NEW r \in Reqs, Delete(r), Exists(req[r].id) PROVE NoPhantomEvent'
  <2>1. PICK i \in Ids : i = req[r].id BY <1>0, <1>4 DEF Shape, Fit, Delete
  <2>2. row' = [row EXCEPT ![i] = NoRow] /\ UNCHANGED event
    BY <1>4, <2>1 DEF Delete
  <2>3. \A j \in Ids : row'[j] = IF j = i THEN NoRow ELSE row[j]
    BY <2>2 DEF History, Shape, TypeOK
  <2>4. ~Exists(i)' BY <2>3 DEF Exists, NoRow
  <2>5. ASSUME NEW e \in event, Exists(e[1])' PROVE e[2] \in 1..row'[e[1]].version
    BY <1>0, <2>3, <2>4, <2>5 DEF NoPhantomEvent, Exists
  <2> QED BY <2>2, <2>5 DEF NoPhantomEvent
<1>5. ASSUME NEW r \in Reqs, Audit(r) PROVE NoPhantomEvent'
  <2>1. UNCHANGED row /\ event' \subseteq event \cup {Telling(r)} BY <1>5 DEF Audit
  <2>2. /\ req[r].pc = "audit" /\ req[r].op \in Edits \cup {"delete"} /\ req[r].id \in Ids
        /\ req[r].seen \in 0..MaxVersion
    BY <1>0, <1>5 DEF Audit, Shape, TypeOK, Fit, Request
  <2>3. ASSUME Exists(req[r].id) PROVE Telling(r)[2] \in 1..row[req[r].id].version
    <3>1. req[r].op \in Edits BY <2>2, <2>3 DEF History, Gone
    <3>2. req[r].seen < row[req[r].id].version BY <2>2, <2>3, <3>1 DEF History, Current
    <3>3. Telling(r)[2] = req[r].seen + 1 BY <3>1 DEF Telling, Edits
    <3>4. row[req[r].id].version \in 1..MaxVersion BY <1>0, <2>2, <2>3, Versions DEF Shape
    <3> QED BY <2>2, <3>2, <3>3, <3>4, VersionAssumption
  <2>4. Telling(r)[1] = req[r].id BY DEF Telling
  <2>5. ASSUME NEW e \in event', Exists(e[1])' PROVE e[2] \in 1..row'[e[1]].version
    <3>1. CASE e \in event BY <2>1, <2>5, <3>1 DEF NoPhantomEvent, Exists
    <3>2. CASE e = Telling(r) BY <2>1, <2>3, <2>4, <2>5, <3>2 DEF Exists
    <3> QED BY <2>1, <3>1, <3>2
  <2> QED BY <2>5 DEF NoPhantomEvent
<1>6. ASSUME NEW r \in Reqs,
             \/ \/ StartCreate(r) \/ StartDuplicate(r) \/ StartUpdate(r) \/ StartToggle(r)
                \/ StartDelete(r) \/ StartRule(r) \/ StartProductRule(r) \/ StartLink(r)
             \/ Checks(r)
             \/ WriteCatalog(r)
      PROVE  UNCHANGED <<row, event>>
  BY <1>6 DEF StartCreate, StartDuplicate, StartUpdate, StartToggle, StartDelete, StartRule,
     StartProductRule, StartLink, Checks, CheckNameFree, CheckProof, CheckActivatable,
     CheckInUse, WriteCatalog
<1>7. ASSUME NEW r \in Reqs, Writes(r) PROVE NoPhantomEvent'
  <2>1. \/ Insert(r) \/ (Save(r) /\ Matches(r)) \/ (Delete(r) /\ Exists(req[r].id)) \/ Audit(r)
        \/ WriteCatalog(r) \/ UNCHANGED <<row, event>>
    BY <1>7 DEF Writes, Save, Delete
  <2> QED BY <1>1, <1>2, <1>3, <1>4, <1>5, <1>6, <2>1
<1>8. CASE Crash BY <1>1, <1>8 DEF Crash
<1>9. CASE UNCHANGED vars BY <1>1, <1>9 DEF vars
<1> QED BY <1>1, <1>6, <1>7, <1>8, <1>9, NextCases

\* No event tells of a version its program has not reached, nor of the deletion of a
\* program that exists (BankProgramsService.deleteByCode, update, toggle).
THEOREM NoPhantoms == Spec => []NoPhantomEvent
<1>1. Init => NoPhantomEvent BY DEF Init, NoPhantomEvent
<1> QED BY <1>1, InitHistory, HistoryStep, PhantomStep, PTL DEF Spec


-----------------------------------------------------------------------------
(* Admins who take turns: what each has read is still so when it writes, and   *)
(* so no name has two rules, no bank sells two programs under one name, and    *)
(* what quotes reads the proof of its name.                                    *)

Turns == "overlap" \notin world
Filed == {"overlap", "noBankId"} \cap world = {}
Steady == {"overlap", "retype", "relink"} \cap world = {}

\* The checks a request of each kind is sent to.
Route(q) ==
  /\ q.pc = "idle" => q = NoRequest
  /\ q.pc = "free" => q.op \in Creates \cup {"update"}
  /\ q.pc = "proof" => q.op \in {"create", "update"}
  /\ q.pc = "activate" => q.op = "toggle"
  /\ q.pc = "inUse" => q.op \in {"rule", "productRule"}

\* In turns, what a request has read is still so: the row it edits until it saves it,
\* and that the name is not linked, or has no rule.
Knows(q) ==
  /\ q.op \in Edits /\ q.pc # "audit" =>
       /\ Exists(q.id) /\ row[q.id] = q.old
       /\ q.new.active = q.old.active \/ q.op = "toggle"
  /\ q.op = "rule" => name[q.name].product = None
  /\ q.op = "link" /\ q.product # None => name[q.name].own = None

Forkless == \A n \in Names : name[n].own = None \/ name[n].product = None

InTurn ==
  /\ \A r, s \in Reqs : r # s => req[r] = NoRequest \/ req[s] = NoRequest
  /\ \A r \in Reqs : Route(req[r]) /\ Knows(req[r])
  /\ Forkless

\* When all content has a bankId, it is the bank's.
Placed(c) == c.bankId = c.bank

\* The name is free at the bank once it has been found so.
NameFree(q) ==
  /\ q.op \in Creates \cup {"update"} => Placed(q.new.content)
  /\ q.op \in Creates /\ q.pc = "write" => SameNameAtBank(q.new.content, {}) = {}
  /\ q.op = "update" /\ q.pc \in {"proof", "write"} =>
       SameNameAtBank(q.new.content, {q.id}) = {}

OneEach ==
  \A i, j \in Live : i # j => \/ row[i].content.bank # row[j].content.bank
                              \/ row[i].content.name # row[j].content.name

AllPlaced == \A i \in Live : Placed(row[i].content)

InPlace ==
  /\ AllPlaced /\ OneEach
  /\ \A r \in Reqs : NameFree(req[r])

\* What is to quote reads the proof of its name once it has been found to, and the proof
\* that is to change is read by no program.
Reads(c) == c.surrogate => CatalogProof(c.name) = c.proof

ProofKept(q) ==
  /\ q.op = "create" /\ q.pc \in {"free", "write"} => Reads(q.new.content)
  /\ q.op = "duplicate" => ~q.new.active
  /\ q.op = "update" /\ q.pc # "audit" /\ q.new.content.surrogate => q.old.content.surrogate
  /\ q.op = "update" /\ q.pc = "write" /\ q.old.active => Reads(q.new.content)
  /\ q.op = "toggle" /\ q.pc = "write" /\ q.new.active => Reads(q.old.content)
  /\ q.op = "rule" /\ q.pc = "write" =>
       q.rule = name[q.name].own \/ ProgramsUnderName(q.name) = {}
  /\ q.op = "productRule" /\ q.pc = "write" =>
       \/ q.rule = product[q.product]
       \/ \A n \in NamesLinkedTo(q.product) : ProgramsUnderName(n) = {}
  /\ q.op = "link" => ProgramsUnderName(q.name) = {}

Quoting ==
  /\ QuotesItsProof
  /\ \A r \in Reqs : ProofKept(req[r])

TurnInv ==
  /\ Turns => InTurn
  /\ Filed => InPlace
  /\ Steady => Quoting

LEMMA NoneKnows ==
  /\ Route(NoRequest) /\ Knows(NoRequest) /\ NameFree(NoRequest) /\ ProofKept(NoRequest)
BY DEF NoRequest, Route, Knows, NameFree, ProofKept, Creates, Edits

\* What is known of the catalog and the rows does not change with a request alone.
LEMMA Same ==
  ASSUME UNCHANGED <<row, name, product>>
  PROVE  /\ \A q : /\ Knows(q)' <=> Knows(q)
                   /\ NameFree(q)' <=> NameFree(q)
                   /\ ProofKept(q)' <=> ProofKept(q)
         /\ Forkless' <=> Forkless
         /\ AllPlaced' <=> AllPlaced
         /\ OneEach' <=> OneEach
         /\ QuotesItsProof' <=> QuotesItsProof
<1>1. \A q : Knows(q)' <=> Knows(q) BY DEF Knows, Exists
<1>2. Live' = Live /\ (Forkless' <=> Forkless) BY DEF Live, Exists, Forkless
<1>3. AllPlaced' <=> AllPlaced BY <1>2 DEF AllPlaced, Placed
<1>4. OneEach' <=> OneEach BY <1>2 DEF OneEach
<1>5. \A n : CatalogProof(n)' = CatalogProof(n) BY DEF CatalogProof
<1>6. QuotesItsProof' <=> QuotesItsProof BY <1>2, <1>5 DEF QuotesItsProof
<1>7. \A c, S : SameNameAtBank(c, S)' = SameNameAtBank(c, S)
  BY <1>2 DEF SameNameAtBank
<1>8. \A q : NameFree(q)' <=> NameFree(q) BY <1>7 DEF NameFree, Placed
<1>9. \A n : ProgramsUnderName(n)' = ProgramsUnderName(n) BY <1>2 DEF ProgramsUnderName
<1>10. \A n : NamesLinkedTo(n)' = NamesLinkedTo(n) BY DEF NamesLinkedTo
<1>11. \A q : ProofKept(q)' <=> ProofKept(q)
  BY <1>5, <1>9, <1>10 DEF ProofKept, Reads
<1> QED BY <1>1, <1>2, <1>3, <1>4, <1>6, <1>8, <1>11

\* In turns a request that is in flight is so alone, and one begins when none is.
LEMMA Lone ==
  ASSUME InTurn, NEW r \in Reqs, req[r].pc # "idle"
  PROVE  \A s \in Reqs \ {r} : req[s] = NoRequest
BY DEF InTurn, NoRequest

LEMMA Idlers ==
  ASSUME InTurn, Turns, NEW r \in Reqs, Idle(r)
  PROVE  \A s \in Reqs : req[s] = NoRequest
BY DEF InTurn, Turns, Idle, Route

\* It is enough to look at the request that moves.
LEMMA Passed ==
  ASSUME Shape, NEW r \in Reqs, NEW q, req' = [req EXCEPT ![r] = q],
         \A s \in Reqs \ {r} : req[s] = NoRequest
  PROVE  /\ Route(q) /\ Knows(q)' /\ Forkless' => InTurn'
         /\ NameFree(q)' /\ AllPlaced' /\ OneEach' => InPlace'
         /\ ProofKept(q)' /\ QuotesItsProof' => Quoting'
<1>1. \A s \in Reqs : req'[s] = IF s = r THEN q ELSE NoRequest BY DEF Shape, TypeOK
<1>2. Knows(NoRequest)' /\ NameFree(NoRequest)' /\ ProofKept(NoRequest)' BY NoneKnows, PTL
<1>3. ASSUME Route(q), Knows(q)', Forkless' PROVE InTurn'
  BY <1>1, <1>2, <1>3, NoneKnows DEF InTurn
<1>4. ASSUME NameFree(q)', AllPlaced', OneEach' PROVE InPlace'
  BY <1>1, <1>2, <1>4 DEF InPlace
<1>5. ASSUME ProofKept(q)', QuotesItsProof' PROVE Quoting'
  BY <1>1, <1>2, <1>5 DEF Quoting
<1> QED BY <1>3, <1>4, <1>5

\* What a request holds as it begins, and where it is sent.
Opening(q) ==
  \/ q.op = "create" /\ q.pc = "proof" /\ q.new.content \in Drafts
  \/ /\ q.op = "duplicate" /\ q.pc = "free" /\ ~q.new.active
     /\ \E i \in Live : /\ q.new.content.bank = row[i].content.bank
                        /\ q.new.content.bankId = row[i].content.bankId
  \/ /\ q.op = "update" /\ q.id \in Live /\ q.old = row[q.id]
     /\ q.new.active = q.old.active
     /\ \E c \in Drafts :
          /\ q.new.content.bank = c.bank
          /\ q.new.content.bankId = IF c.bankId = None THEN q.old.content.bankId ELSE c.bankId
     /\ "retype" \in world \/ (q.new.content.surrogate => q.old.content.surrogate)
     /\ \/ q.pc = "free"
        \/ /\ q.pc = "proof"
           /\ q.new.content.name = q.old.content.name
           /\ q.new.content.bankId = q.old.content.bankId
  \/ /\ q.op = "toggle" /\ q.id \in Live /\ q.old = row[q.id]
     /\ q.pc = "activate" \/ (q.pc = "write" /\ ~q.new.active)
  \/ q.op = "delete" /\ q.pc = "write"
  \/ /\ q.op = "rule" /\ name[q.name].product = None
     /\ q.pc = "inUse" \/ (q.pc = "write" /\ q.rule = name[q.name].own)
  \/ /\ q.op = "productRule"
     /\ q.pc = "inUse" \/ (q.pc = "write" /\ q.rule = product[q.product])
  \/ /\ q.op = "link" /\ q.pc = "write"
     /\ q.product # None => name[q.name].own = None
     /\ "relink" \in world \/ ProgramsUnderName(q.name) = {}

Starts(r) ==
  \/ StartCreate(r) \/ StartDuplicate(r) \/ StartUpdate(r) \/ StartToggle(r)
  \/ StartDelete(r) \/ StartRule(r) \/ StartProductRule(r) \/ StartLink(r)

LEMMA Opened ==
  ASSUME Shape, NEW r \in Reqs, Starts(r)
  PROVE  \E q : req' = [req EXCEPT ![r] = q] /\ Opening(q)
<1>1. CASE StartCreate(r)
  <2>1. PICK c \in Drafts :
          Begin(r, [NoRequest EXCEPT !.op = "create", !.pc = "proof",
                      !.new = [version |-> 1, active |-> TRUE, content |-> c]])
    BY <1>1 DEF StartCreate
  <2> DEFINE q == [NoRequest EXCEPT !.op = "create", !.pc = "proof",
                      !.new = [version |-> 1, active |-> TRUE, content |-> c]]
  <2>2. q.op = "create" /\ q.pc = "proof" /\ q.new.content = c BY DEF NoRequest
  <2> HIDE DEF q
  <2>3. Opening(q) BY <2>2 DEF Opening
  <2> QED BY <2>1, <2>3 DEF Begin, q
<1>2. CASE StartDuplicate(r)
  <2>1. PICK i \in Live, n \in Names :
          Begin(r, [NoRequest EXCEPT !.op = "duplicate", !.pc = "free",
                      !.new = [version |-> 1, active |-> FALSE,
                               content |-> [row[i].content EXCEPT !.name = n]]])
    BY <1>2 DEF StartDuplicate
  <2> DEFINE copy == [row[i].content EXCEPT !.name = n]
             q == [NoRequest EXCEPT !.op = "duplicate", !.pc = "free",
                      !.new = [version |-> 1, active |-> FALSE, content |-> copy]]
  <2>2. row[i] \in Row BY Versions DEF Live, Shape
  <2>3. copy.bank = row[i].content.bank /\ copy.bankId = row[i].content.bankId
    BY <2>2 DEF Row, Content
  <2> HIDE DEF copy
  <2>4. q.op = "duplicate" /\ q.pc = "free" /\ ~q.new.active /\ q.new.content = copy
    BY DEF NoRequest
  <2> HIDE DEF q
  <2>5. Opening(q) BY <2>3, <2>4 DEF Opening
  <2> QED BY <2>1, <2>5 DEF Begin, q, copy
<1>3. CASE StartUpdate(r)
  <2>1. PICK i \in Live, c \in Drafts : \E seen \in 1..row[i].version :
          LET old == row[i].content
              new == IF c.bankId = None THEN [c EXCEPT !.bankId = old.bankId] ELSE c
          IN /\ "retype" \in world \/ (new.surrogate => old.surrogate)
             /\ Begin(r, [NoRequest EXCEPT
                  !.op = "update", !.id = i, !.old = row[i], !.seen = seen,
                  !.new = [row[i] EXCEPT !.content = new],
                  !.pc = IF new.name # old.name \/ new.bankId # old.bankId
                         THEN "free" ELSE "proof"])
    BY <1>3 DEF StartUpdate
  <2> DEFINE content == IF c.bankId = None THEN [c EXCEPT !.bankId = row[i].content.bankId]
                                           ELSE c
             pc == IF content.name # row[i].content.name
                      \/ content.bankId # row[i].content.bankId
                   THEN "free" ELSE "proof"
             new == [row[i] EXCEPT !.content = content]
  <2>2. PICK seen \in 1..row[i].version :
          /\ "retype" \in world \/ (content.surrogate => row[i].content.surrogate)
          /\ Begin(r, [NoRequest EXCEPT !.op = "update", !.id = i, !.old = row[i],
                         !.seen = seen, !.new = new, !.pc = pc])
    BY <2>1
  <2>3. row[i] \in Row BY Versions DEF Live, Shape
  <2>4. new.active = row[i].active /\ new.content = content BY <2>3 DEF Row
  <2>5. /\ content.bank = c.bank
        /\ content.bankId = IF c.bankId = None THEN row[i].content.bankId ELSE c.bankId
    BY DEF Drafts, Content
  <2>6. \/ pc = "free"
        \/ /\ pc = "proof" /\ content.name = row[i].content.name
           /\ content.bankId = row[i].content.bankId
    OBVIOUS
  <2> HIDE DEF pc, new, content
  <2> DEFINE q == [NoRequest EXCEPT !.op = "update", !.id = i, !.old = row[i], !.seen = seen,
                      !.new = new, !.pc = pc]
  <2>7. q.op = "update" /\ q.pc = pc /\ q.id = i /\ q.old = row[i] /\ q.new = new
    BY DEF NoRequest
  <2> HIDE DEF q
  <2>8. Opening(q) BY <2>2, <2>4, <2>5, <2>6, <2>7 DEF Opening
  <2> QED BY <2>2, <2>8 DEF Begin, q
<1>4. CASE StartToggle(r)
  <2>1. PICK i \in Live, on \in BOOLEAN : \E seen \in 1..row[i].version :
          Begin(r, [NoRequest EXCEPT !.op = "toggle", !.id = i, !.old = row[i], !.seen = seen,
                      !.new = [row[i] EXCEPT !.active = on],
                      !.pc = IF on THEN "activate" ELSE "write"])
    BY <1>4 DEF StartToggle
  <2> DEFINE pc == IF on THEN "activate" ELSE "write"
             new == [row[i] EXCEPT !.active = on]
  <2>2. PICK seen \in 1..row[i].version :
          Begin(r, [NoRequest EXCEPT !.op = "toggle", !.id = i, !.old = row[i], !.seen = seen,
                      !.new = new, !.pc = pc])
    BY <2>1
  <2>3. row[i] \in Row BY Versions DEF Live, Shape
  <2>4. pc = "activate" \/ (pc = "write" /\ ~new.active) BY <2>3 DEF Row
  <2> HIDE DEF pc, new
  <2> DEFINE q == [NoRequest EXCEPT !.op = "toggle", !.id = i, !.old = row[i], !.seen = seen,
                      !.new = new, !.pc = pc]
  <2>5. q.op = "toggle" /\ q.pc = pc /\ q.id = i /\ q.old = row[i] /\ q.new = new
    BY DEF NoRequest
  <2> HIDE DEF q
  <2>6. Opening(q) BY <2>4, <2>5 DEF Opening
  <2> QED BY <2>2, <2>6 DEF Begin, q
<1>5. CASE StartDelete(r)
  <2>1. PICK i \in Live : Begin(r, [NoRequest EXCEPT !.op = "delete", !.pc = "write", !.id = i])
    BY <1>5 DEF StartDelete
  <2> DEFINE q == [NoRequest EXCEPT !.op = "delete", !.pc = "write", !.id = i]
  <2>2. q.op = "delete" /\ q.pc = "write" BY DEF NoRequest
  <2> HIDE DEF q
  <2> QED BY <2>1, <2>2 DEF Begin, q, Opening
<1>6. CASE StartRule(r)
  <2>1. PICK n \in Names, p \in Proofs \cup {None} :
          /\ name[n].product = None
          /\ Begin(r, [NoRequest EXCEPT !.op = "rule", !.name = n, !.rule = p,
                         !.pc = IF p # name[n].own THEN "inUse" ELSE "write"])
    BY <1>6 DEF StartRule
  <2> DEFINE q == [NoRequest EXCEPT !.op = "rule", !.name = n, !.rule = p,
                      !.pc = IF p # name[n].own THEN "inUse" ELSE "write"]
  <2>2. /\ q.op = "rule" /\ q.name = n /\ q.rule = p
        /\ q.pc = IF p # name[n].own THEN "inUse" ELSE "write"
    BY DEF NoRequest
  <2> HIDE DEF q
  <2>3. Opening(q) BY <2>1, <2>2 DEF Opening
  <2> QED BY <2>1, <2>3 DEF Begin, q
<1>7. CASE StartProductRule(r)
  <2>1. PICK p \in Products, rule \in Proofs \cup {None} :
          Begin(r, [NoRequest EXCEPT !.op = "productRule", !.product = p, !.rule = rule,
                      !.pc = IF rule # product[p] THEN "inUse" ELSE "write"])
    BY <1>7 DEF StartProductRule
  <2> DEFINE q == [NoRequest EXCEPT !.op = "productRule", !.product = p, !.rule = rule,
                      !.pc = IF rule # product[p] THEN "inUse" ELSE "write"]
  <2>2. /\ q.op = "productRule" /\ q.product = p /\ q.rule = rule
        /\ q.pc = IF rule # product[p] THEN "inUse" ELSE "write"
    BY DEF NoRequest
  <2> HIDE DEF q
  <2>3. Opening(q) BY <2>2 DEF Opening
  <2> QED BY <2>1, <2>3 DEF Begin, q
<1>8. CASE StartLink(r)
  <2>1. PICK n \in Names, p \in Products \cup {None} :
          /\ p # None => name[n].own = None
          /\ "relink" \in world \/ ProgramsUnderName(n) = {}
          /\ Begin(r, [NoRequest EXCEPT !.op = "link", !.pc = "write", !.name = n, !.product = p])
    BY <1>8 DEF StartLink
  <2> DEFINE q == [NoRequest EXCEPT !.op = "link", !.pc = "write", !.name = n, !.product = p]
  <2>2. q.op = "link" /\ q.pc = "write" /\ q.name = n /\ q.product = p BY DEF NoRequest
  <2> HIDE DEF q
  <2>3. Opening(q) BY <2>1, <2>2 DEF Opening
  <2> QED BY <2>1, <2>3 DEF Begin, q
<1> QED BY <1>1, <1>2, <1>3, <1>4, <1>5, <1>6, <1>7, <1>8 DEF Starts

\* A request that knows what it should at the step it has come to.
Ready(q) ==
  /\ Route(q) /\ Knows(q)
  /\ Filed /\ InPlace => NameFree(q)
  /\ Steady /\ Quoting => ProofKept(q)

\* A request that begins knows what it should.
LEMMA OpeningKnows ==
  ASSUME Shape, NEW q, Opening(q)
  PROVE  Ready(q)
<1>1. Route(q) BY DEF Opening, Route, Creates
<1>2. Knows(q) BY DEF Opening, Knows, Live, Edits
<1>3. ASSUME Filed, InPlace PROVE NameFree(q)
  <2>1. \A c \in Drafts : Placed(c) /\ c.bankId # None
    BY <1>3, NoneAssumption DEF Filed, Drafts, Placed, Content
  <2>2. \A i \in Live : Placed(row[i].content) BY <1>3 DEF InPlace, AllPlaced
  <2>3. q.op \in Creates \cup {"update"} => Placed(q.new.content)
    BY <2>1, <2>2 DEF Opening, Placed, Creates
  <2>4. ~(q.op \in Creates /\ q.pc = "write") BY DEF Opening, Creates
  <2>5. ASSUME q.op = "update", q.pc \in {"proof", "write"}
        PROVE  SameNameAtBank(q.new.content, {q.id}) = {}
    <3>1. /\ q.id \in Live /\ q.new.content.name = row[q.id].content.name
          /\ q.new.content.bankId = row[q.id].content.bankId
      BY <2>5 DEF Opening
    <3>2. row[q.id].content \in Content BY <3>1, Versions DEF Live, Shape, Row
    <3>3. q.new.content.bankId = row[q.id].content.bank /\ q.new.content.bankId # None
      BY <2>2, <3>1, <3>2, NoneAssumption DEF Placed, Content
    <3>4. ASSUME NEW j \in Live \ {q.id}, row[j].content.name = q.new.content.name,
                 row[j].content.bankId = q.new.content.bankId
          PROVE  FALSE
      BY <1>3, <2>2, <3>1, <3>3, <3>4 DEF InPlace, OneEach, Placed
    <3> QED BY <3>3, <3>4 DEF SameNameAtBank
  <2> QED BY <2>3, <2>4, <2>5 DEF NameFree
<1>4. ASSUME Steady PROVE ProofKept(q)
  <2>1. "retype" \notin world /\ "relink" \notin world BY <1>4 DEF Steady
  <2> QED BY <2>1 DEF Opening, ProofKept
<1> QED BY <1>1, <1>2, <1>3, <1>4 DEF Ready


LEMMA ReadyNone == Ready(NoRequest)
BY NoneKnows DEF Ready

\* A check sends the request on, knowing what was checked, or ends it.
LEMMA Checked ==
  ASSUME Shape, TurnInv, Turns, NEW r \in Reqs, Checks(r)
  PROVE  \E q : req' = [req EXCEPT ![r] = q] /\ Ready(q)
<1>1. PICK p : p = req[r] OBVIOUS
<1>2. p \in Request /\ Fit(p) BY <1>1 DEF Shape, TypeOK
<1>3. InTurn /\ Route(p) /\ Knows(p) BY <1>1 DEF TurnInv, InTurn
<1>4. Filed /\ InPlace => NameFree(p) BY <1>1 DEF InPlace
<1>5. Steady /\ Quoting => ProofKept(p) /\ QuotesItsProof BY <1>1 DEF Quoting
<1>6. CASE End(r) BY <1>6, ReadyNone DEF End
<1>7. ASSUME NEW pc \in Quiet, Goto(r, pc)
      PROVE  \E q : /\ req' = [req EXCEPT ![r] = q] /\ q.pc = pc
                    /\ q.op = p.op /\ q.id = p.id /\ q.old = p.old /\ q.new = p.new
                    /\ q.name = p.name /\ q.product = p.product /\ q.rule = p.rule
  <2> DEFINE q == [p EXCEPT !.pc = pc]
  <2>1. /\ q.pc = pc /\ q.op = p.op /\ q.id = p.id /\ q.old = p.old /\ q.new = p.new
        /\ q.name = p.name /\ q.product = p.product /\ q.rule = p.rule
    BY <1>2 DEF Request
  <2>2. req' = [req EXCEPT ![r] = q] BY <1>1, <1>7 DEF Goto
  <2> QED BY <2>1, <2>2
<1>8. CASE CheckNameFree(r) /\ ~End(r)
  <2> DEFINE pc == IF p.op = "update" THEN "proof" ELSE "write"
  <2>1. /\ p.pc = "free"
        /\ SameNameAtBank(p.new.content, IF p.op = "update" THEN {p.id} ELSE {}) = {}
        /\ Goto(r, pc)
    BY <1>1, <1>8 DEF CheckNameFree
  <2>2. pc \in Quiet BY DEF Quiet, Pcs
  <2>3. p.op \in Creates \cup {"update"} BY <1>3, <2>1 DEF Route
  <2>4. PICK q : /\ req' = [req EXCEPT ![r] = q] /\ q.pc = pc
                 /\ q.op = p.op /\ q.id = p.id /\ q.old = p.old /\ q.new = p.new
                 /\ q.name = p.name /\ q.product = p.product /\ q.rule = p.rule
    BY <1>7, <2>1, <2>2
  <2>5. Route(q) BY <2>3, <2>4 DEF Route, Creates
  <2>6. Knows(q) BY <1>3, <2>1, <2>3, <2>4 DEF Knows, Creates, Edits
  <2>7. Filed /\ InPlace => NameFree(q) BY <1>4, <2>1, <2>3, <2>4 DEF NameFree, Creates
  <2>8. Steady /\ Quoting => ProofKept(q)
    BY <1>5, <2>1, <2>3, <2>4 DEF ProofKept, Creates
  <2> QED BY <2>4, <2>5, <2>6, <2>7, <2>8 DEF Ready
<1>9. CASE CheckProof(r) /\ ~End(r)
  <2> DEFINE pc == IF p.op = "create" THEN "free" ELSE "write"
             new == p.new.content
             grandfathered == /\ p.op = "update" /\ new.name = p.old.content.name
                              /\ new.proof = p.old.content.proof
  <2>1. /\ p.pc = "proof" /\ Goto(r, pc)
        /\ ~new.surrogate \/ grandfathered \/ CatalogProof(new.name) = new.proof
    BY <1>1, <1>9 DEF CheckProof
  <2>2. pc \in Quiet BY DEF Quiet, Pcs
  <2>3. p.op \in {"create", "update"} BY <1>3, <2>1 DEF Route
  <2>4. PICK q : /\ req' = [req EXCEPT ![r] = q] /\ q.pc = pc
                 /\ q.op = p.op /\ q.id = p.id /\ q.old = p.old /\ q.new = p.new
                 /\ q.name = p.name /\ q.product = p.product /\ q.rule = p.rule
    BY <1>7, <2>1, <2>2
  <2>5. Route(q) BY <2>3, <2>4 DEF Route, Creates
  <2>6. Knows(q) BY <1>3, <2>1, <2>3, <2>4 DEF Knows, Creates, Edits
  <2>7. Filed /\ InPlace => NameFree(q) BY <1>4, <2>1, <2>3, <2>4 DEF NameFree, Creates
  <2>8. ASSUME Steady, Quoting PROVE ProofKept(q)
    <3>1. CASE p.op = "create"
      <4>1. Reads(new) BY <2>1, <3>1 DEF Reads
      <4> QED BY <2>3, <2>4, <3>1, <4>1 DEF ProofKept
    <3>2. CASE p.op = "update"
      <4>1. p.id \in Live /\ row[p.id] = p.old
        BY <1>2, <1>3, <2>1, <3>2 DEF Knows, Edits, Fit, Live
      <4>2. new.surrogate => p.old.content.surrogate
        BY <1>5, <2>1, <2>8, <3>2 DEF ProofKept
      <4>3. p.old.active => Reads(new)
        BY <1>5, <2>1, <2>8, <4>1, <4>2 DEF QuotesItsProof, Reads
      <4> QED BY <2>3, <2>4, <3>2, <4>2, <4>3 DEF ProofKept
    <3> QED BY <2>3, <3>1, <3>2
  <2> QED BY <2>4, <2>5, <2>6, <2>7, <2>8 DEF Ready
<1>10. CASE CheckActivatable(r) /\ ~End(r)
  <2>1. p.pc = "activate" /\ Goto(r, "write") /\ Reads(p.old.content)
    BY <1>1, <1>10 DEF CheckActivatable, Reads
  <2>2. p.op = "toggle" BY <1>3, <2>1 DEF Route
  <2>3. PICK q : /\ req' = [req EXCEPT ![r] = q] /\ q.pc = "write"
                 /\ q.op = p.op /\ q.id = p.id /\ q.old = p.old /\ q.new = p.new
                 /\ q.name = p.name /\ q.product = p.product /\ q.rule = p.rule
    BY <1>7, <2>1 DEF Quiet, Pcs
  <2>4. Route(q) BY <2>2, <2>3 DEF Route
  <2>5. Knows(q) BY <1>3, <2>1, <2>2, <2>3 DEF Knows, Edits
  <2>6. NameFree(q) BY <2>2, <2>3 DEF NameFree, Creates
  <2>7. ProofKept(q) BY <2>1, <2>2, <2>3 DEF ProofKept
  <2> QED BY <2>3, <2>4, <2>5, <2>6, <2>7 DEF Ready
<1>11. CASE CheckInUse(r) /\ ~End(r)
  <2>1. /\ p.pc = "inUse" /\ Goto(r, "write")
        /\ \A n \in IF p.op = "rule" THEN {p.name} ELSE NamesLinkedTo(p.product) :
             ProgramsUnderName(n) = {}
    BY <1>1, <1>11 DEF CheckInUse
  <2>2. p.op \in {"rule", "productRule"} BY <1>3, <2>1 DEF Route
  <2>3. PICK q : /\ req' = [req EXCEPT ![r] = q] /\ q.pc = "write"
                 /\ q.op = p.op /\ q.id = p.id /\ q.old = p.old /\ q.new = p.new
                 /\ q.name = p.name /\ q.product = p.product /\ q.rule = p.rule
    BY <1>7, <2>1 DEF Quiet, Pcs
  <2>4. Route(q) BY <2>2, <2>3 DEF Route
  <2>5. Knows(q) BY <1>3, <2>1, <2>2, <2>3 DEF Knows, Edits
  <2>6. NameFree(q) BY <2>2, <2>3 DEF NameFree, Creates
  <2>7. ProofKept(q) BY <2>1, <2>2, <2>3 DEF ProofKept
  <2> QED BY <2>3, <2>4, <2>5, <2>6, <2>7 DEF Ready
<1> QED BY <1>6, <1>8, <1>9, <1>10, <1>11 DEF Checks

\* The steps that write nothing leave the invariant.
LEMMA ReadyStep ==
  ASSUME Shape, TurnInv, Turns, NEW r \in Reqs, NEW q, req' = [req EXCEPT ![r] = q],
         \A s \in Reqs \ {r} : req[s] = NoRequest, Ready(q),
         UNCHANGED <<world, row, name, product>>
  PROVE  TurnInv'
<1>1. InTurn' BY Passed, Same DEF Ready, TurnInv, InTurn
<1>2. Filed => InPlace' BY Passed, Same DEF Ready, TurnInv, InPlace
<1>3. Steady => Quoting' BY Passed, Same DEF Ready, TurnInv, Quoting
<1>4. (Filed' <=> Filed) /\ (Steady' <=> Steady) BY DEF Filed, Steady
<1> QED BY <1>1, <1>2, <1>3, <1>4 DEF TurnInv

\* After a write the request is over, or about to tell of it.
LEMMA Landed ==
  ASSUME Shape, TurnInv, Turns, NEW r \in Reqs, req[r].pc # "idle", UNCHANGED world,
         End(r) \/ (Goto(r, "audit") /\ req[r].op \in Edits \cup {"delete"})
  PROVE  /\ Forkless' => InTurn'
         /\ Filed /\ AllPlaced' /\ OneEach' => InPlace'
         /\ Steady /\ QuotesItsProof' => Quoting'
<1>1. PICK p : p = req[r] OBVIOUS
<1>2. p \in Request BY <1>1 DEF Shape, TypeOK
<1>3. \A s \in Reqs \ {r} : req[s] = NoRequest BY Lone DEF TurnInv
<1>4. CASE End(r)
  <2>1. Knows(NoRequest)' /\ NameFree(NoRequest)' /\ ProofKept(NoRequest)' BY NoneKnows, PTL
  <2>2. req' = [req EXCEPT ![r] = NoRequest] BY <1>4 DEF End
  <2> QED BY <1>3, <2>1, <2>2, NoneKnows, Passed
<1>5. CASE Goto(r, "audit") /\ req[r].op \in Edits \cup {"delete"}
  <2> DEFINE next == [p EXCEPT !.pc = "audit"]
  <2>1. PICK q : q = next OBVIOUS
  <2>2. req' = [req EXCEPT ![r] = q] BY <1>1, <1>5, <2>1 DEF Goto
  <2>3. /\ q.pc = "audit" /\ q.op = p.op /\ q.new = p.new
        /\ p.op \in Edits \cup {"delete"}
    BY <1>1, <1>2, <1>5, <2>1 DEF Request
  <2>4. Route(q) BY <2>3 DEF Route
  <2>5. Knows(q)' BY <2>3 DEF Knows, Edits
  <2>6. Filed => NameFree(q)'
    <3>1. Filed => NameFree(p) BY <1>1 DEF TurnInv, InPlace
    <3> QED BY <2>3, <3>1 DEF NameFree, Creates, Edits
  <2>7. ProofKept(q)' BY <2>3 DEF ProofKept, Edits
  <2> QED BY <1>3, <2>2, <2>4, <2>5, <2>6, <2>7, Passed
<1> QED BY <1>4, <1>5

\* What a save stores is what was checked, of the row that was read.
LEMMA SavedFields ==
  ASSUME Shape, TurnInv, Turns, NEW r \in Reqs, Save(r), Matches(r)
  PROVE  \E i, w :
           /\ i \in Live /\ i = req[r].id /\ row' = [row EXCEPT ![i] = w] /\ w.version > 0
           /\ row[i] = req[r].old
           /\ req[r].op = "update" => w.content = req[r].new.content /\ w.active = req[r].old.active
           /\ req[r].op = "toggle" => w.content = req[r].old.content /\ w.active = req[r].new.active
<1> DEFINE i == req[r].id
           next == [row[i] EXCEPT !.version = @ + 1]
<1>1. /\ i \in Ids /\ Exists(i) /\ row' = [row EXCEPT ![i] = Written(r)]
      /\ Written(r).version > 0
  BY WrittenType, VersionAssumption DEF Save, Matches
<1>2. row[i] = req[r].old
  BY DEF TurnInv, InTurn, Knows, Save, Edits
<1>3. row[i] \in Row BY <1>1, Versions DEF Shape
<1>4. next \in [version : Nat, active : BOOLEAN, content : Content]
      /\ next.active = row[i].active /\ next.content = row[i].content
  BY <1>3, VersionAssumption DEF Row
<1> HIDE DEF next
<1>5. Written(r) = IF req[r].op = "update" THEN [next EXCEPT !.content = req[r].new.content]
                                           ELSE [next EXCEPT !.active = req[r].new.active]
  BY DEF Written, next
<1>6. /\ req[r].op = "update" => /\ Written(r).content = req[r].new.content
                                 /\ Written(r).active = req[r].old.active
      /\ req[r].op = "toggle" => /\ Written(r).content = req[r].old.content
                                 /\ Written(r).active = req[r].new.active
  BY <1>2, <1>4, <1>5
<1> QED BY <1>1, <1>2, <1>6 DEF Live

\* A name is linked only without a rule, and ruled only without a link.
LEMMA WriteForkless ==
  ASSUME Shape, InTurn, NEW r \in Reqs, Writes(r) PROVE Forkless'
<1>1. Forkless BY DEF InTurn
<1>2. CASE UNCHANGED name BY <1>1, <1>2 DEF Forkless
<1>3. CASE WriteCatalog(r) /\ req[r].op = "rule"
  <2>1. PICK n \in Names : n = req[r].name BY <1>3 DEF Shape, Fit
  <2>2. name' = [name EXCEPT ![n].own = req[r].rule] BY <1>3, <2>1 DEF WriteCatalog
  <2>3. name[n].product = None BY <1>3, <2>1 DEF InTurn, Knows
  <2>4. name[n] \in NameRow BY DEF Shape, TypeOK
  <2>5. /\ name'[n].product = None
        /\ \A m \in Names \ {n} : name'[m] = name[m]
    BY <2>2, <2>3, <2>4 DEF NameRow, Shape, TypeOK
  <2> QED BY <1>1, <2>5 DEF Forkless
<1>4. CASE WriteCatalog(r) /\ req[r].op = "link"
  <2>1. PICK n \in Names : n = req[r].name BY <1>4 DEF Shape, Fit
  <2>2. name' = [name EXCEPT ![n].product = req[r].product] BY <1>4, <2>1 DEF WriteCatalog
  <2>3. req[r].product # None => name[n].own = None BY <1>4, <2>1 DEF InTurn, Knows
  <2>4. name[n] \in NameRow BY DEF Shape, TypeOK
  <2>5. /\ name'[n].product = req[r].product /\ name'[n].own = name[n].own
        /\ \A m \in Names \ {n} : name'[m] = name[m]
    BY <2>2, <2>4 DEF NameRow, Shape, TypeOK
  <2> QED BY <1>1, <2>3, <2>5 DEF Forkless
<1>5. CASE WriteCatalog(r) /\ req[r].op = "productRule" BY <1>2, <1>5 DEF WriteCatalog
<1>6. CASE Insert(r) BY <1>2, <1>6 DEF Insert
<1>7. CASE Save(r) BY <1>2, <1>7 DEF Save
<1>8. CASE Delete(r) BY <1>2, <1>8 DEF Delete
<1>9. CASE Audit(r) BY <1>2, <1>9 DEF Audit
<1>10. WriteCatalog(r) => req[r].op \in {"rule", "link", "productRule"} BY DEF WriteCatalog
<1> QED BY <1>3, <1>4, <1>5, <1>6, <1>7, <1>8, <1>9, <1>10 DEF Writes

\* The name at a bank with an id, taken apart.
LEMMA SameNameIs ==
  ASSUME NEW c, c.bank \in Banks, Placed(c), NEW S, AllPlaced,
         SameNameAtBank(c, S) = {}, NEW j \in Live \ S
  PROVE  row[j].content.bank # c.bank \/ row[j].content.name # c.name
<1>1. c.bankId = c.bank /\ c.bankId # None BY NoneAssumption DEF Placed
<1>2. row[j].content.bankId = row[j].content.bank BY DEF AllPlaced, Placed
<1>3. j \notin SameNameAtBank(c, S) OBVIOUS
<1> QED BY <1>1, <1>2, <1>3 DEF SameNameAtBank

\* A program under a name that is free at its bank.
LEMMA WriteInPlace ==
  ASSUME Shape, TurnInv, Turns, Filed, NEW r \in Reqs, Writes(r)
  PROVE  AllPlaced' /\ OneEach'
<1>1. AllPlaced /\ OneEach /\ NameFree(req[r]) BY DEF TurnInv, InPlace
<1>2. Fit(req[r]) BY DEF Shape
<1>3. CASE UNCHANGED row
  <2>1. Live' = Live BY <1>3 DEF Live, Exists
  <2> QED BY <1>1, <1>3, <2>1 DEF AllPlaced, OneEach, Placed
<1>4. ASSUME NEW i \in Ids, NEW w, row' = [row EXCEPT ![i] = w], Live' = Live \cup {i},
             w.content \in Content, Placed(w.content),
             SameNameAtBank(w.content, {i}) = {}
      PROVE  AllPlaced' /\ OneEach'
  <2>1. \A j \in Ids : row'[j] = IF j = i THEN w ELSE row[j]
    BY <1>4 DEF Shape, TypeOK
  <2>2. \A j \in Live' : j \in Ids /\ (j # i => j \in Live) BY <1>4 DEF Live
  <2>3. AllPlaced' BY <1>1, <1>4, <2>1, <2>2 DEF AllPlaced, Placed
  <2>4. \A j \in Live \ {i} : \/ row[j].content.bank # w.content.bank
                              \/ row[j].content.name # w.content.name
    BY <1>1, <1>4, SameNameIs DEF Content
  <2>5. OneEach' BY <1>1, <1>4, <2>1, <2>2, <2>4 DEF OneEach
  <2> QED BY <2>3, <2>5
<1>5. CASE Insert(r)
  <2>1. PICK i \in Ids : ~Exists(i) /\ row' = [row EXCEPT ![i] = req[r].new]
    BY <1>5 DEF Insert
  <2>2. /\ req[r].new \in Row /\ req[r].new.version = 1 /\ req[r].op \in Creates
        /\ req[r].pc = "write"
    BY <1>2, <1>5 DEF Fit, Insert, Creates
  <2>3. Live' = Live \cup {i}
    <3>1. \A j \in Ids : row'[j] = IF j = i THEN req[r].new ELSE row[j]
      BY <2>1 DEF Shape, TypeOK
    <3> QED BY <2>2, <3>1 DEF Live, Exists
  <2>4. Placed(req[r].new.content) /\ SameNameAtBank(req[r].new.content, {}) = {}
    BY <1>1, <2>2 DEF NameFree
  <2>5. SameNameAtBank(req[r].new.content, {i}) = {} BY <2>4 DEF SameNameAtBank
  <2>6. PICK w : w = req[r].new OBVIOUS
  <2>7. w.content \in Content BY <2>2, <2>6 DEF Row
  <2> QED BY <1>4, <2>1, <2>3, <2>4, <2>5, <2>6, <2>7
<1>6. CASE Save(r) /\ Matches(r)
  <2>1. PICK i, w :
          /\ i \in Live /\ i = req[r].id /\ row' = [row EXCEPT ![i] = w] /\ w.version > 0
          /\ row[i] = req[r].old
          /\ req[r].op = "update" => w.content = req[r].new.content /\ w.active = req[r].old.active
          /\ req[r].op = "toggle" => w.content = req[r].old.content /\ w.active = req[r].new.active
    BY <1>6, SavedFields
  <2>2. \A j \in Ids : row'[j] = IF j = i THEN w ELSE row[j]
    BY <2>1 DEF Shape, TypeOK
  <2>3. Live' = Live BY <2>1, <2>2 DEF Live, Exists
  <2>4. req[r].pc = "write" /\ req[r].op \in Edits /\ i \in Ids
    BY <1>6, <2>1 DEF Save, Edits, Live
  <2>5. CASE req[r].op = "update"
    <3>1. w.content = req[r].new.content /\ w.content \in Content
      BY <1>2, <2>1, <2>4, <2>5 DEF Fit, Row
    <3>2. Placed(w.content) /\ SameNameAtBank(w.content, {i}) = {}
      BY <1>1, <2>1, <2>4, <2>5, <3>1 DEF NameFree
    <3> QED BY <1>4, <2>1, <2>3, <2>4, <3>1, <3>2
  <2>6. CASE req[r].op = "toggle"
    <3>1. w.content = row[i].content BY <2>1, <2>6
    <3>2. \A j \in Live : row'[j].content = row[j].content BY <2>2, <3>1 DEF Live
    <3> QED BY <1>1, <2>3, <3>2 DEF AllPlaced, OneEach, Placed
  <2> QED BY <2>4, <2>5, <2>6 DEF Edits
<1>7. CASE Delete(r) /\ Exists(req[r].id)
  <2>1. PICK i \in Ids : i = req[r].id BY <1>2, <1>7 DEF Fit, Delete
  <2>2. \A j \in Ids : row'[j] = IF j = i THEN NoRow ELSE row[j]
    BY <1>7, <2>1 DEF Delete, Shape, TypeOK
  <2>3. Live' = Live \ {i} BY <2>2 DEF Live, Exists, NoRow
  <2>4. \A j \in Live' : j \in Live /\ row'[j] = row[j] BY <2>2, <2>3 DEF Live
  <2> QED BY <1>1, <2>4 DEF AllPlaced, OneEach, Placed
<1>8. Save(r) => Matches(r) \/ UNCHANGED row BY DEF Save
<1>9. Delete(r) => Exists(req[r].id) \/ UNCHANGED row BY DEF Delete
<1>10. Audit(r) \/ WriteCatalog(r) => UNCHANGED row BY DEF Audit, WriteCatalog
<1> QED BY <1>3, <1>5, <1>6, <1>7, <1>8, <1>9, <1>10 DEF Writes

\* What is written quotes the proof it was found to read, and no proof that a program
\* reads changes.
LEMMA WriteQuotes ==
  ASSUME Shape, TurnInv, Turns, Steady, NEW r \in Reqs, Writes(r)
  PROVE  QuotesItsProof'
<1>1. QuotesItsProof /\ ProofKept(req[r]) BY DEF TurnInv, Quoting
<1>2. Fit(req[r]) BY DEF Shape
<1>3. QuotesItsProof <=>
        \A i \in Live : row[i].active => Reads(row[i].content)
  BY DEF QuotesItsProof, Reads
<1>4. ASSUME UNCHANGED <<name, product>>, NEW i \in Ids, NEW w, row' = [row EXCEPT ![i] = w],
             w.active => Reads(w.content), Live' \subseteq Live \cup {i}
      PROVE  QuotesItsProof'
  <2>1. \A j \in Ids : row'[j] = IF j = i THEN w ELSE row[j]
    BY <1>4 DEF Shape, TypeOK
  <2>2. \A n : CatalogProof(n)' = CatalogProof(n) BY <1>4 DEF CatalogProof
  <2>3. ASSUME NEW j \in Live', row'[j].active, row'[j].content.surrogate
        PROVE  CatalogProof(row'[j].content.name) = row'[j].content.proof
    <3>1. CASE j = i BY <1>4, <2>1, <2>3, <3>1 DEF Reads
    <3>2. CASE j # i
      <4>1. j \in Live /\ row'[j] = row[j] BY <1>4, <2>1, <3>2 DEF Live
      <4> QED BY <1>1, <2>3, <4>1 DEF QuotesItsProof
    <3> QED BY <3>1, <3>2
  <2> QED BY <2>2, <2>3 DEF QuotesItsProof
<1>5. ASSUME UNCHANGED row,
             \A n : ProgramsUnderName(n) # {} => CatalogProof(n)' = CatalogProof(n)
      PROVE  QuotesItsProof'
  <2>1. Live' = Live BY <1>5 DEF Live, Exists
  <2>2. ASSUME NEW j \in Live, row[j].active, row[j].content.surrogate
        PROVE  CatalogProof(row[j].content.name)' = row[j].content.proof
    <3>1. j \in ProgramsUnderName(row[j].content.name) BY <2>2 DEF ProgramsUnderName
    <3>2. PICK n : n = row[j].content.name OBVIOUS
    <3>3. row'[j].content.name = n BY <1>5, <3>2
    <3>4. CatalogProof(n)' = CatalogProof(n) BY <1>5, <3>1, <3>2
    <3>5. CatalogProof(n) = row[j].content.proof BY <1>1, <2>2, <3>2 DEF QuotesItsProof
    <3> QED BY <3>3, <3>4, <3>5 DEF CatalogProof
  <2> QED BY <1>5, <2>1, <2>2 DEF QuotesItsProof, CatalogProof
<1>6. CASE Insert(r)
  <2>1. PICK i \in Ids : ~Exists(i) /\ row' = [row EXCEPT ![i] = req[r].new]
    BY <1>6 DEF Insert
  <2>2. PICK w : w = req[r].new OBVIOUS
  <2>3. w.active => Reads(w.content) BY <1>1, <1>6, <2>2 DEF ProofKept, Insert
  <2>4. \A j \in Ids : row'[j] = IF j = i THEN w ELSE row[j]
    BY <2>1, <2>2 DEF Shape, TypeOK
  <2>5. Live' \subseteq Live \cup {i} BY <2>4 DEF Live, Exists
  <2> QED BY <1>4, <1>6, <2>1, <2>2, <2>3, <2>5 DEF Insert
<1>7. CASE Save(r) /\ Matches(r)
  <2>1. PICK i, w :
          /\ i \in Live /\ i = req[r].id /\ row' = [row EXCEPT ![i] = w] /\ w.version > 0
          /\ row[i] = req[r].old
          /\ req[r].op = "update" => w.content = req[r].new.content /\ w.active = req[r].old.active
          /\ req[r].op = "toggle" => w.content = req[r].old.content /\ w.active = req[r].new.active
    BY <1>7, SavedFields
  <2>2. req[r].pc = "write" /\ req[r].op \in Edits /\ i \in Ids /\ UNCHANGED <<name, product>>
    BY <1>7, <2>1 DEF Save, Edits, Live
  <2>3. \A j \in Ids : row'[j] = IF j = i THEN w ELSE row[j]
    BY <2>1 DEF Shape, TypeOK
  <2>4. Live' \subseteq Live \cup {i} BY <2>3 DEF Live, Exists
  <2>5. w.active => Reads(w.content) BY <1>1, <2>1, <2>2 DEF ProofKept, Edits
  <2> QED BY <1>4, <2>1, <2>2, <2>4, <2>5
<1>8. CASE Delete(r) /\ Exists(req[r].id)
  <2>1. PICK i \in Ids : i = req[r].id BY <1>2, <1>8 DEF Fit, Delete
  <2>2. row' = [row EXCEPT ![i] = NoRow] /\ UNCHANGED <<name, product>>
    BY <1>8, <2>1 DEF Delete
  <2>3. \A j \in Ids : row'[j] = IF j = i THEN NoRow ELSE row[j]
    BY <2>2 DEF Shape, TypeOK
  <2>4. Live' \subseteq Live \cup {i} BY <2>3 DEF Live, Exists
  <2>5. PICK w : w = NoRow OBVIOUS
  <2>6. ~w.active BY <2>5 DEF NoRow
  <2> QED BY <1>4, <2>2, <2>4, <2>5, <2>6
<1>9. CASE WriteCatalog(r) /\ req[r].op = "rule"
  <2>1. PICK n \in Names : n = req[r].name BY <1>2, <1>9 DEF Fit
  <2>2. PICK p : p = req[r].rule OBVIOUS
  <2>3. /\ req[r].pc = "write" /\ UNCHANGED <<row, product>>
        /\ name' = [name EXCEPT ![n].own = p]
    BY <1>9, <2>1, <2>2 DEF WriteCatalog
  <2>4. name[n] \in NameRow BY DEF Shape, TypeOK
  <2>5. p = name[n].own \/ ProgramsUnderName(n) = {}
    BY <1>1, <1>9, <2>1, <2>2, <2>3 DEF ProofKept
  <2>6. CASE p = name[n].own
    <3>1. [name[n] EXCEPT !.own = p] = name[n] BY <2>4, <2>6 DEF NameRow
    <3>2. name' = name BY <2>3, <3>1 DEF Shape, TypeOK
    <3> QED BY <1>5, <2>3, <3>2 DEF CatalogProof
  <2>7. CASE ProgramsUnderName(n) = {}
    <3>1. \A m \in Names \ {n} : name'[m] = name[m] BY <2>3 DEF Shape, TypeOK
    <3>2. \A m : ProgramsUnderName(m) # {} => m \in Names \ {n}
      <4>1. \A j \in Live : row[j].content.name \in Names
        BY Versions DEF Live, Shape, Row, Content
      <4> QED BY <2>7, <4>1 DEF ProgramsUnderName
    <3> QED BY <1>5, <2>3, <3>1, <3>2 DEF CatalogProof
  <2> QED BY <2>5, <2>6, <2>7
<1>10. CASE WriteCatalog(r) /\ req[r].op = "link"
  <2>1. PICK n \in Names : n = req[r].name BY <1>2, <1>10 DEF Fit
  <2>2. PICK p : p = req[r].product OBVIOUS
  <2>3. UNCHANGED <<row, product>> /\ name' = [name EXCEPT ![n].product = p]
    BY <1>10, <2>1, <2>2 DEF WriteCatalog
  <2>4. ProgramsUnderName(n) = {} BY <1>1, <1>10, <2>1 DEF ProofKept
  <2>5. \A m \in Names \ {n} : name'[m] = name[m] BY <2>3 DEF Shape, TypeOK
  <2>6. \A m : ProgramsUnderName(m) # {} => m \in Names \ {n}
    <3>1. \A j \in Live : row[j].content.name \in Names
      BY Versions DEF Live, Shape, Row, Content
    <3> QED BY <2>4, <3>1 DEF ProgramsUnderName
  <2> QED BY <1>5, <2>3, <2>5, <2>6 DEF CatalogProof
<1>11. CASE WriteCatalog(r) /\ req[r].op = "productRule"
  <2>1. PICK q \in Products : q = req[r].product BY <1>2, <1>11 DEF Fit
  <2>2. PICK p : p = req[r].rule OBVIOUS
  <2>3. /\ req[r].pc = "write" /\ UNCHANGED <<row, name>>
        /\ product' = [product EXCEPT ![q] = p]
    BY <1>11, <2>1, <2>2 DEF WriteCatalog
  <2>4. p = product[q] \/ \A n \in NamesLinkedTo(q) : ProgramsUnderName(n) = {}
    BY <1>1, <1>11, <2>1, <2>2, <2>3 DEF ProofKept
  <2>5. CASE p = product[q]
    <3>1. product' = product BY <2>3, <2>5 DEF Shape, TypeOK
    <3> QED BY <1>5, <2>3, <3>1 DEF CatalogProof
  <2>6. CASE \A n \in NamesLinkedTo(q) : ProgramsUnderName(n) = {}
    <3>1. \A x \in Products \ {q} : product'[x] = product[x] BY <2>3 DEF Shape, TypeOK
    <3>2. ASSUME NEW m, ProgramsUnderName(m) # {}
          PROVE  m \in Names /\ name[m].product \in (Products \ {q}) \cup {None}
      <4>1. \A j \in Live : row[j].content.name \in Names
        BY Versions DEF Live, Shape, Row, Content
      <4>2. m \in Names BY <3>2, <4>1 DEF ProgramsUnderName
      <4>3. m \notin NamesLinkedTo(q) BY <2>6, <3>2
      <4> QED BY <4>2, <4>3 DEF NamesLinkedTo, Shape, TypeOK, NameRow
    <3> QED BY <1>5, <2>3, <3>1, <3>2 DEF CatalogProof
  <2> QED BY <2>4, <2>5, <2>6
<1>12. CASE UNCHANGED <<row, name, product>> BY <1>1, <1>12, Same
<1>13. (Save(r) /\ ~Matches(r)) \/ (Delete(r) /\ ~Exists(req[r].id)) \/ Audit(r)
         => UNCHANGED <<row, name, product>>
  BY DEF Save, Delete, Audit
<1>14. WriteCatalog(r) => req[r].op \in {"rule", "link", "productRule"} BY DEF WriteCatalog
<1> QED BY <1>6, <1>7, <1>8, <1>9, <1>10, <1>11, <1>12, <1>13, <1>14 DEF Writes

LEMMA TurnStep == ASSUME Shape, TurnInv, [Next]_vars PROVE TurnInv'
<1>1. UNCHANGED world BY DEF Next, vars
<1>2. (Turns' <=> Turns) /\ (Filed' <=> Filed) /\ (Steady' <=> Steady)
  BY <1>1 DEF Turns, Filed, Steady
<1>3. (Filed => Turns) /\ (Steady => Turns) BY DEF Filed, Steady, Turns
<1>4. SUFFICES ASSUME Turns PROVE TurnInv' BY <1>2, <1>3 DEF TurnInv
<1>5. InTurn /\ (Filed => InPlace) /\ (Steady => Quoting) BY <1>4 DEF TurnInv
<1>6. ASSUME NEW r \in Reqs, Starts(r) PROVE TurnInv'
  <2>1. Idle(r) /\ UNCHANGED <<row, name, product>>
    BY <1>6 DEF Starts, StartCreate, StartDuplicate, StartUpdate, StartToggle,
       StartDelete, StartRule, StartProductRule, StartLink
  <2>2. \A s \in Reqs \ {r} : req[s] = NoRequest BY <1>4, <1>5, <2>1, Idlers
  <2>3. PICK q : req' = [req EXCEPT ![r] = q] /\ Opening(q) BY <1>6, Opened
  <2>4. Ready(q) BY <2>3, OpeningKnows
  <2> QED BY <1>1, <1>4, <2>1, <2>2, <2>3, <2>4, ReadyStep
<1>7. ASSUME NEW r \in Reqs, Checks(r) PROVE TurnInv'
  <2>1. req[r].pc # "idle" /\ UNCHANGED <<row, name, product>>
    BY <1>7 DEF Checks, CheckNameFree, CheckProof, CheckActivatable, CheckInUse
  <2>2. \A s \in Reqs \ {r} : req[s] = NoRequest BY <1>5, <2>1, Lone
  <2>3. PICK q : req' = [req EXCEPT ![r] = q] /\ Ready(q) BY <1>4, <1>7, Checked
  <2> QED BY <1>1, <1>4, <2>1, <2>2, <2>3, ReadyStep
<1>8. ASSUME NEW r \in Reqs, Writes(r) PROVE TurnInv'
  <2>1. /\ req[r].pc # "idle"
        /\ End(r) \/ (Goto(r, "audit") /\ req[r].op \in Edits \cup {"delete"})
    BY <1>8 DEF Writes, Insert, Save, Delete, Audit, WriteCatalog, Edits
  <2>2. Forkless' BY <1>5, <1>8, WriteForkless
  <2>3. Filed => AllPlaced' /\ OneEach' BY <1>4, <1>8, WriteInPlace
  <2>4. Steady => QuotesItsProof' BY <1>4, <1>8, WriteQuotes
  <2>5. InTurn' /\ (Filed => InPlace') /\ (Steady => Quoting')
    BY <1>1, <1>4, <2>1, <2>2, <2>3, <2>4, Landed
  <2> QED BY <1>2, <2>5 DEF TurnInv
<1>9. CASE Crash
  <2>1. UNCHANGED <<row, name, product>> /\ \A s \in Reqs : req'[s] = NoRequest
    BY <1>9 DEF Crash
  <2>2. Knows(NoRequest)' /\ NameFree(NoRequest)' /\ ProofKept(NoRequest)' BY NoneKnows, PTL
  <2>3. InTurn' BY <1>5, <2>1, <2>2, NoneKnows, Same DEF InTurn
  <2>4. Filed => InPlace' BY <1>5, <2>1, <2>2, Same DEF InPlace
  <2>5. Steady => Quoting' BY <1>5, <2>1, <2>2, Same DEF Quoting
  <2> QED BY <1>2, <2>3, <2>4, <2>5 DEF TurnInv
<1>10. CASE UNCHANGED vars
  <2>1. UNCHANGED <<row, name, product>> /\ req' = req BY <1>10 DEF vars
  <2>2. InTurn' BY <1>5, <2>1, Same DEF InTurn
  <2>3. Filed => InPlace' BY <1>5, <2>1, Same DEF InPlace
  <2>4. Steady => Quoting' BY <1>5, <2>1, Same DEF Quoting
  <2> QED BY <1>2, <2>2, <2>3, <2>4 DEF TurnInv
<1> QED BY <1>6, <1>7, <1>8, <1>9, <1>10, NextCases DEF Starts

LEMMA InitTurn == Init => TurnInv
<1> SUFFICES ASSUME Init PROVE TurnInv OBVIOUS
<1>1. \A r \in Reqs : req[r] = NoRequest BY DEF Init
<1>2. ASSUME NEW i \in Ids PROVE ~Exists(i)
  <2>1. row[i].version = 0 BY DEF Init, NoRow
  <2> QED BY <2>1 DEF Exists
<1>3. Live = {} BY <1>2 DEF Live
<1>4. Forkless
  <2>1. \A n \in Names : name[n] \in {m \in NameRow : m.own = None \/ m.product = None}
    BY DEF Init
  <2> QED BY <2>1 DEF Forkless
<1>5. InTurn BY <1>1, <1>4, NoneKnows DEF InTurn
<1>6. InPlace BY <1>1, <1>3, NoneKnows DEF InPlace, AllPlaced, OneEach
<1>7. Quoting BY <1>1, <1>3, NoneKnows DEF Quoting, QuotesItsProof
<1> QED BY <1>5, <1>6, <1>7 DEF TurnInv

LEMMA TurnsHold == Spec => [](Shape /\ TurnInv)
BY InitShape, ShapeStep, InitTurn, TurnStep, PTL DEF Spec

\* setProgramNameIncomeRule and the link of a name: admins who take turns never leave a
\* name with a rule of its own and a product.
THEOREM NoNameForks == Spec => []NoFork
<1>1. TurnInv => NoFork BY DEF TurnInv, Turns, InTurn, Forkless, NoFork
<1> QED BY <1>1, TurnsHold, PTL

\* assertNameFreeAtBank: while admins take turns and every program has its bankId, no
\* bank sells two programs under one name, whatever the banks, names and programs.
THEOREM NamesAreSoldOnce == Spec => []OneProgramPerName
<1>1. TurnInv => OneProgramPerName
  BY DEF TurnInv, Filed, InPlace, OneEach, OneProgramPerName
<1> QED BY <1>1, TurnsHold, PTL

\* assertIncomeProofMatchesName, assertActivatable, INCOME_PROOF_IN_USE: together they
\* keep every live surrogate program on the proof of its name, while admins take turns.
THEOREM LiveProgramsReadTheirProof == Spec => []LiveReadsItsProof
<1>1. TurnInv => LiveReadsItsProof
  BY DEF TurnInv, Steady, Quoting, LiveReadsItsProof
<1> QED BY <1>1, TurnsHold, PTL

-----------------------------------------------------------------------------
LEMMA ListEmpty ==
  /\ List!NoRequest \in List!Request /\ List!NoEntry \in List!Entry
  /\ \A S \in SUBSET Values : List!Members(S) \in List!Entry /\ List!Members(S) # List!NoEntry
BY DEF List!NoRequest, List!Request, List!NoEntry, List!Entry, List!Members

\* What happens to the other requests is that they are no longer alone.
LEMMA NotAlone ==
  ASSUME NEW q \in List!Request
  PROVE  /\ [q EXCEPT !.alone = FALSE] \in List!Request
         /\ [q EXCEPT !.alone = FALSE].pc = q.pc
         /\ [q EXCEPT !.alone = FALSE].op = q.op
         /\ [q EXCEPT !.alone = FALSE].value = q.value
         /\ [q EXCEPT !.alone = FALSE].rows = q.rows
         /\ [q EXCEPT !.alone = FALSE].missed = q.missed
         /\ ~[q EXCEPT !.alone = FALSE].alone
BY DEF List!Request

\* A judgement ends the request or lets it write.
LEMMA JudgeType ==
  ASSUME List!TypeOK, NEW r \in Reqs, NEW rows \in SUBSET Values, List!Judge(r, rows)
  PROVE  /\ listReq' \in [Reqs -> List!Request]
         /\ \A s \in Reqs \ {r} : listReq'[s] = listReq[s]
         /\ \/ listReq'[r] = List!NoRequest
            \/ /\ ~(List!Cardinality(rows \ {listReq[r].value}) < Least)
               /\ listReq'[r].pc = "write" /\ listReq'[r].op = listReq[r].op
               /\ listReq'[r].value = listReq[r].value /\ listReq'[r].alone = listReq[r].alone
<1>1. CASE List!Cardinality(rows \ {listReq[r].value}) < Least
  BY <1>1, ListEmpty DEF List!Judge, List!End, List!TypeOK
<1>2. CASE ~(List!Cardinality(rows \ {listReq[r].value}) < Least)
  <2>1. listReq' = [listReq EXCEPT ![r].pc = "write", ![r].rows = {}] BY <1>2 DEF List!Judge
  <2>2. listReq[r] \in List!Request BY DEF List!TypeOK
  <2>3. listReq'[r] = [listReq[r] EXCEPT !.pc = "write", !.rows = {}] BY <2>1 DEF List!TypeOK
  <2>4. listReq'[r] \in List!Request BY <2>2, <2>3 DEF List!Request
  <2>5. /\ listReq'[r].pc = "write" /\ listReq'[r].op = listReq[r].op
        /\ listReq'[r].value = listReq[r].value /\ listReq'[r].alone = listReq[r].alone
    BY <2>2, <2>3 DEF List!Request
  <2> QED BY <1>2, <2>1, <2>4, <2>5 DEF List!TypeOK
<1> QED BY <1>1, <1>2

\* The steps of a request, as far as they concern the request itself and the others.
LEMMA ReqSteps ==
  ASSUME List!TypeOK, NEW r \in Reqs
  PROVE  /\ List!Survey(r) \/ List!Surveyed(r) \/ List!Write(r) \/ List!Invalidate(r) \/ List!ReadOptions(r)
              \/ List!Sync(r) \/ List!Fail(r)
              => /\ listReq' \in [Reqs -> List!Request]
                 /\ \A s \in Reqs \ {r} : listReq'[s] = listReq[s]
         /\ List!Survey(r) /\ ~cache.stored
              => /\ listReq'[r].pc = "surveyed" /\ listReq'[r].op = listReq[r].op
                 /\ listReq'[r].value = listReq[r].value /\ listReq'[r].rows = live
                 /\ listReq'[r].alone = listReq[r].alone
         /\ List!Write(r) => listReq'[r].pc = "invalidate" /\ listReq'[r].alone = listReq[r].alone
         /\ List!Invalidate(r) => listReq'[r].pc = "sync" /\ listReq'[r].alone = listReq[r].alone
         /\ List!ReadOptions(r) => /\ listReq'[r].pc = "synced" /\ listReq'[r].alone = listReq[r].alone
                                   /\ listReq'[r].missed = ~cache.stored
                                   /\ listReq'[r].rows = IF cache.stored THEN cache.members ELSE live
         /\ List!Sync(r) \/ List!Fail(r) => listReq'[r] = List!NoRequest
<1> DEFINE q == listReq[r]
<1>0. q \in List!Request /\ cache \in List!Entry /\ live \in SUBSET Values BY DEF List!TypeOK
<1>1. cache.stored \in BOOLEAN /\ cache.members \in SUBSET Values BY <1>0 DEF List!Entry
<1>2. q.rows \in SUBSET Values /\ q.alone \in BOOLEAN BY <1>0 DEF List!Request
<1>3. CASE List!Survey(r) /\ cache.stored
  <2>1. List!Judge(r, cache.members) BY <1>3 DEF List!Survey
  <2>2. listReq' \in [Reqs -> List!Request] /\ \A s \in Reqs \ {r} : listReq'[s] = listReq[s]
    BY <1>1, <2>1, JudgeType
  <2>3. ~(List!Write(r) \/ List!Invalidate(r) \/ List!ReadOptions(r) \/ List!Sync(r) \/ List!Fail(r))
    BY <1>3 DEF List!Survey, List!Write, List!Invalidate, List!ReadOptions, List!Sync, List!Fail
  <2> QED BY <1>3, <2>2, <2>3
<1>4. CASE List!Survey(r) /\ ~cache.stored
  <2>1. listReq' = [listReq EXCEPT ![r].pc = "surveyed", ![r].rows = live] BY <1>4 DEF List!Survey
  <2>2. listReq'[r] = [q EXCEPT !.pc = "surveyed", !.rows = live] BY <2>1 DEF List!TypeOK
  <2>3. /\ listReq'[r] \in List!Request /\ listReq'[r].pc = "surveyed" /\ listReq'[r].op = q.op
        /\ listReq'[r].value = q.value /\ listReq'[r].rows = live /\ listReq'[r].alone = q.alone
    BY <1>0, <2>2 DEF List!Request
  <2> QED
    BY <1>4, <2>1, <2>3 DEF List!TypeOK, List!Survey, List!Write, List!Invalidate,
       List!ReadOptions, List!Sync, List!Fail
<1>5. CASE List!Surveyed(r)
  <2>1. List!Judge(r, q.rows) BY <1>5 DEF List!Surveyed
  <2>2. listReq' \in [Reqs -> List!Request] /\ \A s \in Reqs \ {r} : listReq'[s] = listReq[s]
    BY <1>2, <2>1, JudgeType
  <2>3. ~(List!Survey(r) \/ List!Write(r) \/ List!Invalidate(r) \/ List!ReadOptions(r) \/ List!Sync(r) \/ List!Fail(r))
    BY <1>5 DEF List!Surveyed, List!Survey, List!Write, List!Invalidate,
       List!ReadOptions, List!Sync, List!Fail
  <2> QED BY <1>5, <2>2, <2>3
<1>6. CASE List!Write(r)
  <2>1. listReq' = [listReq EXCEPT ![r] = [List!NoRequest EXCEPT !.pc = "invalidate", !.alone = q.alone]]
    BY <1>6 DEF List!Write
  <2>2. listReq'[r] = [List!NoRequest EXCEPT !.pc = "invalidate", !.alone = q.alone]
    BY <2>1 DEF List!TypeOK
  <2>3. listReq'[r] \in List!Request /\ listReq'[r].pc = "invalidate" /\ listReq'[r].alone = q.alone
    BY <1>2, <2>2, ListEmpty DEF List!Request, List!NoRequest
  <2> QED
    BY <1>6, <2>1, <2>3 DEF List!TypeOK, List!Survey, List!Write, List!Invalidate,
       List!ReadOptions, List!Sync, List!Fail
<1>7. CASE List!Invalidate(r)
  <2>1. listReq' = [listReq EXCEPT ![r].pc = "sync"] BY <1>7 DEF List!Invalidate, List!Goto
  <2>2. listReq'[r] = [q EXCEPT !.pc = "sync"] BY <2>1 DEF List!TypeOK
  <2>3. listReq'[r] \in List!Request /\ listReq'[r].pc = "sync" /\ listReq'[r].alone = q.alone
    BY <1>0, <2>2 DEF List!Request
  <2> QED
    BY <1>7, <2>1, <2>3 DEF List!TypeOK, List!Survey, List!Write, List!Invalidate,
       List!ReadOptions, List!Sync, List!Fail
<1>8. CASE List!ReadOptions(r)
  <2> DEFINE rows == IF cache.stored THEN cache.members ELSE live
  <2>1. listReq' = [listReq EXCEPT ![r].pc = "synced", ![r].missed = ~cache.stored, ![r].rows = rows]
    BY <1>8 DEF List!ReadOptions
  <2>2. listReq'[r] = [q EXCEPT !.pc = "synced", !.missed = ~cache.stored, !.rows = rows]
    BY <2>1 DEF List!TypeOK
  <2>3. rows \in SUBSET Values BY <1>0, <1>1
  <2>4. /\ listReq'[r] \in List!Request /\ listReq'[r].pc = "synced" /\ listReq'[r].alone = q.alone
        /\ listReq'[r].missed = ~cache.stored /\ listReq'[r].rows = rows
    BY <1>0, <1>1, <2>2, <2>3 DEF List!Request
  <2> HIDE DEF rows
  <2>5. listReq' \in [Reqs -> List!Request] /\ \A s \in Reqs \ {r} : listReq'[s] = listReq[s]
    BY <2>1, <2>2, <2>4 DEF List!TypeOK
  <2>6. ~(List!Survey(r) \/ List!Write(r) \/ List!Invalidate(r) \/ List!Sync(r))
    BY <1>8 DEF List!Survey, List!Write, List!Invalidate, List!ReadOptions, List!Sync
  <2>7. ~List!Fail(r)
    BY <1>8, <2>4 DEF List!ReadOptions, List!Fail, List!End, List!TypeOK, List!NoRequest
  <2> QED BY <2>4, <2>5, <2>6, <2>7 DEF rows
<1>9. CASE List!Sync(r) \/ List!Fail(r)
  <2>1. listReq' = [listReq EXCEPT ![r] = List!NoRequest] BY <1>9 DEF List!Sync, List!Fail, List!End
  <2>2. /\ listReq' \in [Reqs -> List!Request] /\ listReq'[r] = List!NoRequest
        /\ \A s \in Reqs \ {r} : listReq'[s] = listReq[s]
    BY <2>1, ListEmpty DEF List!TypeOK
  <2>3. ~(List!Survey(r) \/ List!Write(r) \/ List!Invalidate(r))
    BY <1>9 DEF List!Survey, List!Write, List!Invalidate, List!Sync, List!Fail
  <2>4. ~List!ReadOptions(r)
    <3>1. SUFFICES ASSUME List!ReadOptions(r) PROVE FALSE OBVIOUS
    <3>2. listReq'[r].pc = "synced" BY <3>1 DEF List!ReadOptions, List!TypeOK, List!Request
    <3> QED BY <2>2, <3>2 DEF List!NoRequest
  <2> QED BY <2>2, <2>3, <2>4
<1> QED BY <1>3, <1>4, <1>5, <1>6, <1>7, <1>8, <1>9

\* A request that begins, and the others.
LEMMA StartSteps ==
  ASSUME List!TypeOK, NEW r \in Reqs, List!Start(r)
  PROVE  /\ listReq' \in [Reqs -> List!Request]
         /\ listReq'[r].pc = IF listReq'[r].op = "drop" THEN "survey" ELSE "write"
         /\ listReq'[r].op \in {"add", "drop"} /\ listReq'[r].value \in Values
         /\ listReq'[r].alone => List!Busy = {} /\ List!Filling = {}
         /\ \A s \in Reqs \ {r} : listReq'[s] = [listReq[s] EXCEPT !.alone = FALSE]
<1>1. PICK op \in {"add", "drop"}, v \in Values :
        listReq' = [q \in Reqs |->
            IF q = r
            THEN [pc |-> IF op = "drop" THEN "survey" ELSE "write", op |-> op, value |-> v,
                  rows |-> {}, missed |-> FALSE, alone |-> List!Busy = {} /\ List!Filling = {}]
            ELSE [listReq[q] EXCEPT !.alone = FALSE]]
  BY DEF List!Start
<1>2. \A s \in Reqs \ {r} : listReq'[s] = [listReq[s] EXCEPT !.alone = FALSE] BY <1>1
<1>3. \A s \in Reqs \ {r} : listReq'[s] \in List!Request BY <1>2, NotAlone DEF List!TypeOK
<1>4. listReq'[r] = [pc |-> IF op = "drop" THEN "survey" ELSE "write", op |-> op, value |-> v,
                 rows |-> {}, missed |-> FALSE, alone |-> List!Busy = {} /\ List!Filling = {}]
  BY <1>1
<1>5. listReq'[r] \in List!Request BY <1>4 DEF List!Request
<1>6. listReq' \in [Reqs -> List!Request] BY <1>1, <1>3, <1>5
<1>7. /\ listReq'[r].pc = IF op = "drop" THEN "survey" ELSE "write"
      /\ listReq'[r].op = op /\ listReq'[r].value = v
      /\ listReq'[r].alone = (List!Busy = {} /\ List!Filling = {})
  BY <1>4
<1> QED BY <1>2, <1>6, <1>7

\* The others go on where they are, and are no longer alone.
LEMMA OthersAtStart ==
  ASSUME List!TypeOK, NEW r \in Reqs, List!Start(r), NEW s \in Reqs \ {r}
  PROVE  ~listReq'[s].alone /\ listReq'[s].pc = listReq[s].pc /\ listReq'[s].value = listReq[s].value
<1>1. listReq[s] \in List!Request BY DEF List!TypeOK
<1>2. listReq'[s] = [listReq[s] EXCEPT !.alone = FALSE] BY StartSteps
<1> QED BY <1>1, <1>2 DEF List!Request

\* A request that has not written yet is about a value.
ListShape ==
  /\ List!TypeOK
  /\ \A r \in Reqs : listReq[r].pc \in {"survey", "surveyed", "write"} => listReq[r].value \in Values

Works(r) == List!Survey(r) \/ List!Surveyed(r) \/ List!Write(r) \/ List!Invalidate(r) \/ List!ReadOptions(r)
              \/ List!Sync(r) \/ List!Fail(r)

LEMMA ListCases ==
  ASSUME [List!Next]_list
  PROVE  \/ \E c \in Readers : List!StartFill(c) \/ List!FinishFill(c)
         \/ List!Expire
         \/ \E r \in Reqs : List!Start(r) \/ Works(r)
         \/ UNCHANGED list
BY DEF List!Next, Works

LEMMA ListShapeStep == ASSUME ListShape, [List!Next]_list PROVE ListShape'
<1>0. List!TypeOK /\ cache.members \in SUBSET Values BY DEF ListShape, List!TypeOK, List!Entry
<1>1. ASSUME NEW c \in Readers, List!StartFill(c) PROVE ListShape'
  <2>1. \A r \in Reqs : listReq'[r] = [listReq[r] EXCEPT !.alone = FALSE]
    BY <1>1 DEF List!StartFill
  <2>2. listReq' \in [Reqs -> List!Request] BY <1>0, <1>1, NotAlone DEF List!StartFill, List!TypeOK
  <2>3. fill' \in [Readers -> List!Entry] BY <1>0, <1>1, ListEmpty DEF List!StartFill, List!TypeOK
  <2>4. \A r \in Reqs : listReq'[r].pc = listReq[r].pc /\ listReq'[r].value = listReq[r].value
    BY <1>0, <2>1, NotAlone DEF List!TypeOK
  <2>5. overlapped' \in BOOLEAN BY <1>0, <1>1 DEF List!StartFill, List!TypeOK
  <2>6. List!TypeOK' BY <1>0, <1>1, <2>2, <2>3, <2>5 DEF List!StartFill, List!TypeOK
  <2> QED BY <2>4, <2>6 DEF ListShape
<1>2. ASSUME NEW c \in Readers, List!FinishFill(c) PROVE ListShape'
  BY <1>2, ListEmpty DEF List!FinishFill, List!TypeOK, ListShape
<1>3. ASSUME List!Expire PROVE ListShape' BY <1>3, ListEmpty DEF List!Expire, List!TypeOK, ListShape
<1>4. ASSUME NEW r \in Reqs, List!Start(r) PROVE ListShape'
  <2>1. overlapped' \in BOOLEAN BY <1>0, <1>4 DEF List!Start, List!TypeOK
  <2>2. List!TypeOK' BY <1>0, <1>4, <2>1, StartSteps DEF List!Start, List!TypeOK
  <2>3. \A s \in Reqs \ {r} : listReq'[s].pc = listReq[s].pc /\ listReq'[s].value = listReq[s].value
    BY <1>0, <1>4, OthersAtStart
  <2>4. listReq'[r].value \in Values BY <1>0, <1>4, StartSteps
  <2> QED BY <2>2, <2>3, <2>4 DEF ListShape
<1>5. ASSUME NEW r \in Reqs, Works(r) PROVE ListShape'
  <2>1. listReq' \in [Reqs -> List!Request] /\ \A s \in Reqs \ {r} : listReq'[s] = listReq[s]
    BY <1>0, <1>5, ReqSteps DEF Works
  <2>2. listReq[r].rows \in SUBSET Values BY DEF List!TypeOK, List!Request, ListShape
  <2>3. List!Members(listReq[r].rows) \in List!Entry BY <2>2, ListEmpty
  <2>4. CASE List!Survey(r)
    <3>1. ASSUME cache.stored
          PROVE  listReq'[r].pc \in {"survey", "surveyed", "write"} => listReq'[r].value = listReq[r].value
      <4>1. List!Judge(r, cache.members) BY <2>4, <3>1 DEF List!Survey
      <4>2. listReq'[r] = List!NoRequest \/ listReq'[r].value = listReq[r].value
        BY <1>0, <4>1, JudgeType
      <4> QED BY <4>2 DEF List!NoRequest
    <3>2. ~cache.stored => listReq'[r].value = listReq[r].value BY <1>0, <2>4, ReqSteps
    <3>3. listReq'[r].pc \in {"survey", "surveyed", "write"} => listReq'[r].value = listReq[r].value
      BY <3>1, <3>2
    <3>4. listReq[r].value \in Values BY <2>4 DEF List!Survey, ListShape
    <3> QED BY <2>1, <2>4, <3>3, <3>4 DEF List!Survey, List!TypeOK, ListShape
  <2>5. CASE List!Surveyed(r)
    <3>1. listReq'[r].pc \in {"survey", "surveyed", "write"} => listReq'[r].value = listReq[r].value
      <4>1. List!Judge(r, listReq[r].rows) BY <2>5 DEF List!Surveyed
      <4>2. listReq'[r] = List!NoRequest \/ listReq'[r].value = listReq[r].value
        BY <1>0, <2>2, <4>1, JudgeType
      <4> QED BY <4>2 DEF List!NoRequest
    <3>2. listReq[r].value \in Values BY <2>5 DEF List!Surveyed, ListShape
    <3> QED BY <2>1, <2>3, <2>5, <3>1, <3>2 DEF List!Surveyed, List!TypeOK, ListShape
  <2>6. CASE List!Invalidate(r) \/ List!ReadOptions(r)
    <3>1. listReq'[r].pc \in {"sync", "synced"} BY <1>0, <2>6, ReqSteps
    <3> QED
      BY <2>1, <2>6, <3>1, ListEmpty DEF List!Invalidate, List!ReadOptions, List!TypeOK, ListShape
  <2>7. CASE List!Sync(r) \/ List!Fail(r)
    <3>1. listReq'[r].pc = "idle" BY <1>0, <2>7, ReqSteps DEF List!NoRequest
    <3> QED BY <2>1, <2>2, <2>3, <2>7, <3>1 DEF List!Sync, List!Fail, List!TypeOK, ListShape
  <2>8. CASE List!Write(r)
    <3>1. listReq[r].value \in Values BY <2>8 DEF List!Write, ListShape
    <3>2. live' \subseteq Values BY <1>0, <2>8, <3>1 DEF List!Write, List!TypeOK
    <3>3. listReq'[r].pc = "invalidate" BY <1>0, <2>8, ReqSteps
    <3> QED BY <2>1, <2>8, <3>2, <3>3 DEF List!Write, List!TypeOK, ListShape
  <2> QED BY <1>5, <2>4, <2>5, <2>6, <2>7, <2>8 DEF Works
<1>6. CASE UNCHANGED list BY <1>6 DEF list, List!TypeOK, ListShape
<1> QED BY <1>1, <1>2, <1>3, <1>4, <1>5, <1>6, ListCases

LEMMA ListShapeInit == List!Init => ListShape
<1> SUFFICES ASSUME List!Init PROVE ListShape OBVIOUS
<1>1. live \in SUBSET Values /\ options = live BY DEF List!Init
<1>2. cache \in List!Entry /\ fill \in [Readers -> List!Entry] BY ListEmpty DEF List!Init
<1>3. listReq \in [Reqs -> List!Request] /\ overlapped \in BOOLEAN BY ListEmpty DEF List!Init
<1>4. \A r \in Reqs : listReq[r].pc = "idle" BY DEF List!Init, List!NoRequest
<1> QED BY <1>1, <1>2, <1>3, <1>4 DEF ListShape, List!TypeOK

\* Values, options, cache entries and requests keep their shape, whatever the list and
\* however many admins and readers there are.
THEOREM ListTypes == CatalogSpec => []List!TypeOK
<1>1. ListShape => List!TypeOK BY DEF ListShape
<1> QED BY <1>1, ListShapeInit, ListShapeStep, Apart, PTL DEF CatalogSpec

-----------------------------------------------------------------------------
(* A write that nothing overlaps                                             *)

\* What a request alone in flight knows: nobody has touched the cache since it emptied
\* it, and nobody the values since it read them.
Undisturbed ==
  \A r \in Reqs : listReq[r].alone =>
    /\ \A s \in Reqs \ {r} : listReq[s].pc = "idle"
    /\ \A c \in Readers : fill[c] = List!NoEntry
    /\ listReq[r].pc = "sync" => cache = List!NoEntry
    /\ listReq[r].pc = "synced" => listReq[r].rows = live

\* Nothing in flight, taken apart.
LEMMA Calm ==
  /\ List!Busy = {} <=> \A r \in Reqs : listReq[r].pc = "idle"
  /\ List!Filling = {} <=> \A c \in Readers : fill[c] = List!NoEntry
BY DEF List!Busy, List!Filling

\* A request that works is in flight, and whatever it does it touches no fill.
LEMMA WorkBusy ==
  ASSUME NEW r \in Reqs, Works(r)
  PROVE  listReq[r].pc # "idle" /\ UNCHANGED <<fill, overlapped>>
BY DEF Works, List!Survey, List!Surveyed, List!Write, List!Invalidate, List!ReadOptions,
   List!Sync, List!Fail

\* A request that has surveyed writes or ends.
LEMMA Judged ==
  ASSUME List!TypeOK, NEW r \in Reqs, (List!Survey(r) /\ cache.stored) \/ List!Surveyed(r)
  PROVE  \/ listReq'[r] = List!NoRequest
         \/ /\ listReq'[r].pc = "write" /\ listReq'[r].op = listReq[r].op
            /\ listReq'[r].value = listReq[r].value /\ listReq'[r].alone = listReq[r].alone
            /\ ~(List!Cardinality((IF listReq[r].pc = "survey" THEN cache.members ELSE listReq[r].rows)
                               \ {listReq[r].value}) < Least)
<1>1. CASE List!Survey(r) /\ cache.stored
  <2>1. List!Judge(r, cache.members) /\ listReq[r].pc = "survey" BY <1>1 DEF List!Survey
  <2>2. cache.members \in SUBSET Values BY DEF List!TypeOK, List!Entry
  <2> QED BY <2>1, <2>2, JudgeType
<1>2. CASE List!Surveyed(r)
  <2>1. List!Judge(r, listReq[r].rows) /\ listReq[r].pc = "surveyed" BY <1>2 DEF List!Surveyed
  <2>2. listReq[r].rows \in SUBSET Values BY DEF List!TypeOK, List!Request
  <2> QED BY <2>1, <2>2, JudgeType
<1> QED BY <1>1, <1>2

LEMMA UndisturbedStep == ASSUME ListShape, Undisturbed, [List!Next]_list PROVE Undisturbed'
<1>0. List!TypeOK BY DEF ListShape
<1>1. ASSUME NEW c \in Readers, List!StartFill(c) PROVE Undisturbed'
  <2>1. \A r \in Reqs : listReq'[r] = [listReq[r] EXCEPT !.alone = FALSE] BY <1>1 DEF List!StartFill
  <2>2. \A r \in Reqs : ~listReq'[r].alone BY <1>0, <2>1, NotAlone DEF List!TypeOK
  <2> QED BY <2>2 DEF Undisturbed
<1>2. ASSUME NEW c \in Readers, List!FinishFill(c) PROVE Undisturbed'
  <2>1. \A r \in Reqs : ~listReq[r].alone BY <1>2 DEF List!FinishFill, Undisturbed
  <2> QED BY <1>2, <2>1 DEF List!FinishFill, Undisturbed
<1>3. ASSUME List!Expire PROVE Undisturbed' BY <1>3 DEF List!Expire, Undisturbed
<1>4. ASSUME NEW r \in Reqs, List!Start(r) PROVE Undisturbed'
  <2>1. \A s \in Reqs \ {r} : ~listReq'[s].alone /\ listReq'[s].pc = listReq[s].pc
    BY <1>0, <1>4, OthersAtStart
  <2>2. listReq'[r].alone => /\ \A s \in Reqs : listReq[s].pc = "idle"
                             /\ \A c \in Readers : fill[c] = List!NoEntry
    BY <1>0, <1>4, StartSteps, Calm
  <2>3. listReq'[r].pc \in {"survey", "write"} BY <1>0, <1>4, StartSteps
  <2>4. fill' = fill BY <1>4 DEF List!Start
  <2> QED BY <2>1, <2>2, <2>3, <2>4 DEF Undisturbed
<1>5. ASSUME NEW r \in Reqs, Works(r) PROVE Undisturbed'
  <2>1. \A s \in Reqs \ {r} : listReq'[s] = listReq[s] BY <1>0, <1>5, ReqSteps DEF Works
  <2>2. listReq[r].pc # "idle" /\ fill' = fill BY <1>5, WorkBusy
  <2>3. \A s \in Reqs \ {r} : ~listReq[s].alone BY <2>2 DEF Undisturbed
  <2>4. SUFFICES ASSUME listReq'[r].alone
                 PROVE  /\ listReq[r].alone
                        /\ listReq'[r].pc = "sync" => cache' = List!NoEntry
                        /\ listReq'[r].pc = "synced" => listReq'[r].rows = live'
    BY <2>1, <2>2, <2>3 DEF Undisturbed
  <2>5. ~List!NoRequest.alone BY DEF List!NoRequest
  <2>6. CASE (List!Survey(r) /\ cache.stored) \/ List!Surveyed(r)
    BY <1>0, <2>4, <2>5, <2>6, Judged
  <2>7. CASE List!Survey(r) /\ ~cache.stored BY <1>0, <2>4, <2>7, ReqSteps
  <2>8. CASE List!Write(r) BY <1>0, <2>4, <2>8, ReqSteps
  <2>9. CASE List!Invalidate(r)
    <3>1. cache' = List!NoEntry BY <2>9 DEF List!Invalidate
    <3> QED BY <1>0, <2>4, <2>9, <3>1, ReqSteps
  <2>10. CASE List!ReadOptions(r)
    <3>1. listReq[r].pc = "sync" /\ live' = live BY <2>10 DEF List!ReadOptions
    <3>2. /\ listReq'[r].pc = "synced" /\ listReq'[r].alone = listReq[r].alone
          /\ listReq'[r].rows = IF cache.stored THEN cache.members ELSE live
      BY <1>0, <2>10, ReqSteps
    <3>3. cache = List!NoEntry BY <2>4, <3>1, <3>2 DEF Undisturbed
    <3> QED BY <2>4, <3>1, <3>2, <3>3 DEF List!NoEntry
  <2>11. CASE List!Sync(r) \/ List!Fail(r) BY <1>0, <2>4, <2>5, <2>11, ReqSteps
  <2> QED BY <1>5, <2>6, <2>7, <2>8, <2>9, <2>10, <2>11 DEF Works
<1>6. CASE UNCHANGED list BY <1>6 DEF list, Undisturbed
<1> QED BY <1>1, <1>2, <1>3, <1>4, <1>5, <1>6, ListCases

\* The synchronisation of a write that nothing overlapped leaves the options equal to
\* the live values, whatever failed or raced before it.
THEOREM WritesHeal == CatalogSpec => NextWriteHeals
<1>1. List!Init => Undisturbed BY DEF List!Init, Undisturbed, List!NoRequest
<1>2. Undisturbed =>
        [\A r \in Reqs : List!Sync(r) /\ listReq[r].alone => options' = live]_list
  BY DEF Undisturbed, List!Sync
<1> QED BY <1>1, <1>2, ListShapeInit, ListShapeStep, UndisturbedStep, Apart, PTL
     DEF CatalogSpec, NextWriteHeals, List!NextWriteHeals, list, List!vars

-----------------------------------------------------------------------------
(* A list that nothing has overlapped on                                     *)

Enough(S) == List!Cardinality(S) >= Least

\* One request or fill at a time: what each has read is still so, and what an admin is
\* about to take away leaves enough.
Kept ==
  ~overlapped =>
    /\ Enough(live) /\ Enough(options)
    /\ \A r, s \in Reqs : r # s => listReq[r].pc = "idle" \/ listReq[s].pc = "idle"
    /\ \A c \in Readers :
         fill[c] # List!NoEntry =>
           /\ fill[c] = List!Members(live)
           /\ \A r \in Reqs : listReq[r].pc = "idle"
           /\ \A d \in Readers \ {c} : fill[d] = List!NoEntry
    /\ cache # List!NoEntry => cache = List!Members(live) \/ \E r \in Reqs : listReq[r].pc = "invalidate"
    /\ \A r \in Reqs :
         /\ listReq[r].pc \in {"surveyed", "synced"} => listReq[r].rows = live
         /\ listReq[r].pc = "write" => listReq[r].op = "add" \/ Enough(live \ {listReq[r].value})

\* Sets of the list are counted as all sets are.
LEMMA ListLibrary ==
  \A S : /\ List!Cardinality(S) = Cardinality(S)
         /\ List!IsFiniteSet(S) <=> IsFiniteSet(S)
BY DEF List!Cardinality, Cardinality, List!IsFiniteSet, IsFiniteSet

LEMMA EnoughIs ==
  ASSUME NEW S \in SUBSET Values, NEW v \in Values
  PROVE  /\ ~(List!Cardinality(S) < Least) => Enough(S)
         /\ Enough(S) => Enough(S \cup {v})
<1>1. IsFiniteSet(Values) /\ Least \in Nat
  BY ListAssumption, ListLibrary DEF List!Sensible
<1>2. S \cup {v} \in SUBSET Values OBVIOUS
<1>3. IsFiniteSet(S) /\ IsFiniteSet(S \cup {v}) BY <1>1, <1>2, FS_Subset
<1>4. Cardinality(S) \in Nat /\ Cardinality(S \cup {v}) \in Nat
  BY <1>3, FS_CardinalityType
<1>5. Cardinality(S) <= Cardinality(S \cup {v})
  <2>1. S \in SUBSET (S \cup {v}) OBVIOUS
  <2> QED BY <1>3, <2>1, FS_Subset
<1> QED BY <1>1, <1>4, <1>5, ListLibrary DEF Enough

LEMMA KeptStep == ASSUME ListShape, Kept, [List!Next]_list PROVE Kept'
<1>0. List!TypeOK BY DEF ListShape
<1>1. SUFFICES ASSUME ~overlapped' PROVE Kept' BY DEF Kept
<1>2. ASSUME NEW c \in Readers, List!StartFill(c) PROVE Kept'
  <2>1. ~overlapped /\ List!Busy = {} /\ List!Filling = {} BY <1>1, <1>2 DEF List!StartFill
  <2>2. \A r \in Reqs : listReq'[r] = [listReq[r] EXCEPT !.alone = FALSE] BY <1>2 DEF List!StartFill
  <2>3. \A r \in Reqs : listReq'[r].pc = "idle" BY <1>0, <2>1, <2>2, NotAlone, Calm DEF List!TypeOK
  <2>4. \A d \in Readers : fill'[d] = IF d = c THEN List!Members(live) ELSE List!NoEntry
    BY <1>0, <1>2, <2>1, Calm DEF List!StartFill, List!TypeOK
  <2>5. live' = live /\ options' = options /\ cache' = cache /\ cache = List!NoEntry
    BY <1>2 DEF List!StartFill
  <2> QED BY <2>1, <2>3, <2>4, <2>5 DEF Kept, Enough
<1>3. ASSUME NEW c \in Readers, List!FinishFill(c) PROVE Kept'
  <2>1. /\ ~overlapped /\ fill[c] # List!NoEntry /\ cache' = fill[c]
        /\ live' = live /\ options' = options /\ listReq' = listReq
    BY <1>1, <1>3 DEF List!FinishFill
  <2>2. \A d \in Readers : fill'[d] = List!NoEntry
    BY <1>0, <1>3, <2>1 DEF List!FinishFill, List!TypeOK, Kept
  <2> QED BY <2>1, <2>2 DEF Kept, Enough
<1>4. ASSUME List!Expire PROVE Kept'
  BY <1>1, <1>4 DEF List!Expire, Kept, Enough
<1>5. ASSUME NEW r \in Reqs, List!Start(r) PROVE Kept'
  <2>1. /\ ~overlapped /\ List!Busy = {} /\ List!Filling = {}
        /\ live' = live /\ options' = options /\ cache' = cache /\ fill' = fill
    BY <1>1, <1>5 DEF List!Start
  <2>2. \A s \in Reqs \ {r} : listReq'[s].pc = "idle"
    BY <1>0, <1>5, <2>1, OthersAtStart, Calm
  <2>3. /\ listReq'[r].pc = IF listReq'[r].op = "drop" THEN "survey" ELSE "write"
        /\ listReq'[r].op \in {"add", "drop"}
    BY <1>0, <1>5, StartSteps
  <2>4. \A d \in Readers : fill'[d] = List!NoEntry BY <2>1, Calm
  <2>5. cache # List!NoEntry => cache = List!Members(live) BY <2>1, Calm DEF Kept
  <2> QED BY <2>1, <2>2, <2>3, <2>4, <2>5 DEF Kept, Enough
<1>6. ASSUME NEW r \in Reqs, Works(r) PROVE Kept'
  <2>1. ~overlapped /\ listReq[r].pc # "idle" /\ fill' = fill BY <1>1, <1>6, WorkBusy
  <2>2. \A s \in Reqs \ {r} : listReq'[s].pc = "idle" /\ listReq[s].pc = "idle"
    BY <1>0, <1>6, <2>1, ReqSteps DEF Works, Kept
  <2>3. \A d \in Readers : fill'[d] = List!NoEntry BY <2>1 DEF Kept
  <2>4. listReq[r].pc # "invalidate" /\ cache # List!NoEntry => cache = List!Members(live)
    BY <2>1, <2>2 DEF Kept
  <2>5. SUFFICES
          /\ Enough(live') /\ Enough(options')
          /\ cache' # List!NoEntry => cache' = List!Members(live') \/ listReq'[r].pc = "invalidate"
          /\ listReq'[r].pc \in {"surveyed", "synced"} => listReq'[r].rows = live'
          /\ listReq'[r].pc = "write" => listReq'[r].op = "add" \/ Enough(live' \ {listReq'[r].value})
    BY <2>2, <2>3 DEF Kept, Enough
  <2>6. Enough(live) /\ Enough(options) /\ live \in SUBSET Values
    BY <1>0, <2>1 DEF Kept, List!TypeOK
  <2>7. cache.stored => cache # List!NoEntry BY DEF List!NoEntry
  <2>8. List!NoRequest.pc = "idle" BY DEF List!NoRequest
  <2>9. CASE List!Survey(r) /\ cache.stored
    <3>1. listReq[r].pc = "survey" /\ live' = live /\ options' = options /\ cache' = cache
      BY <2>9 DEF List!Survey
    <3>2. cache = List!Members(live) BY <2>4, <2>7, <2>9, <3>1
    <3>3. cache.members = live BY <3>2 DEF List!Members
    <3>4. listReq[r].value \in Values /\ live \ {listReq[r].value} \in SUBSET Values
      BY <2>6, <3>1 DEF ListShape
    <3>5. listReq'[r] = List!NoRequest \/ (/\ listReq'[r].pc = "write" /\ listReq'[r].value = listReq[r].value
                                           /\ ~(List!Cardinality(live \ {listReq[r].value}) < Least))
      BY <1>0, <2>9, <3>1, <3>3, Judged
    <3> QED BY <2>6, <2>8, <3>1, <3>2, <3>4, <3>5, EnoughIs
  <2>10. CASE List!Survey(r) /\ ~cache.stored
    <3>1. listReq[r].pc = "survey" /\ live' = live /\ options' = options /\ cache' = cache
      BY <2>10 DEF List!Survey
    <3>2. listReq'[r].pc = "surveyed" /\ listReq'[r].rows = live BY <1>0, <2>10, ReqSteps
    <3> QED BY <2>4, <2>6, <3>1, <3>2
  <2>11. CASE List!Surveyed(r)
    <3>1. /\ listReq[r].pc = "surveyed" /\ live' = live /\ options' = options
          /\ cache' = List!Members(listReq[r].rows)
      BY <2>11 DEF List!Surveyed
    <3>2. listReq[r].rows = live BY <2>1, <3>1 DEF Kept
    <3>3. listReq[r].value \in Values /\ live \ {listReq[r].value} \in SUBSET Values
      BY <2>6, <3>1 DEF ListShape
    <3>4. listReq'[r] = List!NoRequest \/ (/\ listReq'[r].pc = "write" /\ listReq'[r].value = listReq[r].value
                                           /\ ~(List!Cardinality(live \ {listReq[r].value}) < Least))
      BY <1>0, <2>11, <3>1, <3>2, Judged
    <3> QED BY <2>6, <2>8, <3>1, <3>2, <3>3, <3>4, EnoughIs
  <2>12. CASE List!Write(r)
    <3>1. /\ listReq[r].pc = "write" /\ options' = options
          /\ live' = IF listReq[r].op = "add" THEN live \cup {listReq[r].value}
                                          ELSE live \ {listReq[r].value}
      BY <2>12 DEF List!Write
    <3>2. listReq[r].value \in Values BY <3>1 DEF ListShape
    <3>3. listReq[r].op = "add" \/ Enough(live \ {listReq[r].value}) BY <2>1, <3>1 DEF Kept
    <3>4. Enough(live') BY <2>6, <3>1, <3>2, <3>3, EnoughIs
    <3>5. listReq'[r].pc = "invalidate" BY <1>0, <2>12, ReqSteps
    <3> QED BY <2>6, <3>1, <3>4, <3>5
  <2>13. CASE List!Invalidate(r)
    <3>1. live' = live /\ options' = options /\ cache' = List!NoEntry BY <2>13 DEF List!Invalidate
    <3>2. listReq'[r].pc = "sync" BY <1>0, <2>13, ReqSteps
    <3> QED BY <2>6, <3>1, <3>2
  <2>14. CASE List!ReadOptions(r)
    <3>1. listReq[r].pc = "sync" /\ live' = live /\ options' = options /\ cache' = cache
      BY <2>14 DEF List!ReadOptions
    <3>2. /\ listReq'[r].pc = "synced"
          /\ listReq'[r].rows = IF cache.stored THEN cache.members ELSE live
      BY <1>0, <2>14, ReqSteps
    <3>3. cache.stored => cache.members = live BY <2>4, <2>7, <3>1 DEF List!Members
    <3> QED BY <2>4, <2>6, <3>1, <3>2, <3>3
  <2>15. CASE List!Sync(r)
    <3>1. /\ listReq[r].pc = "synced" /\ live' = live /\ options' = listReq[r].rows
          /\ cache' = IF listReq[r].missed THEN List!Members(listReq[r].rows) ELSE cache
      BY <2>15 DEF List!Sync
    <3>2. listReq[r].rows = live BY <2>1, <3>1 DEF Kept
    <3>3. listReq'[r].pc = "idle" BY <1>0, <2>8, <2>15, ReqSteps
    <3> QED BY <2>4, <2>6, <3>1, <3>2, <3>3
  <2>16. CASE List!Fail(r)
    <3>1. listReq[r].pc \in {"sync", "synced"} /\ live' = live /\ options' = options /\ cache' = cache
      BY <2>16 DEF List!Fail
    <3>2. listReq'[r].pc = "idle" BY <1>0, <2>8, <2>16, ReqSteps
    <3> QED BY <2>4, <2>6, <3>1, <3>2
  <2> QED BY <1>6, <2>9, <2>10, <2>11, <2>12, <2>13, <2>14, <2>15, <2>16 DEF Works
<1>7. CASE UNCHANGED list BY <1>7 DEF list, Kept, Enough
<1> QED BY <1>2, <1>3, <1>4, <1>5, <1>6, <1>7, ListCases

LEMMA KeptInit == List!Init => Kept
<1> SUFFICES ASSUME List!Init PROVE Kept OBVIOUS
<1>1. Enough(live) /\ options = live /\ cache = List!NoEntry BY DEF List!Init, Enough
<1>2. \A r \in Reqs : listReq[r].pc = "idle" BY DEF List!Init, List!NoRequest
<1>3. \A c \in Readers : fill[c] = List!NoEntry BY DEF List!Init
<1> QED BY <1>1, <1>2, <1>3 DEF Kept

\* As long as requests and fills come one at a time, the question that mirrors the list
\* keeps answers enough to choose from, whatever synchronisations fail and whenever
\* entries expire.
THEOREM AnswersStay == CatalogSpec => []AtLeastTwoAnswers
<1>1. Kept => AtLeastTwoAnswers
  BY DEF Kept, AtLeastTwoAnswers, List!AtLeastTwoAnswers, Enough
<1> QED BY <1>1, ListShapeInit, KeptInit, ListShapeStep, KeptStep, Apart, PTL
     DEF CatalogSpec
=============================================================================
