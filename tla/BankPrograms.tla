---------------------------- MODULE BankPrograms ----------------------------
(***************************************************************************)
(* The bank programs and what they read of the catalog: a program is filed  *)
(* under a name, a name states the income proof its surrogate programs read *)
(* or takes that of the surrogate product it links to, and the admins who   *)
(* save programs, switch them, and edit names and products.                 *)
(*                                                                          *)
(* A request is a process; each read a check decides on, the write and the  *)
(* audit event are steps of their own.  Only the row and its event of a     *)
(* creation share a transaction: the other writes run on a connection of    *)
(* their own, and stand whatever becomes of the event.  One loan category,  *)
(* codes that are never used again, and figures left out of the proofs.     *)
(***************************************************************************)
EXTENDS Naturals

CONSTANTS
  Ids,          \* programs, before and after they exist
  Banks, Names, Products, Proofs,
  None,         \* null
  Reqs,
  MaxVersion,   \* bound on the version of a row
  Worlds        \* what there may be together of Incidents

ASSUME NoneAssumption == None \notin Ids \cup Banks \cup Names \cup Products \cup Proofs
ASSUME VersionAssumption == MaxVersion \in Nat \ {0}

\* What a behaviour may have: requests that overlap, the death of the process, programs
\* saved without a bankId, updates that turn a payslip program into a surrogate one, and
\* names that programs read and that change their product.
Incidents == {"overlap", "crash", "noBankId", "retype", "relink"}

ASSUME WorldsAssumption == Worlds \subseteq SUBSET Incidents

VARIABLES
  world,    \* what this behaviour may have
  row,      \* bank_program rows
  name,     \* program_name rows of platform_enumeration
  product,  \* the rule of each surrogate_product row
  event,    \* audit events: the program and the version it tells of, 0 its deletion
  lost,     \* events of stored writes that were never stored
  req       \* requests in flight

vars == <<world, row, name, product, event, lost, req>>

Content == [bank : Banks, bankId : Banks \cup {None}, name : Names,
            surrogate : BOOLEAN, proof : Proofs]
Row == [version : 1..MaxVersion, active : BOOLEAN, content : Content]
NoRow == [version |-> 0, active |-> FALSE, content |-> None]
NameRow == [own : Proofs \cup {None}, product : Products \cup {None}]
Exists(i) == row[i].version > 0
Live == {i \in Ids : Exists(i)}

\* What a request holds: the program it is about, the row it read, the version of the
\* admin's screen, what it will write, and the catalog entry it edits.
Request == [op : {"none", "create", "duplicate", "update", "toggle", "delete",
                  "rule", "link", "productRule"},
            pc : {"idle", "proof", "free", "activate", "write", "audit", "inUse"},
            id : Ids \cup {None}, old : Row \cup {NoRow}, seen : 0..MaxVersion,
            new : Row \cup {NoRow}, name : Names \cup {None}, product : Products \cup {None}, rule : Proofs \cup {None}]

Drafts == {c \in Content : c.bankId = c.bank \/ ("noBankId" \in world /\ c.bankId = None)}

NoRequest == [op |-> "none", pc |-> "idle", id |-> None, old |-> NoRow, seen |-> 0, new |-> NoRow,
              name |-> None, product |-> None, rule |-> None]

Init ==
  /\ world \in Worlds
  /\ row = [i \in Ids |-> NoRow]
  /\ name \in [Names -> {n \in NameRow : n.own = None \/ n.product = None}]
  /\ product \in [Products -> Proofs \cup {None}]
  /\ event = {} /\ lost = {}
  /\ req = [r \in Reqs |-> NoRequest]

\* The proof a name states: its product's when it has one that states it, else its own.
CatalogProof(n) ==
  IF name[n].product # None /\ product[name[n].product] # None
  THEN product[name[n].product] ELSE name[n].own

\* The surrogate programs filed under a name, switched on or not.
ProgramsUnderName(n) ==
  {i \in Live : row[i].content.name = n /\ row[i].content.surrogate}

NamesLinkedTo(p) == {n \in Names : name[n].product = p}

\* Mutant of SameNameAtBank: programs that are off are not looked at.
SameLiveNameAtBank(c, except) ==
  {i \in Live \ except :
     /\ row[i].active
     /\ row[i].content.name = c.name
     /\ IF c.bankId # None THEN row[i].content.bankId = c.bankId
                           ELSE row[i].content.bank = c.bank}

\* Another program the bank sells under the name, found by the bank's id if the saved
\* content has one, else by the bank's name.
SameNameAtBank(c, except) ==
  {i \in Live \ except :
     /\ row[i].content.name = c.name
     /\ IF c.bankId # None THEN row[i].content.bankId = c.bankId
                           ELSE row[i].content.bank = c.bank}

Idle(r) ==
  /\ req[r].pc = "idle"
  /\ "overlap" \notin world => \A q \in Reqs : req[q].pc = "idle"
Begin(r, q) == req' = [req EXCEPT ![r] = q]
Goto(r, pc) == req' = [req EXCEPT ![r].pc = pc]
End(r) == req' = [req EXCEPT ![r] = NoRequest]

\* create: a program is born switched on.
StartCreate(r) ==
  /\ Idle(r)
  /\ \E c \in Drafts :
       Begin(r, [NoRequest EXCEPT !.op = "create", !.pc = "proof",
                   !.new = [version |-> 1, active |-> TRUE, content |-> c]])
  /\ UNCHANGED <<row, name, product, event, lost>>

\* duplicate: a copy switched off, under the source's name or another; its proof is
\* not judged.
StartDuplicate(r) ==
  /\ Idle(r)
  /\ \E i \in Live, n \in Names :
       Begin(r, [NoRequest EXCEPT !.op = "duplicate", !.pc = "free",
                   !.new = [version |-> 1, active |-> FALSE,
                            content |-> [row[i].content EXCEPT !.name = n]]])
  /\ UNCHANGED <<row, name, product, event, lost>>

\* update: reads the row; the admin sends the whole of it and the version on the screen.
\* An omitted bankId keeps the row's.  The bank's other programs are looked at only if
\* the name or the bankId changes.
StartUpdate(r) ==
  /\ Idle(r)
  /\ \E i \in Live, c \in Drafts : \E seen \in 1..row[i].version :
       LET old == row[i].content
           new == IF c.bankId = None THEN [c EXCEPT !.bankId = old.bankId] ELSE c
       IN
         /\ "retype" \in world \/ (new.surrogate => old.surrogate)
         /\ Begin(r, [NoRequest EXCEPT
              !.op = "update", !.id = i, !.old = row[i], !.seen = seen,
              !.new = [row[i] EXCEPT !.content = new],
              !.pc = IF new.name # old.name \/ new.bankId # old.bankId
                     THEN "free" ELSE "proof"])
  /\ UNCHANGED <<row, name, product, event, lost>>

\* assertNameFreeAtBank: before the proof in an update, after it in a creation.
CheckNameFree(r) ==
  /\ req[r].pc = "free"
  /\ LET mine == IF req[r].op = "update" THEN {req[r].id} ELSE {}
     IN IF SameNameAtBank(req[r].new.content, mine) # {} THEN End(r)
        ELSE Goto(r, IF req[r].op = "update" THEN "proof" ELSE "write")
  /\ UNCHANGED <<row, name, product, event, lost>>

\* Mutant of CheckProof: a program that keeps its proof may take it to another name.
CheckProofAnyName(r) ==
  /\ req[r].pc = "proof"
  /\ LET new == req[r].new.content
         kept == req[r].op = "update" /\ new.proof = req[r].old.content.proof
     IN IF ~new.surrogate \/ kept \/ CatalogProof(new.name) = new.proof
        THEN Goto(r, IF req[r].op = "create" THEN "free" ELSE "write")
        ELSE End(r)
  /\ UNCHANGED <<row, name, product, event, lost>>

\* assertIncomeProofMatchesName: an update that changes neither the name nor the proof
\* is let through.
CheckProof(r) ==
  /\ req[r].pc = "proof"
  /\ LET new == req[r].new.content
         grandfathered == /\ req[r].op = "update"
                          /\ new.name = req[r].old.content.name
                          /\ new.proof = req[r].old.content.proof
     IN IF ~new.surrogate \/ grandfathered \/ CatalogProof(new.name) = new.proof
        THEN Goto(r, IF req[r].op = "create" THEN "free" ELSE "write")
        ELSE End(r)
  /\ UNCHANGED <<row, name, product, event, lost>>

\* toggle: only switching on is judged.
StartToggle(r) ==
  /\ Idle(r)
  /\ \E i \in Live, on \in BOOLEAN : \E seen \in 1..row[i].version :
       Begin(r, [NoRequest EXCEPT !.op = "toggle", !.id = i, !.old = row[i], !.seen = seen,
                   !.new = [row[i] EXCEPT !.active = on],
                   !.pc = IF on THEN "activate" ELSE "write"])
  /\ UNCHANGED <<row, name, product, event, lost>>

\* assertActivatable, of the row that was read.
CheckActivatable(r) ==
  /\ req[r].pc = "activate"
  /\ LET c == req[r].old.content
     IN IF ~c.surrogate \/ CatalogProof(c.name) = c.proof THEN Goto(r, "write") ELSE End(r)
  /\ UNCHANGED <<row, name, product, event, lost>>

\* The transaction of create and duplicate: the row and its event.
Insert(r) ==
  /\ req[r].pc = "write" /\ req[r].op \in {"create", "duplicate"}
  /\ \E i \in Ids :
       /\ ~Exists(i) /\ <<i, 1>> \notin event
       /\ row' = [row EXCEPT ![i] = req[r].new]
       /\ event' = event \cup {<<i, 1>>}
  /\ End(r)
  /\ UNCHANGED <<name, product, lost>>

\* The row the compare-and-swap of a request finds, if any.
Matches(r) == Exists(req[r].id) /\ row[req[r].id].version = req[r].seen

\* Mutant of Written: only an update raises the version.
WrittenUnraised(r) ==
  LET now == row[req[r].id]
  IN IF req[r].op = "update" THEN [now EXCEPT !.version = @ + 1, !.content = req[r].new.content]
                             ELSE [now EXCEPT !.active = req[r].new.active]

\* updateWithVersion writes all but the switch, toggleWithVersion the switch.
Written(r) ==
  LET now == row[req[r].id]
      next == [now EXCEPT !.version = @ + 1]
  IN IF req[r].op = "update" THEN [next EXCEPT !.content = req[r].new.content]
                             ELSE [next EXCEPT !.active = req[r].new.active]

Save(r) ==
  /\ req[r].pc = "write" /\ req[r].op \in {"update", "toggle"}
  /\ IF Matches(r)
     THEN /\ row[req[r].id].version < MaxVersion
          /\ row' = [row EXCEPT ![req[r].id] = Written(r)]
          /\ Goto(r, "audit")
     ELSE End(r) /\ UNCHANGED row
  /\ UNCHANGED <<name, product, event, lost>>

\* Mutant of StartDelete: the event is stored before the row is deleted.
StartDeleteTold(r) ==
  /\ Idle(r)
  /\ \E i \in Live :
       /\ Begin(r, [NoRequest EXCEPT !.op = "delete", !.pc = "write", !.id = i])
       /\ event' = event \cup {<<i, 0>>}
  /\ UNCHANGED <<row, name, product, lost>>

StartDelete(r) ==
  /\ Idle(r)
  /\ \E i \in Live : Begin(r, [NoRequest EXCEPT !.op = "delete", !.pc = "write", !.id = i])
  /\ UNCHANGED <<row, name, product, event, lost>>

\* The event is inserted first, but its transaction commits after the row is gone, and
\* not at all if the row was gone already.
Delete(r) ==
  /\ req[r].pc = "write" /\ req[r].op = "delete"
  /\ IF Exists(req[r].id)
     THEN row' = [row EXCEPT ![req[r].id] = NoRow] /\ Goto(r, "audit")
     ELSE End(r) /\ UNCHANGED row
  /\ UNCHANGED <<name, product, event, lost>>

\* The event a request is about to store.
Telling(r) ==
  <<req[r].id, IF req[r].op = "delete" THEN 0 ELSE req[r].seen + 1>>

\* Mutant of Audit: a switch has no event.
AuditButSwitches(r) ==
  /\ req[r].pc = "audit"
  /\ event' = IF req[r].op = "toggle" THEN event ELSE event \cup {Telling(r)}
  /\ End(r)
  /\ UNCHANGED <<row, name, product, lost>>

\* The event of an update refers to its program: it is refused once the program is gone.
Audit(r) ==
  /\ req[r].pc = "audit"
  /\ IF req[r].op = "delete" \/ Exists(req[r].id)
     THEN event' = event \cup {Telling(r)} /\ UNCHANGED lost
     ELSE lost' = lost \cup {Telling(r)} /\ UNCHANGED event
  /\ End(r)
  /\ UNCHANGED <<row, name, product>>

\* setProgramNameIncomeRule: refused of a name that is linked.
StartRule(r) ==
  /\ Idle(r)
  /\ \E n \in Names, p \in Proofs \cup {None} :
       /\ name[n].product = None
       /\ Begin(r, [NoRequest EXCEPT !.op = "rule", !.name = n, !.rule = p,
                      !.pc = IF p # name[n].own THEN "inUse" ELSE "write"])
  /\ UNCHANGED <<row, name, product, event, lost>>

\* setSurrogateProductIncomeRule.
StartProductRule(r) ==
  /\ Idle(r)
  /\ \E q \in Products, p \in Proofs \cup {None} :
       Begin(r, [NoRequest EXCEPT !.op = "productRule", !.product = q, !.rule = p,
                   !.pc = IF p # product[q] THEN "inUse" ELSE "write"])
  /\ UNCHANGED <<row, name, product, event, lost>>

\* INCOME_PROOF_IN_USE: a proof that programs read does not change.
CheckInUse(r) ==
  /\ req[r].pc = "inUse"
  /\ LET names == IF req[r].op = "rule" THEN {req[r].name} ELSE NamesLinkedTo(req[r].product)
     IN IF \E n \in names : ProgramsUnderName(n) # {} THEN End(r) ELSE Goto(r, "write")
  /\ UNCHANGED <<row, name, product, event, lost>>

\* Mutant of StartLink: whether the name has a rule of its own is not looked at.
StartLinkAnyName(r) ==
  /\ Idle(r)
  /\ \E n \in Names, q \in Products \cup {None} :
       /\ "relink" \in world \/ ProgramsUnderName(n) = {}
       /\ Begin(r, [NoRequest EXCEPT !.op = "link", !.pc = "write", !.name = n, !.product = q])
  /\ UNCHANGED <<row, name, product, event, lost>>

\* update of a program_name with a surrogateProductKey: a name with a rule of its own
\* is not linked; unlinking one without is refused or not by the bases it is sold on.
StartLink(r) ==
  /\ Idle(r)
  /\ \E n \in Names, q \in Products \cup {None} :
       /\ q # None => name[n].own = None
       /\ "relink" \in world \/ ProgramsUnderName(n) = {}
       /\ Begin(r, [NoRequest EXCEPT !.op = "link", !.pc = "write", !.name = n, !.product = q])
  /\ UNCHANGED <<row, name, product, event, lost>>

WriteCatalog(r) ==
  /\ req[r].pc = "write"
  /\ \/ /\ req[r].op = "rule"
        /\ name' = [name EXCEPT ![req[r].name].own = req[r].rule]
        /\ UNCHANGED product
     \/ /\ req[r].op = "link"
        /\ name' = [name EXCEPT ![req[r].name].product = req[r].product]
        /\ UNCHANGED product
     \/ /\ req[r].op = "productRule"
        /\ product' = [product EXCEPT ![req[r].product] = req[r].rule]
        /\ UNCHANGED name
  /\ End(r)
  /\ UNCHANGED <<row, event, lost>>

\* The process dies: what was stored stays, and the events on their way are lost.
Crash ==
  /\ "crash" \in world
  /\ \E r \in Reqs : req[r].pc # "idle"
  /\ lost' = lost \cup {Telling(r) : r \in {q \in Reqs : req[q].pc = "audit"}}
  /\ req' = [r \in Reqs |-> NoRequest]
  /\ UNCHANGED <<row, name, product, event>>

Work(r) ==
  \/ CheckNameFree(r) \/ CheckProof(r) \/ CheckActivatable(r) \/ CheckInUse(r)
  \/ Insert(r) \/ Save(r) \/ Delete(r) \/ Audit(r) \/ WriteCatalog(r)

Next ==
  /\ UNCHANGED world
  /\ \/ \E r \in Reqs :
          \/ StartCreate(r) \/ StartDuplicate(r) \/ StartUpdate(r) \/ StartToggle(r)
          \/ StartDelete(r) \/ StartRule(r) \/ StartProductRule(r) \/ StartLink(r)
          \/ Work(r)
     \/ Crash

Spec == Init /\ [][Next]_vars

-----------------------------------------------------------------------------

TypeOK ==
  /\ row \in [Ids -> Row \cup {NoRow}]
  /\ name \in [Names -> NameRow]
  /\ product \in [Products -> Proofs \cup {None}]
  /\ event \subseteq Ids \X (0..MaxVersion)
  /\ lost \subseteq Ids \X (0..MaxVersion)
  /\ req \in [Reqs -> Request]

\* updateWithVersion, toggleWithVersion: what a save replaces is the very row its checks
\* were made on, though no transaction holds it between them, and however many saves,
\* switches and deletions of other admins come in between.
DecidedOnTheRowReplaced ==
  [][\A r \in Reqs : Save(r) /\ Matches(r) => row[req[r].id] = req[r].old]_vars

\* AuditEventRepository: each version a program went through has its event, and so has
\* its deletion, but for those still on their way and those a crash or a deletion lost.
TrailComplete ==
  \A i \in Ids :
    LET told == {e \in event \cup lost \cup {Telling(r) : r \in {q \in Reqs : req[q].pc = "audit"}} :
                   e[1] = i}
    IN /\ Exists(i) => \A v \in 1..row[i].version : <<i, v>> \in told
       /\ ~Exists(i) /\ told # {} => <<i, 0>> \in told

\* No event tells of a change that was not made: neither of a version its program has
\* not reached nor of a deletion of a program that still exists.
NoPhantomEvent ==
  \A e \in event : Exists(e[1]) => e[2] \in 1..row[e[1]].version

\* A surrogate program that is on, and so quotes, reads the proof that its name states.
QuotesItsProof ==
  \A i \in Live : row[i].active /\ row[i].content.surrogate =>
    CatalogProof(row[i].content.name) = row[i].content.proof

\* assertActivatable, INCOME_PROOF_IN_USE: it does while admins take turns, as long as no
\* payslip program turns into a surrogate one and no name in use changes its product.
LiveReadsItsProof == {"overlap", "retype", "relink"} \cap world = {} => QuotesItsProof

\* "ONE program per catalog name, per loan type, per bank": while admins take turns, and
\* no program is saved without its bankId.
OneProgramPerName ==
  {"overlap", "noBankId"} \cap world = {} =>
    \A i, j \in Live : i # j =>
      \/ row[i].content.bank # row[j].content.bank
      \/ row[i].content.name # row[j].content.name

\* "A row holding BOTH is a fork": while admins take turns, no name has a rule of its own
\* and a product.
NoFork == "overlap" \notin world => \A n \in Names : name[n].own = None \/ name[n].product = None
=============================================================================
