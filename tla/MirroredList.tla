---------------------------- MODULE MirroredList ----------------------------
(***************************************************************************)
(* A list of platform values that a choice question mirrors: the values,    *)
(* the options the questionnaire serves, and the cache of the live values   *)
(* between the two.  Admins add, revive, retire and remove values; anyone's *)
(* read of the list may fill the cache.                                     *)
(*                                                                          *)
(* A fill is two steps, the query and the entry it stores: an invalidation  *)
(* between them is undone.  The options follow in a transaction of their    *)
(* own after the write of the value has committed.                          *)
(***************************************************************************)
EXTENDS Naturals, FiniteSets

CONSTANTS
  Values, Readers, Reqs,
  NoValue,   \* no value of the list
  Least      \* MIN_CHOICE_OPTIONS

\* Assumed of the constants: a list is finite.
Sensible == NoValue \notin Values /\ Least \in Nat /\ IsFiniteSet(Values)

VARIABLES
  live,        \* the values of the list that are live
  options,     \* the active options of the question
  cache,       \* members of the list, or no entry
  fill,        \* what each reader has read and not stored yet
  req,         \* requests of admins in flight
  overlapped   \* whether two of these have ever been in flight at once

vars == <<live, options, cache, fill, req, overlapped>>

Request == [pc : {"idle", "survey", "surveyed", "write", "invalidate", "sync", "synced"},
            op : {"none", "add", "drop"}, value : Values \cup {NoValue},
            rows : SUBSET Values, missed : BOOLEAN,  \* what it read, and whether past the cache
            alone : BOOLEAN]  \* whether nothing else was in flight since it began

Entry == [stored : BOOLEAN, members : SUBSET Values]
NoEntry == [stored |-> FALSE, members |-> {}]
Members(S) == [stored |-> TRUE, members |-> S]

NoRequest == [pc |-> "idle", op |-> "none", value |-> NoValue, rows |-> {},
              missed |-> FALSE, alone |-> FALSE]

Busy == {r \in Reqs : req[r].pc # "idle"}
Filling == {c \in Readers : fill[c] # NoEntry}

Init ==
  /\ live \in {S \in SUBSET Values : Cardinality(S) >= Least}
  /\ options = live
  /\ cache = NoEntry
  /\ fill = [c \in Readers |-> NoEntry]
  /\ req = [r \in Reqs |-> NoRequest]
  /\ overlapped = FALSE

Goto(r, pc) == req' = [req EXCEPT ![r].pc = pc]
End(r) == req' = [req EXCEPT ![r] = NoRequest]

\* getActiveMembers of anyone who misses the cache: the query, then the entry.
StartFill(c) ==
  /\ fill[c] = NoEntry /\ cache = NoEntry
  /\ fill' = [fill EXCEPT ![c] = Members(live)]
  /\ req' = [r \in Reqs |-> [req[r] EXCEPT !.alone = FALSE]]
  /\ overlapped' = (overlapped \/ Busy # {} \/ Filling # {})
  /\ UNCHANGED <<live, options, cache>>

FinishFill(c) ==
  /\ fill[c] # NoEntry
  /\ cache' = fill[c]
  /\ fill' = [fill EXCEPT ![c] = NoEntry]
  /\ UNCHANGED <<live, options, req, overlapped>>

\* The entry's minute is over.
Expire ==
  /\ cache # NoEntry
  /\ cache' = NoEntry
  /\ UNCHANGED <<live, options, fill, req, overlapped>>

\* create, update with active or deprecate, remove: only a value that leaves the live
\* ones is surveyed.
Start(r) ==
  /\ req[r].pc = "idle"
  /\ \E op \in {"add", "drop"}, v \in Values :
       /\ (v \in live) = (op = "drop")
       /\ req' = [q \in Reqs |->
            IF q = r
            THEN [pc |-> IF op = "drop" THEN "survey" ELSE "write", op |-> op, value |-> v,
                  rows |-> {}, missed |-> FALSE,
                  alone |-> Busy = {} /\ Filling = {}]
            ELSE [req[q] EXCEPT !.alone = FALSE]]
  /\ overlapped' = (overlapped \/ Busy # {} \/ Filling # {})
  /\ UNCHANGED <<live, options, cache, fill>>

\* Mutant of Judge: the value that goes is counted among those that remain.
JudgeWithItself(r, rows) ==
  IF Cardinality(rows) < Least THEN End(r)
  ELSE req' = [req EXCEPT ![r].pc = "write", ![r].rows = {}]

\* assertMirroredListSurvives: what remains of the members it reads is enough for a
\* choice question.
Judge(r, rows) ==
  IF Cardinality(rows \ {req[r].value}) < Least THEN End(r)
  ELSE req' = [req EXCEPT ![r].pc = "write", ![r].rows = {}]

\* getActiveMembers of a request: the entry of the cache, or a query that will store one.
Survey(r) ==
  /\ req[r].pc = "survey"
  /\ IF cache.stored THEN Judge(r, cache.members)
     ELSE req' = [req EXCEPT ![r].pc = "surveyed", ![r].rows = live]
  /\ UNCHANGED <<live, options, cache, fill, overlapped>>

Surveyed(r) ==
  /\ req[r].pc = "surveyed"
  /\ cache' = Members(req[r].rows)
  /\ Judge(r, req[r].rows)
  /\ UNCHANGED <<live, options, fill, overlapped>>

\* insert, updateById, deleteById.
Write(r) ==
  /\ req[r].pc = "write"
  /\ live' = IF req[r].op = "add" THEN live \cup {req[r].value} ELSE live \ {req[r].value}
  /\ req' = [req EXCEPT ![r] = [NoRequest EXCEPT !.pc = "invalidate", !.alone = req[r].alone]]
  /\ UNCHANGED <<options, cache, fill, overlapped>>

\* Mutant of Invalidate: the entry is left to its minute.
InvalidateByTtl(r) ==
  /\ req[r].pc = "invalidate"
  /\ Goto(r, "sync")
  /\ UNCHANGED <<live, options, cache, fill, overlapped>>

Invalidate(r) ==
  /\ req[r].pc = "invalidate"
  /\ cache' = NoEntry
  /\ Goto(r, "sync")
  /\ UNCHANGED <<live, options, fill, overlapped>>

\* mirroredOptionRows: the same read again, after the write.
ReadOptions(r) ==
  /\ req[r].pc = "sync"
  /\ req' = [req EXCEPT ![r].pc = "synced", ![r].missed = ~cache.stored,
                        ![r].rows = IF cache.stored THEN cache.members ELSE live]
  /\ UNCHANGED <<live, options, cache, fill, overlapped>>

\* syncMirroredOptions: the options become the members that were read, and a version is
\* published if that changes any.
Sync(r) ==
  /\ req[r].pc = "synced"
  /\ cache' = IF req[r].missed THEN Members(req[r].rows) ELSE cache
  /\ options' = req[r].rows
  /\ End(r)
  /\ UNCHANGED <<live, fill, overlapped>>

\* The synchronisation fails; the value is not rolled back.
Fail(r) ==
  /\ req[r].pc \in {"sync", "synced"}
  /\ End(r)
  /\ UNCHANGED <<live, options, cache, fill, overlapped>>

Next ==
  \/ \E c \in Readers : StartFill(c) \/ FinishFill(c)
  \/ Expire
  \/ \E r \in Reqs : \/ Start(r) \/ Survey(r) \/ Surveyed(r) \/ Write(r) \/ Invalidate(r)
                     \/ ReadOptions(r) \/ Sync(r) \/ Fail(r)

Spec == Init /\ [][Next]_vars

-----------------------------------------------------------------------------

TypeOK ==
  /\ live \subseteq Values /\ options \subseteq Values
  /\ cache \in Entry
  /\ fill \in [Readers -> Entry]
  /\ req \in [Reqs -> Request]
  /\ overlapped \in BOOLEAN

\* assertMirroredListSurvives: the live question has answers enough to choose from, as
\* long as no two requests or fills have overlapped, and whatever the cache held.
AtLeastTwoAnswers == ~overlapped => Cardinality(options) >= Least

\* "the next write to that list putting them right": a synchronisation of a write that
\* nothing overlapped leaves the options equal to the live values, however far behind
\* failures and races had left them.
NextWriteHeals ==
  [][\A r \in Reqs : Sync(r) /\ req[r].alone => options' = live]_vars
=============================================================================
