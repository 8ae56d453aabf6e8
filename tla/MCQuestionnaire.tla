--------------------------- MODULE MCQuestionnaire ---------------------------
(***************************************************************************)
(* The questionnaire in one run: one admin edits two questions and two      *)
(* groups and rolls back (oneAdmin), or two admins publish at once, fail and *)
(* die while they open and close one question and one group (racing).       *)
(***************************************************************************)
EXTENDS Questionnaire

CONSTANTS q1, q2, general, more, a, b

VARIABLE mode
allVars == <<mode, vars>>

\* One column of a question at a time; a group is opened, closed or moved.
OneColumn ==
  {p \in Patch : p.group = Keep /\ Cardinality({f \in DOMAIN p : p[f] # Keep}) = 1}

\* One admin closes no group, and stops at the third version.
StaysOpen ==
  /\ req[a].num <= 3
  /\ \A g \in DOMAIN req[a].edit.groups : req[a].edit.groups[g].status # "off"

\* Two admins race over one question and one group in its place: the question is
\* created and switched off, and nothing is rolled back.
OneQuestion ==
  /\ pool[q2].status = "free" /\ group[more].status = "free"
  /\ pool[q1].order = 0 /\ group[general].order = 0
  /\ \A r \in Reqs : LET edit == req[r].edit IN
       /\ DOMAIN edit.questions \subseteq {q1}
       /\ DOMAIN edit.groups \subseteq {general}
       /\ \A q \in DOMAIN edit.questions :
            req[r].pc = "contract" => edit.questions[q] = [NoChange EXCEPT !.status = "off"]
       /\ req[r].pc # "rollback"

QuestionnaireInit ==
  /\ mode \in {"oneAdmin", "racing"}
  /\ Init
  /\ mode = "racing" => OneQuestion

QuestionnaireNext ==
  /\ UNCHANGED mode
  /\ \/ mode = "oneAdmin" /\ (Edits(a) \/ Publishing(a)) /\ StaysOpen'
     \/ mode = "racing" /\ Next /\ OneQuestion'

QuestionnaireSpec == QuestionnaireInit /\ [][QuestionnaireNext]_allVars

\* "publishes at once": while admins take turns, what an edit that was answered before
\* has changed is in what is published last.
LastOutPublishesInTurn == [][mode = "oneAdmin" => LastOutPublishes]_allVars
=============================================================================
