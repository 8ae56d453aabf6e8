SPECIFICATION QuestionnaireSpec
CONSTANTS
  q1 = q1
  q2 = q2
  general = general
  more = more
  a = a
  b = b
  Questions = {q1, q2}
  Groups = {general, more}
  Default = general
  Locked = {q2}
  Patches <- OneColumn
  GroupPatches <- GroupPatch
  MaxOrder = 1
  MaxVersion = 4
  Restorable = {1, 2}
  Crashes = TRUE
  Reqs = {a, b}
  NoQuestion = NoQuestion
  Keep = Keep
INVARIANTS TypeOK FixedRulesHold EngineInputsServed OneActive NeverUnserved
PROPERTY LastOutPublishesInTurn
CHECK_DEADLOCK FALSE
