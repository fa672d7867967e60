SPECIFICATION Spec
CONSTANTS
  ActiveIds = {a1, a2}
  PassiveIds = {p1, p2}
  NoId = NoId
  QpNumbers <- MCQpNumbers
SYMMETRY MCSymmetry
VIEW MCView
INVARIANTS
  TypeOK
  EndsAgree
  TimewaitInfoHeld
PROPERTY
  KeepsToClient
CHECK_DEADLOCK FALSE
