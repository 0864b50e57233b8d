SPECIFICATION Spec
CONSTANTS
  Conns = {c1, c2}
  Sessions = {s1}
  Nobody = Nobody
INVARIANTS AnswersAsItself
CHECK_DEADLOCK FALSE
