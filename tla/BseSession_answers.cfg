SPECIFICATION Spec
CONSTANTS
  Orders = {o1, o2}
  MaxSession = 2
INVARIANT AnswersRead
CHECK_DEADLOCK FALSE
