SPECIFICATION Spec
CONSTANTS
  p1 = p1
  p2 = p2
  Inputs = {p1, p2}
  Arguments <- ArgumentsOf
  All = All
  Checked = {p2}
  CastError = cast
  Nil = nil
  NHandlers = 1
  NAwaits = 2
INVARIANTS TypeOK OutcomesAgree
PROPERTY AwaitsReturn
CHECK_DEADLOCK FALSE
