SPECIFICATION FairSpec
CONSTANTS
  Vals = {v}
  Errs = {checked, cast}
  Checked = {checked}
  CastError = cast
  Nil = nil
  NRoots = 1
  NPromises = 4
  MaxSettles = 2
  MaxQueue = 1
INVARIANTS
  TypeOK
  OneOwner
  SettledIsDrained
  HandlersSeeCurrentOutcome
PROPERTIES
  DerivedSettlesOnce
  ImplementsContract
