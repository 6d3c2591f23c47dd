SPECIFICATION FairSpec
CONSTANTS
  Fds     = {1, 2}
  MaxAdds = 2
INVARIANTS
  TypeOK
  OneFlagPerActivation
  OneShotOnce
PROPERTY ReadableIsCalled
\* The process may die.
CHECK_DEADLOCK FALSE
