SPECIFICATION FairSpec
CONSTANTS
  Workers = {w1, w2, w3}
  Clients = {c1}
  Tasks   = {t1, t2, loop1, loop2, loop3}
  Endless = {loop1, loop2, loop3}
  NoTask  = NoTask
INVARIANTS
  TypeOK
  OneHolder
  NoSleeperBesideWork
  NoSleeperAfterNotifyAll
  DrainedOnReturn
PROPERTIES
  ImplementsTaskService
  FuturesBecomeReady
  DestructorReturns
\* The pool stops for good once its destructor has returned.
CHECK_DEADLOCK FALSE
