SPECIFICATION FairSpec
CONSTANTS
  w1 = w1  w2 = w2  s1 = s1  s2 = s2
  p1 = p1  p2 = p2  c1 = c1  c2 = c2
  NoTask = NoTask
  Workers <- MCWorkers
  Submitters <- MCSubmitters
  Plain <- MCPlain
  Checked <- MCChecked
  Throwing <- MCThrowing
INVARIANTS
  TypeOK
  FifoStart
  EachTaskOnce
  DrainedAtJoin
  NoLostWakeup
PROPERTIES
  EventuallyRun
  DestructorReturns
  ImplementsTaskService
