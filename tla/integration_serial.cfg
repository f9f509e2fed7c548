SPECIFICATION Spec
CONSTANTS
  c1 = c1
  c2 = c2
  m1 = m1
  m2 = m2
  t1 = t1
  t2 = t2
  f1 = f1
  f2 = f2
  Candidate = {c1, c2}
  Member = {m1, m2}
  Task = {t1, t2}
  Author <- TwoAuthors
  TaskOf <- TwoTasks
  Needs <- SecondNeedsFirst
  File = {f1, f2}
  Changes <- NothingOrOneFile
  Protected = {}
  Scope <- FirstIsScoped
  MaxCandidates = 1
  Request = {r1, r2, r3}
  NoRequest = none
  Concurrent = FALSE
  MaxPushes = 1
SYMMETRY AnyRequest
INVARIANTS TypeOK ReviewedOnly DependenciesFirst FailureLeavesNothing
PROPERTIES SuccessIsReal ImplementsAtomic
CHECK_DEADLOCK FALSE
