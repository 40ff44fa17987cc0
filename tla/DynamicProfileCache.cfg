SPECIFICATION Spec
CONSTANTS
  r1 = r1  r2 = r2  r3 = r3
  kp = kp  ka = ka  kb = kb  kc = kc
  Requests = {r1, r2, r3}
  Keys = {kp, ka, kb, kc}
  Preloaded = {kp}
  Capacity = 2
INVARIANTS CacheWellFormed OneCompile WaitersHaveTask AnswersOwnProfile
PROPERTY WaiterAnswered
\* The requests are finite: the system stops once all are answered.
CHECK_DEADLOCK FALSE
