CONSTANTS
  s1 = s1
  s2 = s2
  Sessions = {s1, s2}
  maximum_sessions = 1
SPECIFICATION FairSpec
INVARIANT SessionsAccounted DrainedMeansUnforced DrainingReadersStartedLate
PROPERTY DrainCompletes KeepsDrainContract
CHECK_DEADLOCK FALSE
