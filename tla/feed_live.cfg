\* A bounded feed of one named symbol, then two symbols side by side until a
\* signal ends them, under a wall clock that only moves forward.
CONSTANTS
  Symbols = {A, B}
  AllStored = AllStored
  Requested <- FirstNamed
  Unlimited = Unlimited
  MaxTicks <- FirstBounded
  Retries = 1
  ClockStepsBack = FALSE
  NoTick = NoTick
  MaxSessions = 2
  SeqBound = 2
  MaxClock = 1
SPECIFICATION FairSpec
INVARIANTS CleanExitLosesNothing RecvNeverGoesBack BoundedRunComplete
PROPERTIES StopLeadsToExit FailureLeadsToExit RedisIsReached StopWindsDown
