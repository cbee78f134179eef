\* The same promise when the wall clock may be set back between two runs.
CONSTANTS
  Symbols = {A}
  AllStored = AllStored
  Requested <- AsDeployed
  Unlimited = Unlimited
  MaxTicks <- Endless
  Retries = 1
  ClockStepsBack = TRUE
  NoTick = NoTick
  MaxSessions = 2
  SeqBound = 1
  MaxClock = 1
SPECIFICATION Spec
INVARIANTS RecvNeverGoesBack
