\* One symbol, three feeds, a retry, and a wall clock that may be set back.
CONSTANTS
  Symbols = {A}
  AllStored = AllStored
  Requested <- AsDeployed
  Unlimited = Unlimited
  MaxTicks <- Endless
  Retries = 1
  ClockStepsBack = TRUE
  NoTick = NoTick
  MaxSessions = 3
  SeqBound = 2
  MaxClock = 1
SPECIFICATION Spec
INVARIANTS TypeOK StreamWellFormed IssuedAreStored
PROPERTIES RefinesTickLog PublishesOnlyWhenReady
