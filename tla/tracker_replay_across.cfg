\* One stream of two processes; replays may go back past a session change (a
\* consumer resuming from a checkpoint).
CONSTANTS
  Symbols = {A}
  AllStored = AllStored
  Requested <- AsDeployed
  Unlimited = Unlimited
  MaxTicks <- Endless
  Retries = 1
  ClockStepsBack = FALSE
  NoTick = NoTick
  MaxSessions = 2
  SeqBound = 2
  MaxClock = 0
  Unseen = Unseen
  ReplayCrossesSessions = TRUE
  MaxLength = 4
SPECIFICATION DeliverySpec
INVARIANT HandedOnOnce
