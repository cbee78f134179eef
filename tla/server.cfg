\* Two dependencies, two clients with two requests each, stops and restarts.
CONSTANTS
  Dependencies = {redis, calibration}
  Connections = {probe, scrape}
  MaxRequests = 2
  Nobody = Nobody
SPECIFICATION FairSpec
INVARIANTS TypeOK ReadyWasTrue EveryRequestAnswered
PROPERTIES QuietConnectionsEnd LoopIsNotLockedOut
