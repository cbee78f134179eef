\* No connection is lost, but the seeder runs while the adapter loads.
CONSTANTS
  EURUSD = EURUSD
  AAPL = AAPL
  Interval = Interval
  VenueOrder <- MCVenueOrder
  QuantityOrder <- MCQuantityOrder
  ParameterNames <- MCParameterNames
  Scripts <- MCScripts
  Absent = Absent
  NotRead = NotRead
  NoScript = NoScript
  MaxSeeds = 2
  MaxOutages = 0
SPECIFICATION Spec
INVARIANT LoadedIsOneSeeding
