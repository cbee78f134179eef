\* A connection is lost while the seeder runs.
CONSTANTS
  EURUSD = EURUSD
  AAPL = AAPL
  Interval = Interval
  VenueOrder <- MCVenueOrder
  QuantityOrder <- MCQuantityOrder
  ParameterNames <- MCParameterNames
  Scripts <- MCScripts
  Absent = Absent
  NotRead = NotRead
  NoScript = NoScript
  MaxSeeds = 1
  MaxOutages = 1
SPECIFICATION Spec
INVARIANT ExitZeroMeansSeeded
