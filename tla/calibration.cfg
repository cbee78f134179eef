\* Two seeder runs, a lost connection, and loads at any point of them.
CONSTANTS
  EURUSD = EURUSD
  AAPL = AAPL
  Interval = Interval
  VenueOrder <- MCVenueOrder
  QuantityOrder <- MCQuantityOrder
  ParameterNames <- MCParameterNames
  Scripts <- MCScripts
  Absent = Absent
  NotRead = NotRead
  NoScript = NoScript
  MaxSeeds = 2
  MaxOutages = 1
SPECIFICATION Spec
INVARIANTS TypeOK LoadedAloneIsOneSeeding LoadedIsDrawable
INVARIANTS NoFalseRefusal
PROPERTIES ImplementsSeededStore
