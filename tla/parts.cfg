\* A column through three versions; two pull requests; two runs of the script:
\* one pair of names for the actors of whichever part moves.
CONSTANTS
  c = c
  integer = integer
  bigint = bigint
  common = common
  adapter = adapter
  lib = lib
  code = code
  manifest = manifest
  contract = contract
  script = script
  old = old
  new = new
  postgres = postgres
  grafana = grafana
  nan = nan
  Versions = {1, 2, 3}
  Columns = {c}
  Types <- MCTypes
  Widenings <- MCWidenings
  NoColumn = NoColumn
  NoFile = NoFile
  Authors = {a, b}
  NoChange = NoChange
  Indexed <- MCIndexed
  Paths = {lib, code, manifest, contract, script}
  LibDirs = {common}
  ServiceDirs = {adapter}
  Owned <- MCOwned
  Manifest <- MCManifest
  GlobalPaths = {contract}
  IgnoredPaths = {script}
  Contents = {old, new}
  Absent = Absent
  Similar <- MCSimilar
  Reads <- MCReads
  Good <- MCGood
  Holds <- MCHolds
  Branches = {a, b}
  Moves = FALSE
  FilesChanged = 1
  NoEdit = NoEdit
  NoCommit = NoCommit
  Entries <- MCEntries
  Mode <- MCMode
  WholeSecrets = {w1, w2, w3, w4}
  Scripts = {a, b}
  Missing = Missing
  NoBytes = NoBytes
  Short = Short
  NotYet = NotYet
  Grain = 10
  Initial <- MCInitial
  Returns <- MCReturns
  Spreads <- MCSpreads
  NotANumber = nan
  Digits = 12
SPECIFICATION PartsSpec
SYMMETRY Symmetry
INVARIANTS
  PartsTypeOK
  ReadersKeepWorking BuiltIsTheContract EarlierReadersAreServed
  SelectionIsSound GreenTrailMeansHealthy
  WholeOrNothing InitialisedStaysValid NothingLeftBehind
  QuotesAreTicks
PROPERTIES
  ReleasedIsFrozen FreshPassKeepsHealth SuccessMeansSecrets
