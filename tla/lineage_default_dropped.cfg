\* The same lineage: does each step being additive make the whole additive?
CONSTANTS
  Versions = {1, 2, 3}
  Columns = {c}
  integer = integer
  bigint = bigint
  Types <- MCTypes
  Widenings <- MCWidenings
  Authors = {a}
  NoColumn = NoColumn
  NoFile = NoFile
  NoChange = NoChange
SPECIFICATION Spec
SYMMETRY Symmetry
INVARIANT OlderWritesSucceed
