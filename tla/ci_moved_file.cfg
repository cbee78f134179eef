\* One pull request at a time, of two files, which may be one file moved, edited
\* or as it was.
CONSTANTS
  adapter = adapter
  manifest = manifest
  page = page
  doc = doc
  text = text
  edited = edited
  Paths = {manifest, page, doc}
  LibDirs = {}
  ServiceDirs = {adapter}
  Owned <- MCOwned
  Manifest <- MCManifest
  GlobalPaths = {}
  IgnoredPaths = {doc}
  Contents = {text, edited}
  Absent = Absent
  Similar <- MCSimilar
  Reads <- MCReads
  Good <- MCGood
  Holds <- MCHolds
  Branches = {branch}
  Moves = TRUE
  FilesChanged = 2
  NoEdit = NoEdit
  NoCommit = NoCommit
SPECIFICATION CiSpec
INVARIANT SelectionIsSound
