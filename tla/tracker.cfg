\* One stream, two sessions, replays inside a session, trims and restarts.
CONSTANTS
  Symbols = {A}
  Sessions = {p, q}
  Seqs = {0, 1, 2, 3}
  Times = {0}
  Unseen = Unseen
  ReplayCrossesSessions = FALSE
  MaxLength = 6
SPECIFICATION Spec
SYMMETRY Symmetry
INVARIANTS TypeOK NothingDropped AcceptedOnce AlarmIsExact LossIsReal
