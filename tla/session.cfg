SPECIFICATION MCSpec
CONSTANTS
  Client = {c1, c2}
  Session = {s1}
  Wish <- AtOdds
SYMMETRY Symmetry
INVARIANTS
  TypeOK
  FinalizedIsFinal
  OutputPreserved
  ExportIsComplete
CHECK_DEADLOCK FALSE
