SPECIFICATION SignalsSpec
CONSTANTS
  Workers = {n1}
  Tasks = {k1}
  Pollers = {}
  Managers = {}
  MaxMoves = 2
  MaxSilences = 1
INVARIANTS SilenceChangesNothing
CHECK_DEADLOCK FALSE
