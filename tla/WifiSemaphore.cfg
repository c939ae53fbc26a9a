\* Two waiting tasks, a station that comes and goes, a start beside them.
SPECIFICATION FairSpec
CONSTANTS
  Task = {t1, t2}
  Retries = 2
  MaxLoss = 2
INVARIANTS TypeOK FewUnbackedRounds
PROPERTIES WaitersProceed
