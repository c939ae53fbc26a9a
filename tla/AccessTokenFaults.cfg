\* Power losses, failed exchanges, revocations and a change of key; then no failure.
SPECIFICATION FairSpec
CONSTANTS
  Key = {k1, k2}
  NoKey = NoKey
  MaxFault = 5
INVARIANTS TypeOK TokenIsOurs StoredIsPersistent
PROPERTIES ComesOnline Nearer
