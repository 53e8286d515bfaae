\* A ConfigMap volume, published thrice, good and bad; one command fails;
\* the reloader is restarted once.
SPECIFICATION FairSpec
CONSTANTS
  f1 = f1  f2 = f2  old = old  new = new
  NoHash = NoHash
  Files = {f1, f2}
  Contents = {old, new}
  GoodDirs <- InPairs
  Stamped = TRUE
  MaxPublications = 3
  MaxFailures = 1
  MaxRestarts = 1
INVARIANTS TypeOK NothingMissed
PROPERTIES ChangesGetLoaded GoodConfigsGetLoaded BadConfigsAreReported
