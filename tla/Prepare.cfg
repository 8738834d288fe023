SPECIFICATION Spec
CONSTANTS
  Conn = {1, 2}
  Cases <- MCCases
  MaxRetry = 2
  MaxLevel = 5
INVARIANT CacheCoherent
PROPERTY NeverRunsStale
PROPERTY SchemaErrorsPaid
PROPERTY NoSuchTableIsTrue
PROPERTY StepsGetThrough
