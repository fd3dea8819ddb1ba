SPECIFICATION CrashSpec
CONSTANTS
  Tuple = {a}
  Other = o
  MaxPages = 3
  MaxTuplesPerPage = 1
PROPERTIES
  OpenReturns
