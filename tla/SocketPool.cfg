\* Three slots for five descriptors: empty, partly filled with holes, full,
\* and full with two descriptors left over.
CONSTANTS
  Sock = {4, 5, 6, 7, 8}
  MaxSocketNum = 3
SPECIFICATION PoolSpec
INVARIANTS PoolTypeOK CountIsExact NoDuplicates
PROPERTY PoolIsBoundedSet
