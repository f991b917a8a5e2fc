SPECIFICATION Spec
CONSTANTS
  MaxObjects = 3
INVARIANTS
  TypeOK
  NoOrphanInterface
  RetryFindsData
