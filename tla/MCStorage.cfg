CONSTANTS
  BYTE = 3
  NIBBLE = 2
  Addresses = {44}
  Counts = {2, 3}
  MAX_STORAGE_DEVICES = 2
SPECIFICATION StorageSpec
INVARIANT TransfersAsAsked
INVARIANT RegistryKept
PROPERTY OnlyFreedLeave
PROPERTY CallsReturn
