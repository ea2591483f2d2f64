SPECIFICATION Spec
CONSTANTS
  MP_HASH_SIZE = 2
  Addrs = {8, 10, 11}
INVARIANT TypeOK
INVARIANT Linked
PROPERTY ActsAsASet
