SPECIFICATION Spec
CONSTANTS
  key1 = key1  key2 = key2  key3 = key3  key4 = key4  key5 = key5
  NULL = NULL
  Keys = {key1, key2, key3, key4, key5}
  Data = {u}
  Hash <- MCHash
  Size0 = 2
  Primes <- MCPrimes
CHECK_DEADLOCK FALSE
INVARIANT NothingLost
