CONSTANTS
  HashSize = 3
  CounterWidth = 8
  Lengths = {0, 17, 18, 22, 23, 24}
  Salt = salt
SPECIFICATION HkdfSpec
INVARIANT LongIsRefused
