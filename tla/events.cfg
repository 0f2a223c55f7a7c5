SPECIFICATION BufferSpec
CONSTANTS
  short = short
  long = long
  Texts = {short, long}
  Size <- MCSize
  MaxEvents = 2
  MaxSize = 3
  MaxTotal = 5
  Readers = {r1, r2}
  PageLimit = 2
  Absent = Absent
SYMMETRY Interchangeable
INVARIANTS ReadersAccountForAll GivenIsDurable
