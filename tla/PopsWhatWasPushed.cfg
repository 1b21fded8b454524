CONSTANTS
  Task = {a, b, c, d}
  Queue = {p, q}
  NULL = NULL
  SizeMax = 4
  Elem = {x, y}
  Garbage = Garbage
  capacity = 3
  EleSizes = {1, 2, 3, 4}
  Baudrates = {490, 115200, 1000000}
  Byte = {x, y}
  Junk = Junk
  Size = 3
  Process = {a, b}
  Nil = Nil
  StackWords = 17
  Value = {v, w}
SPECIFICATION MCSpec
INVARIANT PopsWhatWasPushed
