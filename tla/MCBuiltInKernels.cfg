SPECIFICATION MCSpec
CONSTANTS
  w1 = w1  w2 = w2  w3 = w3
  c1 = c1  c2 = c2
  d1 = d1  d2 = d2
  k1 = k1
  Wrappers = {w1, w2}
  Contexts = {c1}
  Devices = {d1, d2}
  Children = {k1}
  None = None
  NULL = NULL
  Garbage = Garbage
  a = a  b = b
  Sep = Sep
  Unknown = Unknown
  ScalarNames = {1, 2}
  VectorNames = {3}
  OtherNames = {7}
  Values = {0, 3}
  MaxProperties = 3
  MaxVector = 2
  Letters = {a, b}
  MaxText = 6
  MaxNames = 3
  MaxExtent = 3
  Characters = {"1", "7", ".", " ", "-", "x"}
  MaxVersionText = 6
  UIntMod = 256
  ULongMod = 4096
INVARIANT KernelsRequested
CHECK_DEADLOCK FALSE
