SPECIFICATION Spec
CONSTANTS
  Size = 8
  Watermark = 2
  Items = {a, b}
  NoItem = NoItem
  Flushes <- BothFlushes
  Waits = TRUE
  CounterMod = 2
INVARIANTS TypeOK NoTornRead OnlyStoredItems NeverThrows NotFullWhenEmpty
PROPERTY FifoSpec
SYMMETRY ItemSymmetry
