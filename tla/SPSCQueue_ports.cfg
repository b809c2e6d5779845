SPECIFICATION Spec
CONSTANTS
  Size = 8
  Watermark = 8
  Items = {a}
  NoItem = NoItem
  Flushes <- OnlyFlush
  Waits = FALSE
  CounterMod = 2
INVARIANT NotFullWhenEmpty
