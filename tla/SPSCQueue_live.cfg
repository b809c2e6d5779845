SPECIFICATION FairSpec
CONSTANTS
  Size = 8
  Watermark = 2
  Items = {a}
  NoItem = NoItem
  Flushes <- OnlyFlush
  Waits = FALSE
  CounterMod = 2
PROPERTIES Delivered RoomAgain
