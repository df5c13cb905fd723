SPECIFICATION ReaderSpec
CONSTANTS
  Texts <- ValidTexts
  BufLen = 8
  MinRead = 1
INVARIANTS BytesKept
CHECK_DEADLOCK FALSE
