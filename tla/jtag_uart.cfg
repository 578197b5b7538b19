SPECIFICATION UartFair
CONSTANTS
  FifoDepth = 1
  Threshold = 0
  Streams = 6
  BufLen = 3
  IntMax = 4
  Timeouts = {0}
  MaxCount = 2
  Programs = {{"write", "close", "ioctl"}, {"read", "input"}}
INVARIANT ReadInOrder
INVARIANT InterruptsArmed
PROPERTY UartStreams
PROPERTY CallsReturn
PROPERTY BytesArrive
