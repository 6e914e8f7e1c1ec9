\* The line of one option is longer than its buffer.
CONSTANTS
  t1 = t1
  t2 = t2
  MAX_SEGMENTS = 4
  MAX_PATH_LEN = 5
  LOG_LEN = 5
  Keys <- Segments
  KeyWidth <- Widths
  Zero = "0"
  Defaults <- DefaultOptions
  Documents <- WithWrongType
  Lookups <- FeatureReads
  Threads <- TwoThreads
  Features <- FeatureOptions
  TextWidth <- LongPath
  Messages = {3}
  LINE = 8
CHECK_DEADLOCK FALSE
SPECIFICATION LibrarySpec
INVARIANT LinesInBuffer
