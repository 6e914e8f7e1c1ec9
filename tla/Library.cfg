\* Documents of every shape, a path of at most three segments, short buffers.
CONSTANTS
  t1 = t1
  t2 = t2
  MAX_SEGMENTS = 4
  MAX_PATH_LEN = 5
  LOG_LEN = 5
  Keys <- Segments
  KeyWidth <- Widths
  Zero = "0"
  Defaults <- DefaultOptions
  Documents <- WithWrongType
  Lookups <- FeatureReads
  Threads <- TwoThreads
  Features <- FeatureOptions
  TextWidth <- ShortTexts
  Messages = {3}
  LINE = 8
CHECK_DEADLOCK FALSE
SPECIFICATION LibrarySpec
INVARIANTS
  TypeOK
  PathNamesTop
  OptionsAsWritten
  KeysFitLog
  CrashNeedsWrongType
  FeaturesAsConfigured
  LogOpenWhenWritten
PROPERTY AttachEnds
