SPECIFICATION Spec
CONSTANTS
  Thread = {t1, t2}
  t1 = t1  t2 = t2
  Sink <- MCSink
  SpanBag <- MCSpanBag
  RecordBag <- MCRecordBag
  EventBag <- MCEventBag
  Pieces = 2
  QueueLimit = 2
  MaxSpans = 2
  MaxLines = 3
  None = None
INVARIANT OneObjectPerLine
CHECK_DEADLOCK FALSE
