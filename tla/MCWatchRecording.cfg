SPECIFICATION Spec
CONSTANTS
  Mode = "process"
  QueueCap = 1
  MaxTicks = 2
  HasOtlp = FALSE
INVARIANTS RecordingIsLossless
