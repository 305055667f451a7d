SPECIFICATION StalledRendererSpec
CONSTANTS
  Mode = "replay"
  QueueCap = 1
  MaxTicks = 4
  HasOtlp = FALSE
PROPERTIES BackpressureIsReleased DisconnectIsComplete StreamEndIsComplete
