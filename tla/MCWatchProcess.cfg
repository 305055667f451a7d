SPECIFICATION FairSpec
CONSTANTS
  Mode = "process"
  QueueCap = 2
  MaxTicks = 3
  HasOtlp = TRUE
INVARIANTS TypeOK RenderedThenStreamed SummaryIsNewest RawCoversExposed FinalPush
PROPERTIES PushesNeverGoBack ImplementsLog StopLeadsToExit InputEndLeadsToExit QuitLeadsToExit
