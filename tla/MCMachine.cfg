SPECIFICATION MCSpec
CONSTANTS
  CpuCount = 1
  MaxCpus = 1
  DevLines = {dev}
  ErrorLine = err
  dev = dev
  err = err
  Sources = {0}
  Period = 4
  IerChoices <- SomeIer
  DimChoices <- SomeDim
  ZapSde = TRUE
  Paced = FALSE
  MaxNest = 2
  IdleWarp = TRUE
  Inject = FALSE
  LivePeriod = 6
INVARIANTS HandlerHasCause ReturnAddressKept BankMatchesMode
PROPERTIES TicksRun EveryClassServed
