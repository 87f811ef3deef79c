CONSTANTS
  RingCapacity = 3
  RingValues = {1, 2}
  ListProducers = {1, 2, 3}
  ListNodes = 6
  FeedCapacity = 1
  FeedTimeout = 2
  FirstBackoff = 1
  LastBackoff = 3
  FeedAttempts = 0
  FeedPublished = 1
  StreamSymbols = {"s1", "s2"}
  Submitters = {1, 2}
  GatewayConnects = 2
  GatewayOrders = 3
  PoolThreads = {1, 2, 3, 4}
  PoolSize = 2
  PoolQueries = 1
  PluginThreads = {"t1", "t2"}
  Libraries = {"l1", "l2", "l3"}
  PluginOf <- Gives
  Builtins <- Given
  LibraryOpens = 2
  VenueWeights <- Uneven
  RouteChildren = 4
  RouteMinimums = {0, 1, 3}
  RouteQuantities = {1, 2, 4, 5, 7, 12, 13, 20, 40}
  OwnMessages = {"a"}
  ForeignMessages = {"f", "g"}
  ReadCount = 2
  ReconnectLimit = 0
  StreamEntries = 3
  JournalThreads = {1, 2}
  JournalEvents = 3
  JournalFailures = 2
  GuardSlots = {1, 2}
  GuardTrades <- BuyOneSellTwo
  GuardRequotes = TRUE
  GuardExposure = 4
  GuardUpdates = 1
  MarginCallAction = "halt"
  MarginStopOutAction = "liquidate"
  HaltAtStopOut = TRUE
  RiskSymbols = 1
  RiskPrices = {1, 2}
  RiskTrades <- SomeTrades
  ConfiguredLimits <- SomeLimits
  RiskCash = 2
  RiskHoldings <- EitherSide
  RiskOpen = 2
  RiskPosition = 3
  RiskMaxCash = 2
  ClockFeed <- ThreeDays
  ClockDayLength = 10
  ClockChecks = 5
  ClockTimers = {1, 2}
  ClockIntervals = {0, 4}
  ClockEnds = {12, 14}
  ClockCalls = 2
  ClockRuns = 3
  EnsembleSize = 2
  EnsembleWeights <- ByPlace
  DetectorAnswers <- SureOrInDoubt
  FullCertainty = 4
  HookPriorities = {1, 2}
  HistoryKept = 2
  HooksGiven = 2
  RegimeEvents = 3
  SearchWorkers = {"w1", "w2"}
  SearchTrials = 3
  SearchFitnesses = {1, 2}
  SearchConfigs <- SomeConfigs
  SearchRange <- TenDays
  SearchBars <- RegimeBars
  MergedStreams <- FourStreams
  TickSymbols = {1, 2}
  TickPrices = {1, 3}
  TickQuantities = {1, 4}
  TickSteps = {1, 3}
  ShareUnit = 2
  BarKinds = {"Time", "Volume", "Tick", "Dollar"}
  BarThreshold = 2
  TicksGiven = 3
  FileSymbols = {"a", "b"}
  FileInputs <- SomeInputs
  FileRanges <- AllOrSome
  FileColumns = 2
  FileDay = 3
  FilesOpen = 1
  AnswersKept = {0, 2}
  FileWrites = 3
  RowTimes = {1, 2, 4, 7}
  RowPrices = {0, 1, 3}
  RowInterval = 2
  RowGap = 2
  RowJump = 1
  OnErrors = {"skip", "fail"}
  OnGaps = {"skip", "fill", "fail"}
  OnWarnings = {"skip", "continue"}
  RowsRead = 3
  SplitSymbols = {"s", "t"}
  ListedActions <- SomeActions
  SplitBars <- SourceBars
  ActionsAdded = 3
  BookSymbols = {1, 2}
  FillPrices = {2, 5}
  FillQuantities <- BuysAndSales
  FillFees = {0, 1}
  BookCapital = 12
  BookSteps = 3
SPECIFICATION PartsSpec
INVARIANT TypesOK
INVARIANT QueueSidesStayApart
INVARIANT FeedsAreServed
INVARIANT TimeIsInOrder
INVARIANT DataIsSound
INVARIANT StreamsAreWhole
INVARIANT StopsAreSound
INVARIANT SplitIsExact
INVARIANT SearchIsSound
INVARIANT LibrariesAreKept
INVARIANT ValuesAgree
INVARIANT PoolIsSound
INVARIANT EntriesGoOnce
INVARIANT JournalIsReadable
INVARIANT OrdersAreNumbered
INVARIANT RegimesAgree
INVARIANT AnswersAreSound
PROPERTY QueuesAreQueues
PROPERTY NothingWaitsForEver
PROPERTY LostLinksAreHandled
PROPERTY LimitsHold
CHECK_DEADLOCK FALSE
