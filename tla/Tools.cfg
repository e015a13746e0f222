CONSTANTS
  Far = 10  Micro = 2  Cells = 2  Threshold = 2
  RoundsPerSec = 2  Delays = {1, 3}  MaxRounds = 4  MaxFaults = 1  MaxStrays = 1  MaxTimestamps = 1
  Latencies <- TimerLatencies  MaxSamples = 4
  Cpus = {0, 1}  CpuLists <- TwoCpuLists  MaxOptions = 3
  Tids = {"t1", "t2"}  Files = {"sched", "stats", "pid"}  StatsFields = 6  Figure <- TwoThreads
  PsCpus = 2  CpuArgs <- PsCpuArgs  IntLimit = 4  MaxWords = 2
  Symbols = {"CONFIG_A", "CONFIG_B"}  ConfigLines <- Settings  Assertions <- SomeAssertions
  Archs = {"arm", "x86_64"}  MaxConfig = 3  MaxChecks = 1
  Modules = {"none", "filter", "empty", "garbage"}
  VdsoImages <- SomeImages  HashOf <- NameHashes
  VdsoNames = {"a", "b"}  VdsoVersions = {"V1", "V2"}  NBuckets = 1
SPECIFICATION MCSpec
CHECK_DEADLOCK FALSE
INVARIANTS
  LatenciesCountedOnce
  LossesAreHonest
  CommandsDoAsAsked
  ReportsAreTrue
