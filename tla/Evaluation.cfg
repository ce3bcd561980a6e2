SPECIFICATION AnySpec
CONSTANTS
  Procs = {p1, p2}
  Programs = {"bsd_bench", "v_bench", "asio_bench", "corosio_bench", "berkeley_bench", "taps_bench",
              "bsd_client", "v_client", "asio_client", "corosio_client", "berkeley_client", "taps_client"}
  Size = 3
  MaxFaults = 2
  MaxRange = 9
  IdlePower = 2
  Loads = {0, 1}
  SAMPLE_SECONDS = 2
  REPETITIONS = 2
  Cases = 2
  MACRO_REPETITIONS = 3
  MaxSeconds = 2
  Configs <- SmallConfigs
  Measured <- TwoValues
  NameOrder <- ByName
  TABLE_ROWS = 3
  RAW_ROWS = 4
  COMPARISON_RAW_ROWS = 5
  FirstLine = 2
  TopLine = 3
  LastLine = 1
INVARIANTS CountsOwnRuns InterruptStopsBenches NoFalseFailure
  EnergyIsTheLoads StatsInOrder ReportsShowAll MeansAgree
CHECK_DEADLOCK FALSE
