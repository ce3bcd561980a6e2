SPECIFICATION CaseSpec
CONSTANTS
  Procs = {p1}
  Programs = {"asio_bench"}
  Size = 3
  MaxFaults = 1
INVARIANTS SuccessIsComplete
CHECK_DEADLOCK FALSE
