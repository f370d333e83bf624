\* The same bills, for the services that a notice lists.
SPECIFICATION CostsSpec
CONSTANTS
  None = None
  Histories <- MCHistories
  FirstDay <- MCFirstDay
  LastDay <- MCLastDay
  CycleOf <- MCCycleOf
  Adapters = {"huawei_bss", "promql"}
  LagOf <- MCLagOf
  WindowDays = 4
  MinDays = 2
  MinAmount = 1
  Threshold = 150
  MaxDays = 4
  AskedDays = {9}
  RepeatAfter = 2
  CacheTtl = 2
  Runners = {scheduler}
  MaxStops = 0
INVARIANT
    BreakdownAddsUp
