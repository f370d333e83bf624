\* Two runs of the detector that overlap, in a process that does not stop.
SPECIFICATION CostsSpec
CONSTANTS
  None = None
  Histories <- MCHistories
  FirstDay <- MCFirstDay
  LastDay <- MCLastDay
  CycleOf <- MCCycleOf
  Adapters = {"huawei_bss", "promql"}
  LagOf <- MCLagOf
  WindowDays = 4
  MinDays = 2
  MinAmount = 1
  Threshold = 150
  MaxDays = 4
  AskedDays = {}
  RepeatAfter = 2
  CacheTtl = 1
  Runners = {scheduler, request}
  MaxStops = 0
INVARIANT
    TwiceIsOneNotice
