\* Two adapters over eight days of bills; two runs of the detector and the agent; a stop.
SPECIFICATION CostsSpec
CONSTANTS
  None = None
  Histories <- MCHistories
  FirstDay <- MCFirstDay
  LastDay <- MCLastDay
  CycleOf <- MCCycleOf
  Adapters = {"huawei_bss", "promql"}
  LagOf <- MCLagOf
  WindowDays = 4
  MinDays = 2
  MinAmount = 1
  Threshold = 150
  MaxDays = 4
  AskedDays = {9}
  RepeatAfter = 2
  CacheTtl = 1
  Runners = {scheduler, request}
  MaxStops = 1
SYMMETRY Alike
CONSTRAINT Scope
INVARIANTS
    CostsTypeOK
    CacheIsSound
    OneNoticeADay
    SameNumbersIfPaid
    NoticeIsTrue
