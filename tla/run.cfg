SPECIFICATION Spec
CONSTANTS
  lowest_trackable_value = 1
  highest_trackable_value = 100
  significant_figures = 1
  threads = 2
  Paced = TRUE
  record_all_responses = TRUE
  Latencies <- SomeLatencies
  Elapsed = {30}
  CanFail = TRUE
  MaxRequests = 3
  MaxRates = 2
INVARIANTS
  TypeOK
  SamplesTally
  ReportAddsUp
  LatencyInReport
  DeviationInReport
  SpectrumRises
  EquivalentRanges
PROPERTIES
  RunEnds
  RatesAccumulate
  StandsStill
