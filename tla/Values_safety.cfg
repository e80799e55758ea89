SPECIFICATION Spec
CONSTANTS
  Currencies = {usd, eur}
  NoCurrency = NoCurrency
  UnitsMax = 3
  Billion = 3
  BucketOptions <- OptionValues
  Samples <- SampleValues
  MaxSamples = 4
  Parts = 12
  Precision = 100000
  Operations <- ReportedOperations
  MetricNames = {"delta", "gauge"}
  Labels = {"l1", "l2"}
  DeltaMetrics = {"delta"}
  NoMetric = NoMetric
  WordMax = 3
  MaxMerged = 3
  Requests <- RequestValues
  Intervals = {0, 1, 3}
  Expirations = {1, 4}
  IntMax = 9
  MaxAge = 11
INVARIANTS
  AdditionExact
  OverflowDetected
  SummaryExact
  BucketsCountSamples
  AggregateAsReported
  SignaturesSeparate
  EntriesServedInTime
CHECK_DEADLOCK FALSE
