SPECIFICATION MCSpec
CONSTANTS
  w2 = w2
  b2 = b2
  Workers = {w1, w2}
  Brokers = {b1, b2}
  NoBroker = none
  Benches <- MCBenches
  kBenchInfinity = 6
  MaxWorkerStarts = 2
  MaxMainStarts = 1
INVARIANT PublisherCanReconnect
CHECK_DEADLOCK FALSE
