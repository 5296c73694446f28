CONSTANTS
  w1 = w1
  w2 = w2
  w3 = w3
  throttled = throttled
  network = network
  Workers = {w1, w2, w3}
  Signals = {throttled, network}
  Action <- Mixed
  Cooldown <- TwoCooldowns
  maxWorkers = 3
  MaxFirings = 1
SPECIFICATION FairSpec
INVARIANTS TypeOK TokensConserved TokenLeftAtFullLimit ReducedIffBelowMax
PROPERTIES RiseTakesCooldown LimitRecovers AcquireReturns
