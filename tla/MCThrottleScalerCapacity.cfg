CONSTANTS
  w1 = w1
  w2 = w2
  w3 = w3
  throttled = throttled
  network = network
  Workers = {w1, w2}
  Signals = {throttled, network}
  Action <- TwoHalving
  Cooldown <- OneCooldown
  maxWorkers = 2
  MaxFirings = 2
SPECIFICATION Spec
INVARIANT FullCapacityRestored
