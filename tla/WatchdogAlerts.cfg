SPECIFICATION FairSpec
CONSTANTS
  Never = Never  Together <- MCTogether
  Cooldown = 2  Silence = 1  Window = 2  Spike = 2
  MaxFailed = 2  MaxEvents = 1  MaxFaults = 1  MaxCrashes = 1
INVARIANTS FiringIsAlerted SpikeIsExact
PROPERTIES OncePerCooldown OutageIsRepeated NoAlertLoop
