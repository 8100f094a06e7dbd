CONSTANTS
  Mounts <- MCMounts
  AtcValues <- MCAtcValues
  IoResults = {"ok"}
SPECIFICATION Spec
INVARIANT SelfTestSignExtended
