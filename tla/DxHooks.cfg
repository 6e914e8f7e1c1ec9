\* Two threads create devices, resize and release chains; one uses the context.
CONSTANTS
  t1 = t1
  t2 = t2
  uiscale = uiscale
  backdrop = backdrop
  NoChain = NoChain
  Clients <- Features
  Wants <- FeatureWants
  Chains = {c1, c2}
  Sizes = {1, 2}
  DescSizes = {1}
  Threads <- TwoThreads
  Creators <- TwoThreads
  Users = {t2}
  Buffers = {1}
  Devices = 2
  MayFail = {"viewport"}
CHECK_DEADLOCK FALSE
SYMMETRY EqualChains
SPECIFICATION Spec
INVARIANTS
  TypeOK
  DeviceBeforeViewport
  DetouredOnce
  HeldChainsHooked
  ViewportIsCurrent
  OriginalsIntact
  ContextAsTold
