\* Two devices, one after the other; the window is resized while a loader parses meshes.
CONSTANTS
  t1 = t1
  uiscale = uiscale
  backdrop = backdrop
  meshes = meshes
  glass = glass
  other = other
  Render = render
  NoChain = NoChain
  Threads = {render}
  Creators = {render}
  Users = {}
  Buffers = {}
  Loaders <- One
  Feature = backdrop
  Clients <- Features
  Wants <- FeatureWants
  Chains = {c1}
  Sizes = {1, 2}
  DescSizes = {0, 1, 2}
  Devices = 2
  MayFail = {"viewport"}
  StackDepth = 2
  Names <- FileNames
  HudGlass <- Glass
CHECK_DEADLOCK FALSE
SPECIFICATION WrenchSpec
INVARIANT GlassFitsViewport
