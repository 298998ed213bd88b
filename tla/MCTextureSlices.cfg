CHECK_DEADLOCK FALSE
SPECIFICATION MCSpec
CONSTANTS
  b1 = b1
  tex1 = tex1
  tex2 = tex2
  gw = gw
  gt = gt
  pw = pw
  pt = pt
  rt = rt
  none = none
  NoResource = none
  Buffers = {b1}
  Units = {tex1}
  Tracked = {tex1}
  Volumes = {tex1}
  Groups = {gw, gt}
  Layout <- MCLayout
  Bindings <- MCBindings
  Slots = {0}
  Offsets = {0, 1}
  Pipelines = {pw, pt, rt}
  Requires <- MCRequires
  VertexOf = {rt}
  RenderOf = {rt}
  Targets <- MCSliceTargets
  MaxPasses = 1
  MaxEncoders = 2
  MaxCalls = 3
  MaxBundles = 0
  MaxRecorded = 4
  MaxWrites = 0
  Faults = {}
INVARIANTS
  ReadsDefined
