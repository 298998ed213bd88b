CHECK_DEADLOCK FALSE
SPECIFICATION MCSpec
CONSTANTS
  b1 = b1
  tex1 = tex1
  tex2 = tex2
  gw = gw
  gt = gt
  pw = pw
  pt = pt
  rt = rt
  none = none
  NoResource = none
  Buffers = {b1}
  Units = {tex1, tex2}
  Tracked = {tex1, tex2}
  Volumes = {}
  Groups = {gw, gt}
  Layout <- MCLayout
  Bindings <- MCBindings
  Slots = {0}
  Offsets = {0, 1}
  Pipelines = {pw, pt, rt}
  Requires <- MCRequires
  VertexOf = {rt}
  RenderOf = {rt}
  Targets <- MCTargets
  MaxPasses = 1
  MaxEncoders = 2
  MaxCalls = 7
  MaxBundles = 1
  MaxRecorded = 5
  MaxWrites = 1
  Faults = {"lower", "submit"}
INVARIANTS
  DrawsValid
  ReadsDefined
  DataKept
PROPERTIES
  AcceptedAlive
