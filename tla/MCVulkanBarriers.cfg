SPECIFICATION Spec
CONSTANTS
  buf1 = buf1
  buf2 = buf2
  mip1 = mip1
  mip2 = mip2
  tile = tile
  zbuf = zbuf
  scratch = scratch
  Buffers = {buf1, buf2}
  Units = {mip1, mip2, tile, zbuf}
  ImageOf <- MCImageOf
  CopySources = {"mips", zbuf}
  Temporary = scratch
  Commands <- MCCommands
  MaxCommands = 3
CHECK_DEADLOCK FALSE
INVARIANTS
  NoRace
  LayoutsHold
  HostSees
