\* Operations that write all of the MAXOPBLOCKS blocks that param.h allows them,
\* with the ratio LOGSIZE = 3 * MAXOPBLOCKS and the nlog = LOGSIZE of mkfs.
CONSTANTS
  Proc = {p1, p2, p3}
  Block = {b1, b2, b3}
  Data = {d1}
  NoData = NoData
  NoBlock = NoBlock
  MAXOPBLOCKS = 1
  LOGSIZE = 3
  NLOG = 3
  OPBLOCKS = 1
SPECIFICATION Spec
INVARIANT LogSpace
SYMMETRY Symmetry
