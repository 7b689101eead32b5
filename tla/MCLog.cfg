\* Two processes and three blocks, so that operations overlap and absorb each
\* other's blocks; 4 + 4 of the 10 entries are reserved by two operations, so the
\* second one waits for space once three blocks are logged.
CONSTANTS
  Proc = {p1, p2}
  Block = {b1, b2, b3}
  Data = {d1, d2}
  NoData = NoData
  NoBlock = NoBlock
  MAXOPBLOCKS = 4
  LOGSIZE = 10
  NLOG = 10
  OPBLOCKS = 2
SPECIFICATION Spec
INVARIANTS TypeOK CommitAlone Pinned Durable WakerExists
PROPERTY AtomicSpec
SYMMETRY Symmetry
