\* Three blocks for two buffers, so that buffers are recycled; one buffer can be
\* pinned, so that bget can panic; reads can fail.
SPECIFICATION FairSpec
CONSTANTS
  Proc = {p1, p2}
  Buf = {b1, b2}
  Block = {k1, k2, k3}
  Val = {v1, v2}
  NoBuf = NoBuf
  NoBlock = NoBlock
  NoProc = NoProc
  ReadErrors = TRUE
  PINS = 1
INVARIANTS TypeOK OneBuffer Coherent BreadReturns
PROPERTY IderwReturns
CHECK_DEADLOCK FALSE
