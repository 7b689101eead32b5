\* Two operations fit together and a third does not, so a sleeper can see the
\* other two overlap for ever; four blocks fill the on-disk log.
CONSTANTS
  Proc = {p1, p2, p3}
  Block = {b1, b2, b3, b4}
  Data = {d1}
  NoData = NoData
  NoBlock = NoBlock
  MAXOPBLOCKS = 2
  LOGSIZE = 5
  NLOG = 5
  OPBLOCKS = 1
SPECIFICATION FairSpec
INVARIANT LogSpace
PROPERTY SleeperWakes
