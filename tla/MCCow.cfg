\* Three pages for three processes: every copy and every lazy allocation can find
\* the list empty, and two forks give a page three sharers.
SPECIFICATION Spec
CONSTANTS
  Proc = {p1, p2, p3}
  Page = {g1, g2, g3}
  Zero = Zero
  Junk = Junk
  NoPage = NoPage
  NoVal = NoVal
  NoProc = NoProc
  Guards = {FALSE, TRUE}
  MAXFORK = 2
INVARIANTS TypeOK Counted WritableAlone
PROPERTY IsolationSpec
CHECK_DEADLOCK FALSE
SYMMETRY Symmetry
