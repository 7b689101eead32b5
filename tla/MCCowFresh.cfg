\* Two sharers that free at the same time, and a third process.
SPECIFICATION Spec
CONSTANTS
  Proc = {p1, p2, p3}
  Page = {g1, g2, g3}
  Zero = Zero
  Junk = Junk
  NoPage = NoPage
  NoVal = NoVal
  NoProc = NoProc
  Guards = {FALSE}
  MAXFORK = 2
INVARIANT FreshPage
CHECK_DEADLOCK FALSE
