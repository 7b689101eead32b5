\* Four slots: init, and an orphan whose dead parent was not a child of init.
CONSTANTS
  NPROC = 4
  MAXPID = 4
SPECIFICATION FairSpec
INVARIANTS TypeOK ParentLives WaitNotLost PidsDistinct
PROPERTY OrphansReaped
CHECK_DEADLOCK FALSE
