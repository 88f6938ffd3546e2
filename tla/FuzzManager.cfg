SPECIFICATION Spec
CONSTANTS
  Runs = {r1, r2, r3}
  Jobs = 1
  Lines = {"stat", "text", "done", "long"}
  MaxLines = 2
INVARIANTS WatchedBound SemConserved NoOrphans AllClear
PROPERTIES Terminates InterruptEnds
CHECK_DEADLOCK FALSE
