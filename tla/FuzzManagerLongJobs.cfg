SPECIFICATION Spec
CONSTANTS
  Runs = {r1, r2}
  Jobs = 1
  Lines = {"done", "long"}
  MaxLines = 2
INVARIANT JobsBound
CHECK_DEADLOCK FALSE
