SPECIFICATION Spec
CONSTANTS
  A = A
  B = B
  X = X
  Y = Y
  NoVar = NoVar
  Null = Null
  Hyphen = Hyphen
  File = File
  Sort = Sort
  Chans = {A, B}
  Vars = {X, Y}
  Calls <- NoName
  Standard <- StandardOutput
  Alias <- Environment
  Commands = {Sort}
  Terminals = {2}
  MaxSize = 4
  OpenFiles = 6
  FdMax = 5
  Blocks = {1, 2}
  Fcbs = {1, 2, 3}
  Iobs = {1, 2}
  Pids = {1, 2}
INVARIANTS FlushedAtEnd
CHECK_DEADLOCK FALSE
