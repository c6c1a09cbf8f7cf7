SPECIFICATION Spec
CONSTANTS
  a = a
  b = b
  c = c
  x = x
  y = y
  NoName = NoName
  Threads = {a, b, c}
  Names = {x, y}
  Starters = {c}
  Stoppers = {c}
  Servers = {}
  Registers <- OwnNames
  MaxBindings = 2
  MaxGen = 2
  MaxAct = 3
INVARIANTS PublishesEveryRegistered
CHECK_DEADLOCK FALSE
