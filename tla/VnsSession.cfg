SPECIFICATION Spec
CONSTANTS
  Routers = {"r1", "r2"}
  Switches = {"s1", "s2"}
  Interfaces <- TwoSwitches
  RTable = {"eth1"}
  Frames <- SomeFrames
  NotYet = NotYet
  MaxFrames = 1
INVARIANTS
  InStep
  HwinfoWhole
PROPERTIES
  SessionSettles
CHECK_DEADLOCK FALSE
