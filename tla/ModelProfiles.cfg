SPECIFICATION Spec
CONSTANTS
  Names = {"haiku", "gemma", "deepseek"}
  Default = "haiku"
  None = None
  Threads = {t1, t2}
  EventLoop = EventLoop
  MaxFaults = 1
  MaxStops = 1
SYMMETRY Symmetry
INVARIANTS TypeOK WarmSwitchHolds RestartKeepsChoice MixesOnlyAcrossSwitch
