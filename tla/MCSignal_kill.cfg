SPECIFICATION LiveSpec
CONSTANTS
  Pids = {2, 3}
  Pgrp <- Group
  Euid <- User
  Sigs = {0, 9, 17, 20}
  Targets <- One
  Actions <- Masked
  Catching = {2}
  MaxDepth = 3
CHECK_DEADLOCK FALSE
INVARIANTS MaskRestored PauseSeesSignal
PROPERTIES KillKills
