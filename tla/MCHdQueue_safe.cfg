SPECIFICATION FairSpec
CONSTANTS
  Buf = {b1, b2, b3}
  Tab = Tab
  NoBuf = NoBuf
  IntrAt = {"idle", "63", "67"}
INVARIANTS
  Inv

  
