SPECIFICATION FairSpec
CONSTANTS
  Worker = {w1, w2, w3}
  Key = {k1, k2}
  Session = {s1}
  None = None
  MaxBoots = 3
INVARIANTS KeysAgree LoginsHold
PROPERTIES BootEnds
