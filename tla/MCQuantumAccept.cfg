SPECIFICATION Spec
CONSTANTS
  s1 = s1
  s2 = s2
  o1 = o1
  o2 = o2
  Seeds = {s1, s2}
  Indices = {0}
  Outpoints = {o1}
  NoTx = NoTx
  NoFile = NoFile
  NoCount = NoCount
  MaxKeys = 3
  MaxInputs = 2
INVARIANT SignedIsAccepted
