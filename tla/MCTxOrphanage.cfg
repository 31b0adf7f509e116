SPECIFICATION Spec
CONSTANTS
  p1 = p1
  p2 = p2
  o1 = o1
  o2 = o2
  o3 = o3
  Peer = {p1, p2}
  Wtxid = {1, 2, 3}
  Outpoint = {o1, o2, o3}
  Inputs <- MCInputs
  Weight <- MCWeight
  MaxWeight = 2
  Created = {{o1, o2}, {o3}}
  Spent = {{o1}, {o2, o3}}
  MaxOrphans = 1
  ExpireTime = 3
  ExpireInterval = 1
  MaxTime = 4
  NoPeer = NoPeer
  NoTx = NoTx
INVARIANTS SanityCheck ListIsExact NothingOfGonePeers
PROPERTIES LimitHolds WorkIsKept
SYMMETRY Symmetry
