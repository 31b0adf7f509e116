SPECIFICATION Spec
CONSTANTS
  p1 = p1
  p2 = p2
  p3 = p3
  t1 = t1
  t2 = t2
  Peer <- ThreePeers
  TxHash = {t1, t2}
  Time = {0, 1}
  Preference <- MCPreference
  Salt <- MCSalt
  MaxSalt = 3
  MaxSequence = 3
  NoPeer = NoPeer
INVARIANTS SanityCheck PeerInfoIsExact PostGetRequestableSanityCheck
PROPERTIES NeverAskedTwice CallsAgree ImplementsTracker
CONSTRAINT FewAnnouncements
