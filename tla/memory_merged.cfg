CONSTANTS
  m1 = m1
  m2 = m2
  u1 = u1
  u2 = u2
  d1 = d1
  Writer = Writer
  Memories <- MCMemories
  Users <- MCUsers
  Docs = {d1}
  Recalls = {c1}
  Forgets = {f1}
  MaxChanges = 1
SPECIFICATION Spec
SYMMETRY Symmetric
CHECK_DEADLOCK FALSE
INVARIANTS SourcelessIsPrivate
