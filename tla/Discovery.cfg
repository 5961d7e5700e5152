SPECIFICATION Spec
CONSTANTS
  s1 = s1
  s2 = s2
  l1 = l1
  a1 = a1
  Servers = {s1, s2}
  Lists = {l1}
  Snapshots = {a1}
  Ttl = 1
  MaxProbing = 1
  MaxToken = 2
  MaxToggles = 1
SYMMETRY Symmetry
INVARIANTS  KeyedAnswers NotRefusedAsBefore
CHECK_DEADLOCK FALSE
