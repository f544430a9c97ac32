SPECIFICATION WarmupSpec
CONSTANTS
  Words = {a, b, c}
  Space = Space
  Junk = Junk
  Longer <- MCLonger
  MaxText = 6
  MaxHash = 3
  Nodes <- MCNodes
  Root = "top"
  Parent <- MCParent
  Content <- MCContent
  a = a
  b = b
  c = c
INVARIANTS
  OutputIsExact LostOnlyWhenFull FaithfulCopy
CHECK_DEADLOCK FALSE
