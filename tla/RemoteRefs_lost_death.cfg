\* A second lookup overlaps with the first, or with the last destructor.
SPECIFICATION FairSpec
CONSTANTS
  Holders = {h1, h2}
  Strongs = {b1, b2}
  Weaks = {w1, w2}
  Nodes = {n1, n2}
  None = None
  Overlaps = {TRUE}
PROPERTY DeathNoticed
