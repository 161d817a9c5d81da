\* Every interleaving of lookups, copies and destructors, and those without overlap.
SPECIFICATION Spec
CONSTANTS
  Holders = {h1, h2, h3}
  Strongs = {b1, b2, b3}
  Weaks = {w1, w2, w3}
  Nodes = {n1, n2}
  None = None
  Overlaps = {TRUE, FALSE}
SYMMETRY Symmetry
INVARIANTS TypeOK HandleNamesNode NothingLeaked NoFalseDeath UpgradeFinds DeathReported
PROPERTIES ActsAsReferences
