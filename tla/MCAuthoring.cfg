CONSTANTS
  None = None
  NoGroup = NoGroup
  MaxActions = 2
  Content = {a, b, c}
  Group = {g}
  MaxRevision = 4
SPECIFICATION MCSpec
INVARIANTS RestoresWhatWas ReplayReproduces CommitsWhatItAccepts
PROPERTIES EditsAreLocal
SYMMETRY Perms
CHECK_DEADLOCK FALSE
