\* Five connection ids compete for three colours.
SPECIFICATION Spec
CONSTANTS
  h1 = h1
  h2 = h2
  h3 = h3
  h4 = h4
  h5 = h5
  Hash <- MoreIdsThanColours
  MAX_COLOR_DEFS = 3
INVARIANT TypeOK
INVARIANT TakenIsHeld
INVARIANT NonZeroIsExclusive
PROPERTY ColourIsStable
PROPERTY ImplementsPool
