\* More connection ids than colours: pop frees a colour its connection does
\* not have.
SPECIFICATION Spec
CONSTANTS
  h1 = h1
  h2 = h2
  h3 = h3
  h4 = h4
  h5 = h5
  Hash <- MoreIdsThanColours
  MAX_COLOR_DEFS = 3
PROPERTY FreedByItsHolder
