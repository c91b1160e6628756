\* The parsers, the comparison and the request parameters, byte by byte.
SPECIFICATION Spec
CONSTANTS
  Base = 18
  Values = {0, 127, 255}
  Rssis <- MCRssis
  Mac = mac
INVARIANTS
  TypeOK
  FieldsAsDocumented
  CloudUpToDate
PROPERTIES
  ResendDropped
