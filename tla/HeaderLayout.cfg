\* Finding: fields that are not read from the bytes the header names.
SPECIFICATION Spec
CONSTANTS
  Base = 18
  Values = {0, 127, 255}
  Rssis <- MCRssis
  Mac = mac
INVARIANT HeaderLayout
