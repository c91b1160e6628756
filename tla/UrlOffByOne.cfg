\* Finding: a text is left out of a URL whose buffer would hold it.
SPECIFICATION MCSpec
CONSTANTS
  Requests = {r1}
  NoRequest = NoRequest
  BaseLens <- MCBaseLens
  TextLens <- MCTextLens
INVARIANT LeftOutOnlyIfTooSmall
