SPECIFICATION Spec
CONSTANTS
  Texts <- Wide
  Width <- Widths
  Blank = " "
  Type = {"cf", "em"}
  Rank <- Ranks
  MaxSpans = 1
  MaxLength = 5
  Detector = {"regex", "slm"}
INVARIANT OffsetsIntoOriginal
