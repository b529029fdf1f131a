SPECIFICATION Spec
CONSTANTS
  Texts <- Spaced
  Width <- Widths
  Blank = " "
  Type = {"cf", "em"}
  Rank <- Ranks
  MaxSpans = 3
  MaxLength = 5
  Detector = {"regex", "slm"}
INVARIANT FusionInv
INVARIANT UnbeatenHidden
INVARIANT FusionIdempotent
INVARIANT RestoredUpToGaps
