SPECIFICATION Spec
CONSTANTS
  IntBits = 8
  LongBits = 12
  Beyond = 3
  Size = 5
  Formats <- MCFormats
  FiqText <- MCFiqText
  Sizes = {1, 4}
  Keys <- MCKeys
  MaxFiq = 1
INVARIANTS OneByteOver PrintsText OutputInside TruncationTold
