SPECIFICATION AtlasSpec
CONSTANTS
  a = a
  b = b
  wide = wide
  tall = tall
  Glyph = {wide, tall}
  Char = {a}
  Blank = blank
  Row <- TwoColumns
  Width <- Widths
  Height <- Heights
  SizeInit = 3
  SizeMax = 4
  IconArea = 13
  CellArea = 1
  MinEntries = 1
  MaxDrawn = 3
INVARIANTS RectsHoldTheirGlyphs FrameIsWholeUnlessCleared RectsKeepApart AreaAccounted
