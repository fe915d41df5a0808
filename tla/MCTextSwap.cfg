\* Formats and arguments with shorter, longer and no English, at four stack depths.
CONSTANTS
  Char <- MCChar
  Tables <- MCTables
  Pct = "%"
  Nul = "0"
  Junk = "x"
  FmtOff = 16
  ArgOff = 23
  Cap = 3
  Align = 4
  Top = 31
  Sp = {22, 28, 31}
  Stale <- MCStale
  Depth = 9
  Frame = {1, 8}
  Arg <- MCArg
  Other <- MCOther
  Key <- MCKey
  En <- MCEn
  Fmt <- MCFmt
SPECIFICATION Spec
INVARIANTS ComposedRight SwapInv
