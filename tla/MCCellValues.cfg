\* Every cell of four integer widths, short texts, bytes and lists.
CONSTANTS
  Spans <- MCSpans
  Widest = 256
  Utf8 <- MCUtf8
  Rows <- ListRows
  Null = Null
  Unset = Unset
  SchemaError = SchemaError
SPECIFICATION CellSpec
INVARIANTS CellTypeOK ScalarsStayApart
