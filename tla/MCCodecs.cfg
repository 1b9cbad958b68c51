\* First bytes: every opcode, with and without FIN, and two with reserved bits.
\* Texts: the bounds of every range in the Unicode table, up to four bytes.
SPECIFICATION Spec
CONSTANTS
  FirstBytes = {0, 1, 2, 3, 8, 9, 10, 15, 128, 129, 130, 136, 137, 138, 139, 192, 146}
  SecondBytes = {0, 1, 125, 126, 127, 128, 129, 253, 254, 255}
  TextBytes = {65, 127, 128, 143, 144, 159, 160, 191, 193, 194, 223, 224, 237, 239, 240, 244, 245}
  MaxLen = 4
  StringBytes = {32, 58, 65, 97, 98}
  MaxString = 5
  Unset = Unset
  BufOverhead = 56
INVARIANTS
  AcceptsCanonicalHeaders
  EncodesIffItFits
  ValidateAgreesWithUnicode
  MaybeValidExact
  HeaderLinesAreSplit
  CreatedIsUsable
