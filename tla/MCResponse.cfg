\* Up to four look-ups, assignments and bodies, in any order.
SPECIFICATION Spec
CONSTANTS
  Names <- MCNames
  Lower <- MCLower
  Decimal <- MCDecimal
  Strings = {"text", "9"}
  Numbers = {"10"}
  Bodies <- MCBodies
  MaxOps = 4
CHECK_DEADLOCK FALSE
INVARIANTS TypeOK ThrowsCause HeadersTrue LengthTrue
