\* Every map of up to three of eight keys; every URI of up to four characters.
SPECIFICATION Spec
CONSTANTS
  Chars = {"/", "a", "b"}
  Maps <- SmallMaps
  Uris <- SmallUris
  SchemeSize = 7
INVARIANTS MappingKept LongestFound NoneFound
