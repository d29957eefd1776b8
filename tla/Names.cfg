\* Two threads, every row of every table, and keys that are in none.
SPECIFICATION Spec
CONSTANTS
  Threads = {t1, t2}
  OtherNames = {"PATCH", "HTTP/2"}
  OtherValues = {999}
INVARIANTS TypeOK RoundTrip
PROPERTIES OnlyRead
