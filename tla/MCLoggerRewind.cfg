SPECIFICATION Spec
CONSTANTS
  Writers = {w1, w2}
  Readers = {r1}
  Size = 8
  MaxPayload = 2
  Payloads = {1, 2}
  OvertakenFaults = TRUE
  NewReader = NewReader
  Garbage = Garbage
  Free = Free
  Blank = Blank
INVARIANTS OnlyEntries
