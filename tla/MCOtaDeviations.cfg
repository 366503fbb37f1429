\* Violated by a second upload and an early restart; keep one line to see its trace.
SPECIFICATION Spec
CONSTANTS
  old = old
  good = good
  bad = bad
  Image <- Images
  Bad <- BadImages
  Factory = old
  Junk = Junk
  NoImage = NoImage
  Chunks = 2
  MaxReboots = 2
PROPERTY AcceptedIsBooted
PROPERTY RollbackOnlyBad
