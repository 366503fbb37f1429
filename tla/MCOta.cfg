\* Uploads, restarts and power losses at any step.
SPECIFICATION FairSpec
CONSTANTS
  old = old
  good = good
  bad = bad
  Image <- Images
  Bad <- BadImages
  Factory = old
  Junk = Junk
  NoImage = NoImage
  Chunks = 2
  MaxReboots = 2
INVARIANTS GoodImageHeld UpdateNotStuck
PROPERTIES AppliedIsStarted CrashLoopEscaped
