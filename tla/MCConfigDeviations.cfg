\* Violated by failing writes and by wide integers; keep one line to see its trace.
SPECIFICATION Spec
CONSTANTS
  Bodies <- IntegerBodies
  Passwords = {factory, p1}
  Factory = factory
  NoPassword = NoPassword
  Ssids = {"home", "away"}
  HomeSsid = "home"
  Keys = {"", "secret"}
  NoKey = ""
  Versions = {1}
  MaxFaults = 1
PROPERTY AnsweredIsStored
PROPERTY RequestClamped
CHECK_DEADLOCK FALSE
