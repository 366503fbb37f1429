SPECIFICATION Spec
CONSTANTS
  Bodies <- OutOfOrder
  Passwords = {factory, p1}
  Factory = factory
  NoPassword = NoPassword
  Ssids = {"home", "away"}
  HomeSsid = "home"
  Keys = {"", "secret"}
  NoKey = ""
  Versions = {1}
  MaxFaults = 0
PROPERTY ThresholdsOnlyClamped
CHECK_DEADLOCK FALSE
