SPECIFICATION Spec
CONSTANTS
  Bodies <- SomeBodies
  Passwords = {factory, p1}
  Factory = factory
  NoPassword = NoPassword
  Ssids = {"home", "away"}
  HomeSsid = "home"
  Keys = {"", "secret"}
  NoKey = ""
  Versions = {1, 2}
  MaxFaults = 1
INVARIANTS SettingsInOrder RestartBringsBack NetworkInUse
CHECK_DEADLOCK FALSE
