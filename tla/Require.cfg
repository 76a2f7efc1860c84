SPECIFICATION Spec
CONSTANTS
  main = main
  a = a
  link = link
  b = b
  pkg = pkg
  other = other
  data = data
  near = near
  far = far
  absent = absent
  Path <- MCPath
  Main = main
  Id <- MCId
  Real <- MCReal
  Relative <- MCRelative
  Bare <- MCBare
  Json <- MCJson
  Beside <- MCBeside
  Directory = {near, far}
  Outright <- MCOutright
  Around <- MCAround
  Packages <- MCPackages
  Working <- MCWorking
  Absent = absent
  MaxDepth = 6
INVARIANTS StartedOnce StacksFollowCalls AnswersComplete
PROPERTY PackagesStay
