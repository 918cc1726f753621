CONSTANTS
  a = a
  b = b
  composed = composed
  maker = maker
  taker = taker
  Names = {a, b}
  Procs = {maker, taker}
  Calls <- MCCalls
  Faults = {"refused"}
  MaxKills = 1
  Free = Free
  NotCounted = NotCounted
  chat = chat
  mongo = mongo
  Nothing = Nothing
  Parts = {"cluster", "serving", "scaling"}
  ArgvHidden = FALSE
  Served <- MCServed
  Scaled <- MCScaled
SPECIFICATION MCSpec
PROPERTIES EverythingIsRecorded SharedReleasesOutliveTheirUsers FailedCreateKeepsTheVolume
  ReadyIsItself OnlyItsForwardIsKilled CountsComeBack
