CONSTANTS
  a = a
  b = b
  composed = composed
  maker = maker
  taker = taker
  Names = {a, b}
  Procs = {maker, taker}
  Calls <- MCCalls
  Faults = {}
  MaxKills = 0
  Free = Free
  NotCounted = NotCounted
  chat = chat
  mongo = mongo
  Nothing = Nothing
  Parts = {"cluster"}
  ArgvHidden = FALSE
  Served <- MCServed
  Scaled <- MCScaled
SPECIFICATION MCSpec

PROPERTY PruneSparesTheRunning
